------------------------- MODULE CompletionsProofs -------------------------
(***************************************************************************)
(* What Completions promises, for any number of calls, retries, requests   *)
(* and rollouts.                                                           *)
(*                                                                         *)
(* The invariant has a part for each slot (what goes with the stage of its *)
(* request, what it has registered, and who is about to close it if its    *)
(* session is latched), a count of the operations and of the budgets, and  *)
(* what a latch and the stage of the rollout say of each other.            *)
(***************************************************************************)
EXTENDS Completions, FiniteSetTheorems, TLAPS

CountersOK ==
  /\ asked \in [Slots -> 0 .. MaxRequests + MaxRollouts]
  /\ tries \in [Slots -> 0 .. MaxRetries + 1]
  /\ \A c \in Calls : asked[c] <= MaxRequests
  /\ asked[Turn] <= rounds
  /\ rollout = "tools" => asked[Turn] < rounds

\* What the stage of a request says of the rest of its slot.
StageOK(s) ==
  /\ at[s] \in {"idle", "asked", "admitted"} => client[s] = "none"
  /\ at[s] \in {"bound", "sending", "answered", "reading", "waiting"} => client[s] # "none"
  /\ response[s] # "none" <=> at[s] \in {"answered", "reading"}
  /\ at[s] \in {"idle", "asked", "admitted", "bound"} => tries[s] = 0
  /\ at[s] \in {"sending", "answered", "reading", "waiting"} => tries[s] >= 1
  /\ at[s] = "waiting" => tries[s] <= MaxRetries
  /\ at[s] \in {"idle", "asked", "admitted", "bound", "sending", "waiting"} => ~ emitted[s]
  /\ shown[s] = IF emitted[s] THEN 1 ELSE 0
  /\ outcome[s] # "none" <=> at[s] = "leaving"

\* What a request has open is registered with its session.
HeldOK(s) ==
  /\ at[s] \in {"bound", "sending", "answered", "reading", "waiting"}
       => ClientId(s) \in resources[KeyOf(s)]
  /\ at[s] \in {"answered", "reading"} => ResponseId(s) \in resources[KeyOf(s)]

\* What has passed its look at a latched session is closed, or somebody has found
\* it and is about to close it.
ClosedOK(s) ==
  KeyOf(s) \in latch =>
    /\ at[s] # "waiting"
    /\ at[s] \in {"sending", "answered", "reading"} =>
         client[s] = "closed" \/ \E a \in Actors : ClientId(s) \in found[a]
    /\ at[s] = "reading" =>
         response[s] = "closed" \/ \E a \in Actors : ResponseId(s) \in found[a]

SlotsOK == \A s \in Slots : StageOK(s) /\ HeldOK(s) /\ ClosedOK(s)

\* The registrations of the key k: of requests, of clients and of responses.
Uses(k) ==
  {u \in Slots \X {"request", "client", "response"} :
     /\ KeyOf(u[1]) = k
     /\ u[2] = "request" => at[u[1]] \notin {"idle", "asked"}
     /\ u[2] = "client" => client[u[1]] # "none"
     /\ u[2] = "response" => response[u[1]] # "none"}

UsesOK == \A k \in Keys : operations[k] = Cardinality(Uses(k))

\* The requests that the budget of the call c has paid for.
Paid(c) == {r \in Calls \X (1 .. MaxRequests) : TreeOf(r[1]) = c /\ r[2] <= asked[r[1]]}

SpentOK == \A c \in Calls : spent[c] = Cardinality(Paid(c))

\* Whoever closes has latched its session and not gone on.
ClosersOK ==
  /\ \A a \in Actors \ closing : found[a] = {}
  /\ \A c \in Calls \cap closing : call[c] = "closing"
  /\ Host \in closing => stopped

\* The turns begin when the calls are over, and whatever session is latched, somebody
\* may still cancel it.
RolloutOK ==
  /\ rollout # "tools" => BatchOver
  /\ rollout # "turn" => at[Turn] = "idle"
  /\ stuck \subseteq {c \in Calls : call[c] = "over"}
  /\ \A k \in latch : MayCancel(k)

IInv ==
  /\ TypeOK
  /\ CountersOK
  /\ SlotsOK
  /\ UsesOK
  /\ SpentOK
  /\ ClosersOK
  /\ RolloutOK

-----------------------------------------------------------------------------
(* The constants, the keys and the stages.                                 *)

LEMMA Assumed ==
  /\ IsFiniteSet(Calls) /\ Host \notin Calls /\ Turn \notin Calls
  /\ Detachable \subseteq Calls /\ StarterOf \in [Detachable -> Calls \ Detachable]
  /\ MaxRetries \in Nat /\ MaxModelCalls \in Nat
  /\ MaxRequests \in Nat /\ MaxRollouts \in Nat \ {0}
  /\ Slots = Calls \cup {Turn} /\ Actors = Calls \cup {Host} /\ Keys = Calls \cup {Host}
  BY CompletionsAssumption DEF Slots, Actors, Keys

LEMMA KeysKnown ==
  ASSUME TypeOK
  PROVE  /\ \A s \in Slots : KeyOf(s) \in Keys
         /\ \A c \in Calls : TreeOf(c) \in Calls
         /\ KeyOf(Turn) = Host
  BY Assumed DEF TypeOK, KeyOf, TreeOf

LEMMA IdsTyped ==
  ASSUME CountersOK, NEW s \in Slots
  PROVE  ClientId(s) \in Ids /\ ResponseId(s) \in Ids
  BY Assumed DEF CountersOK, ClientId, ResponseId, Ids

-----------------------------------------------------------------------------
(* A step of one request leaves the other slots what they promise.         *)

OnlyIn(s) ==
  /\ \A x \in Slots : x # s =>
       /\ at'[x] = at[x] /\ outcome'[x] = outcome[x]
       /\ asked'[x] = asked[x] /\ tries'[x] = tries[x]
       /\ client'[x] = client[x] /\ response'[x] = response[x]
       /\ emitted'[x] = emitted[x] /\ shown'[x] = shown[x]
  /\ \A k \in Keys, i \in Ids : i[1] # s /\ i \in resources[k] => i \in resources'[k]
  /\ UNCHANGED <<detached, latch, found>>

LEMMA OthersStay ==
  ASSUME TypeOK, CountersOK, SlotsOK, NEW s \in Slots, OnlyIn(s),
         StageOK(s)', HeldOK(s)', ClosedOK(s)'
  PROVE  SlotsOK'
<1> SUFFICES ASSUME NEW x \in Slots, x # s
             PROVE  StageOK(x)' /\ HeldOK(x)' /\ ClosedOK(x)'
  BY DEF SlotsOK
<1>1. /\ at'[x] = at[x] /\ outcome'[x] = outcome[x]
      /\ asked'[x] = asked[x] /\ tries'[x] = tries[x]
      /\ client'[x] = client[x] /\ response'[x] = response[x]
      /\ emitted'[x] = emitted[x] /\ shown'[x] = shown[x]
  BY DEF OnlyIn
<1>2. ClientId(x)' = ClientId(x) /\ ResponseId(x)' = ResponseId(x)
  BY <1>1 DEF ClientId, ResponseId
<1>3. KeyOf(x)' = KeyOf(x) /\ latch' = latch /\ found' = found
  BY DEF OnlyIn, KeyOf
<1>4. ClientId(x) \in Ids /\ ResponseId(x) \in Ids /\ ClientId(x)[1] = x /\ ResponseId(x)[1] = x
  BY IdsTyped DEF ClientId, ResponseId
<1>5. KeyOf(x) \in Keys
  BY KeysKnown
<1>6. StageOK(x) /\ HeldOK(x) /\ ClosedOK(x)
  BY DEF SlotsOK
<1>7. StageOK(x)'
  BY <1>1, <1>6 DEF StageOK
<1>8. HeldOK(x)'
  <2>1. \A i \in Ids : i[1] = x /\ i \in resources[KeyOf(x)] => i \in resources'[KeyOf(x)]
    BY <1>5 DEF OnlyIn
  <2> QED BY <1>1, <1>2, <1>3, <1>4, <1>6, <2>1 DEF HeldOK
<1>9. ClosedOK(x)'
  BY <1>1, <1>2, <1>3, <1>6 DEF ClosedOK
<1> QED BY <1>7, <1>8, <1>9

-----------------------------------------------------------------------------
(* Counting the operations of a session.                                   *)

Kinds == {"request", "client", "response"}

LEMMA UsesFinite ==
  ASSUME NEW U \in SUBSET (Slots \X Kinds)
  PROVE  IsFiniteSet(U) /\ Cardinality(U) \in 0 .. 3 * Cardinality(Slots)
<1>1. IsFiniteSet(Slots) /\ Cardinality(Slots) \in Nat
  BY Assumed, FS_AddElement, FS_CardinalityType
<1>2. IsFiniteSet(Kinds) /\ Cardinality(Kinds) = 3
  <2>1. IsFiniteSet({}) /\ Cardinality({}) = 0
    BY FS_EmptySet
  <2>2. IsFiniteSet({"request"}) /\ Cardinality({"request"}) = 1
    BY FS_Singleton
  <2>3. IsFiniteSet({"request"} \cup {"client"})
        /\ Cardinality({"request"} \cup {"client"}) = 2
    BY <2>2, FS_AddElement
  <2>4. IsFiniteSet(({"request"} \cup {"client"}) \cup {"response"})
        /\ Cardinality(({"request"} \cup {"client"}) \cup {"response"}) = 3
    BY <2>3, FS_AddElement
  <2>5. Kinds = ({"request"} \cup {"client"}) \cup {"response"}
    BY DEF Kinds
  <2> QED BY <2>4, <2>5
<1>3. IsFiniteSet(Slots \X Kinds)
      /\ Cardinality(Slots \X Kinds) = Cardinality(Slots) * Cardinality(Kinds)
  BY <1>1, <1>2, FS_Product
<1>4. IsFiniteSet(U) /\ Cardinality(U) <= Cardinality(Slots \X Kinds)
  BY <1>3, FS_Subset
<1>5. Cardinality(U) \in Nat
  BY <1>4, FS_CardinalityType
<1> QED BY <1>1, <1>2, <1>3, <1>4, <1>5

LEMMA UsesTyped == \A k : Uses(k) \in SUBSET (Slots \X Kinds)
  BY DEF Uses, Kinds

\* What the session of x counts depends on the slots that have x as their key.
LEMMA UsesPointwise ==
  ASSUME NEW k \in Keys, NEW x \in Slots, KeyOf(x)' = KeyOf(x),
         at'[x] \in {"idle", "asked"} <=> at[x] \in {"idle", "asked"},
         client'[x] = "none" <=> client[x] = "none",
         response'[x] = "none" <=> response[x] = "none"
  PROVE  \A n \in Kinds : <<x, n>> \in Uses(k)' <=> <<x, n>> \in Uses(k)
  BY DEF Uses, Kinds

LEMMA UsesStay ==
  ASSUME TypeOK, UsesOK, UNCHANGED <<detached, operations>>,
         \A x \in Slots :
           /\ at'[x] \in {"idle", "asked"} <=> at[x] \in {"idle", "asked"}
           /\ client'[x] = "none" <=> client[x] = "none"
           /\ response'[x] = "none" <=> response[x] = "none"
  PROVE  UsesOK'
<1> SUFFICES ASSUME NEW k \in Keys
             PROVE  Uses(k)' = Uses(k)
  BY DEF UsesOK
<1>1. \A x \in Slots : \A n \in Kinds : <<x, n>> \in Uses(k)' <=> <<x, n>> \in Uses(k)
  BY UsesPointwise DEF KeyOf
<1>2. Uses(k) \subseteq Slots \X Kinds /\ Uses(k)' \subseteq Slots \X Kinds
  BY DEF Uses, Kinds
<1> QED BY <1>1, <1>2

\* A session that registers one use more counts one more.
LEMMA UseAdded ==
  ASSUME TypeOK, UsesOK, NEW k \in Keys, NEW u \in Slots \X Kinds,
         u \notin Uses(k), Uses(k)' = Uses(k) \cup {u},
         \A j \in Keys : j # k => Uses(j)' = Uses(j),
         operations' = [operations EXCEPT ![k] = @ + 1]
  PROVE  UsesOK'
<1>1. IsFiniteSet(Uses(k))
  BY UsesFinite, UsesTyped
<1>2. Cardinality(Uses(k) \cup {u}) = Cardinality(Uses(k)) + 1
  BY <1>1, FS_AddElement
<1> QED BY <1>2 DEF UsesOK, TypeOK

LEMMA UseRemoved ==
  ASSUME TypeOK, UsesOK, NEW k \in Keys, NEW u \in Uses(k),
         Uses(k)' = Uses(k) \ {u},
         \A j \in Keys : j # k => Uses(j)' = Uses(j),
         operations' = [operations EXCEPT ![k] = @ - 1]
  PROVE  UsesOK'
<1>1. IsFiniteSet(Uses(k))
  BY UsesFinite, UsesTyped
<1>2. Cardinality(Uses(k) \ {u}) = Cardinality(Uses(k)) - 1
  BY <1>1, FS_RemoveElement
<1> QED BY <1>2 DEF UsesOK, TypeOK

LEMMA UsesRemoved ==
  ASSUME TypeOK, UsesOK, NEW k \in Keys, NEW u \in Uses(k), NEW v \in Uses(k), u # v,
         Uses(k)' = (Uses(k) \ {u}) \ {v},
         \A j \in Keys : j # k => Uses(j)' = Uses(j),
         operations' = [operations EXCEPT ![k] = @ - 2]
  PROVE  UsesOK'
<1>1. IsFiniteSet(Uses(k)) /\ Cardinality(Uses(k)) \in Nat
  BY UsesFinite, UsesTyped
<1>2. IsFiniteSet(Uses(k) \ {u}) /\ Cardinality(Uses(k) \ {u}) = Cardinality(Uses(k)) - 1
  BY <1>1, FS_RemoveElement
<1>3. Cardinality((Uses(k) \ {u}) \ {v}) = Cardinality(Uses(k) \ {u}) - 1
  BY <1>2, FS_RemoveElement
<1>4. Cardinality(Uses(k)') = Cardinality(Uses(k)) - 2
  BY <1>1, <1>2, <1>3
<1>5. operations'[k] = operations[k] - 2 /\ \A j \in Keys : j # k => operations'[j] = operations[j]
  BY DEF TypeOK
<1> QED BY <1>4, <1>5 DEF UsesOK

-----------------------------------------------------------------------------
(* The registry keeps its type.                                            *)

RegistryOK ==
  /\ latch \subseteq known /\ known \subseteq Keys
  /\ operations \in [Keys -> 0 .. 3 * Cardinality(Slots)]
  /\ resources \in [Keys -> SUBSET Ids]
  /\ \A k \in Keys \ known : operations[k] = 0 /\ resources[k] = {}

LEMMA OperationsTyped ==
  ASSUME UsesOK', operations' = [k \in Keys |-> operations'[k]]
  PROVE  operations' \in [Keys -> 0 .. 3 * Cardinality(Slots)]
<1>1. \A k \in Keys : operations'[k] \in 0 .. 3 * Cardinality(Slots)
  <2> SUFFICES ASSUME NEW k \in Keys
               PROVE  operations'[k] \in 0 .. 3 * Cardinality(Slots)
    OBVIOUS
  <2>1. Uses(k)' \in SUBSET (Slots \X Kinds)
    BY DEF Uses, Kinds
  <2> QED BY <2>1, UsesFinite DEF UsesOK
<1> QED BY <1>1

LEMMA RegisterTyped ==
  ASSUME RegistryOK, UsesOK', NEW k \in Keys, NEW ids \in SUBSET Ids, Register(k, ids)
  PROVE  RegistryOK'
<1>1. operations' \in [Keys -> 0 .. 3 * Cardinality(Slots)]
  BY OperationsTyped DEF Register, RegistryOK
<1> QED BY <1>1 DEF Register, RegistryOK

LEMMA UnregisterTyped ==
  ASSUME RegistryOK, UsesOK', NEW k \in Keys, NEW n \in Nat, NEW ids, Unregister(k, n, ids)
  PROVE  RegistryOK'
<1>1. operations' \in [Keys -> 0 .. 3 * Cardinality(Slots)]
  BY OperationsTyped DEF Unregister, RegistryOK
<1>2. resources' \in [Keys -> SUBSET Ids]
  BY DEF Unregister, RegistryOK
<1>3. \A j \in Keys : j # k => operations'[j] = operations[j] /\ resources'[j] = resources[j]
  BY DEF Unregister, RegistryOK
<1> QED BY <1>1, <1>2, <1>3 DEF Unregister, RegistryOK

\* The other keys count what they counted when one request moves.
LEMMA UsesElsewhere ==
  ASSUME TypeOK, NEW s \in Slots, OnlyIn(s)
  PROVE  /\ \A k \in Keys : k # KeyOf(s) => Uses(k)' = Uses(k)
         /\ \A x \in Slots, n \in Kinds : x # s =>
              (<<x, n>> \in Uses(KeyOf(s))' <=> <<x, n>> \in Uses(KeyOf(s)))
<1>1. \A x \in Slots : KeyOf(x)' = KeyOf(x)
  BY DEF OnlyIn, KeyOf
<1>2. \A k \in Keys : \A x \in Slots : \A n \in Kinds :
        x # s => (<<x, n>> \in Uses(k)' <=> <<x, n>> \in Uses(k))
  <2> SUFFICES ASSUME NEW k \in Keys, NEW x \in Slots, x # s
               PROVE  \A n \in Kinds : <<x, n>> \in Uses(k)' <=> <<x, n>> \in Uses(k)
    OBVIOUS
  <2>1. at'[x] = at[x] /\ client'[x] = client[x] /\ response'[x] = response[x]
    BY DEF OnlyIn
  <2> QED BY <1>1, <2>1, UsesPointwise
<1>3. \A k \in Keys : k # KeyOf(s) => \A n \in Kinds : <<s, n>> \notin Uses(k)' /\ <<s, n>> \notin Uses(k)
  BY <1>1 DEF Uses
<1>4. \A k \in Keys : Uses(k) \subseteq Slots \X Kinds /\ Uses(k)' \subseteq Slots \X Kinds
  BY DEF Uses, Kinds
<1>5. \A k \in Keys : k # KeyOf(s) => Uses(k)' = Uses(k)
  <2> SUFFICES ASSUME NEW k \in Keys, k # KeyOf(s)
               PROVE  Uses(k)' = Uses(k)
    OBVIOUS
  <2>1. \A x \in Slots : \A n \in Kinds : <<x, n>> \in Uses(k)' <=> <<x, n>> \in Uses(k)
    BY <1>2, <1>3
  <2> QED BY <1>4, <2>1
<1>6. KeyOf(s) \in Keys
  BY KeysKnown
<1>7. \A x \in Slots : \A n \in Kinds :
        x # s => (<<x, n>> \in Uses(KeyOf(s))' <=> <<x, n>> \in Uses(KeyOf(s)))
  <2>1. KeyOf(s)' = KeyOf(s)
    BY <1>1
  <2> QED BY <1>2, <1>6, <2>1
<1> QED BY <1>5, <1>7

LEMMA OneUseMore ==
  ASSUME TypeOK, UsesOK, NEW s \in Slots, OnlyIn(s), NEW n \in Kinds,
         <<s, n>> \notin Uses(KeyOf(s)), <<s, n>> \in Uses(KeyOf(s))',
         \A m \in Kinds : m # n =>
           (<<s, m>> \in Uses(KeyOf(s))' <=> <<s, m>> \in Uses(KeyOf(s))),
         operations' = [operations EXCEPT ![KeyOf(s)] = @ + 1]
  PROVE  UsesOK'
<1> DEFINE k == KeyOf(s)
<1>1. KeyOf(s) \in Keys /\ KeyOf(s)' = KeyOf(s)
  BY KeysKnown DEF OnlyIn, KeyOf
<1>2. Uses(KeyOf(s)) \subseteq Slots \X Kinds /\ Uses(KeyOf(s))' \subseteq Slots \X Kinds
  BY DEF Uses, Kinds
<1>3. \A x \in Slots, m \in Kinds :
        <<x, m>> \in Uses(KeyOf(s))' <=> <<x, m>> \in Uses(KeyOf(s)) \cup {<<s, n>>}
  BY UsesElsewhere
<1>4. Uses(KeyOf(s))' = Uses(KeyOf(s)) \cup {<<s, n>>}
  BY <1>2, <1>3
<1> QED BY <1>1, <1>4, UseAdded, UsesElsewhere

LEMMA OneUseLess ==
  ASSUME TypeOK, UsesOK, NEW s \in Slots, OnlyIn(s), NEW n \in Kinds,
         <<s, n>> \in Uses(KeyOf(s)), <<s, n>> \notin Uses(KeyOf(s))',
         \A m \in Kinds : m # n =>
           (<<s, m>> \in Uses(KeyOf(s))' <=> <<s, m>> \in Uses(KeyOf(s))),
         operations' = [operations EXCEPT ![KeyOf(s)] = @ - 1]
  PROVE  UsesOK'
<1>1. KeyOf(s) \in Keys /\ KeyOf(s)' = KeyOf(s)
  BY KeysKnown DEF OnlyIn, KeyOf
<1>2. Uses(KeyOf(s)) \subseteq Slots \X Kinds /\ Uses(KeyOf(s))' \subseteq Slots \X Kinds
  BY DEF Uses, Kinds
<1>3. \A x \in Slots, m \in Kinds :
        <<x, m>> \in Uses(KeyOf(s))' <=> <<x, m>> \in Uses(KeyOf(s)) \ {<<s, n>>}
  BY UsesElsewhere
<1>4. Uses(KeyOf(s))' = Uses(KeyOf(s)) \ {<<s, n>>}
  BY <1>2, <1>3
<1> QED BY <1>1, <1>4, UseRemoved, UsesElsewhere

LEMMA TwoUsesLess ==
  ASSUME TypeOK, UsesOK, NEW s \in Slots, OnlyIn(s), NEW n \in Kinds, NEW m \in Kinds, n # m,
         <<s, n>> \in Uses(KeyOf(s)), <<s, m>> \in Uses(KeyOf(s)),
         \A o \in Kinds : <<s, o>> \notin Uses(KeyOf(s))',
         \A o \in Kinds : o \notin {n, m} => <<s, o>> \notin Uses(KeyOf(s)),
         operations' = [operations EXCEPT ![KeyOf(s)] = @ - 2]
  PROVE  UsesOK'
<1>1. KeyOf(s) \in Keys /\ KeyOf(s)' = KeyOf(s)
  BY KeysKnown DEF OnlyIn, KeyOf
<1>2. Uses(KeyOf(s)) \subseteq Slots \X Kinds /\ Uses(KeyOf(s))' \subseteq Slots \X Kinds
  BY DEF Uses, Kinds
<1>3. \A x \in Slots, o \in Kinds :
        <<x, o>> \in Uses(KeyOf(s))' <=> <<x, o>> \in (Uses(KeyOf(s)) \ {<<s, n>>}) \ {<<s, m>>}
  BY UsesElsewhere
<1>4. Uses(KeyOf(s))' = (Uses(KeyOf(s)) \ {<<s, n>>}) \ {<<s, m>>}
  BY <1>2, <1>3
<1> QED BY <1>1, <1>4, UsesRemoved, UsesElsewhere

-----------------------------------------------------------------------------
(* What every step of a request shares.                                    *)

SlotsTyped ==
  /\ at \in [Slots -> Stages]
  /\ outcome \in [Slots -> {"none", "ok", "failed", "cancelled"}]
  /\ tries \in [Slots -> 0 .. MaxRetries + 1]
  /\ client \in [Slots -> {"none", "open", "closed"}]
  /\ response \in [Slots -> {"none", "open", "closed"}]
  /\ emitted \in [Slots -> BOOLEAN]
  /\ shown \in [Slots -> 0 .. MaxRetries + 1]

\* Who may cancel a session may do so as long as the calls that cancel, and the
\* rollout if it is stopped, remain.
LEMMA StillEntitled ==
  ASSUME detached' = detached, stopped => stopped',
         \A c \in Calls : Cancelling(c) => Cancelling(c)'
  PROVE  \A k : MayCancel(k) => MayCancel(k)'
BY DEF MayCancel, KeyOf

LEMMA RequestKeeps ==
  ASSUME IInv, NEW s \in Slots, Rest, OnlyIn(s), UNCHANGED <<asked, spent>>, at[s] # "idle",
         StageOK(s)', HeldOK(s)', ClosedOK(s)', SlotsTyped', UsesOK', RegistryOK',
         outcome'[s] = "cancelled" => \/ outcome[s] = "cancelled"
                                      \/ KeyOf(s) \in latch
                                      \/ s = Turn /\ stopped
  PROVE  IInv' /\ ForAReason
<1>1. SlotsOK'
  BY OthersStay DEF IInv
<1>2. CountersOK'
  BY DEF IInv, CountersOK, SlotsTyped, Rest, host
<1>3. TypeOK'
  <2>1. \A x \in Slots : ResponseId(x)' \in Ids
    BY <1>2, Assumed DEF CountersOK, ResponseId, Ids
  <2> QED BY <2>1 DEF IInv, TypeOK, SlotsTyped, RegistryOK, Rest, host, brokers, closers
<1>4. SpentOK'
  BY DEF IInv, SpentOK, Paid, TreeOf, Rest
<1>5. ClosersOK'
  BY DEF IInv, ClosersOK, Rest, host, brokers, closers
<1>6. /\ UNCHANGED <<detached, rollout, stopped, stuck, call, latch>>
      /\ \A k : MayCancel(k) => MayCancel(k)'
  <2>1. UNCHANGED <<detached, rollout, stopped, stuck, call, latch>>
    BY DEF Rest, OnlyIn, host, brokers
  <2> QED BY <2>1, StillEntitled DEF Cancelling
<1>7. RolloutOK'
  <2>1. at[Turn] = "idle" => at'[Turn] = "idle"
    BY Assumed DEF OnlyIn
  <2> QED BY <1>6, <2>1 DEF IInv, RolloutOK, BatchOver, Foreground
<1>8. ForAReason
  <2> SUFFICES ASSUME NEW x \in Slots, outcome[x] # "cancelled", outcome'[x] = "cancelled"
               PROVE  MayCancel(KeyOf(x))'
    BY DEF ForAReason
  <2>1. x = s /\ KeyOf(x)' = KeyOf(x)
    BY <1>6 DEF OnlyIn, KeyOf
  <2>2. MayCancel(KeyOf(x))
    <3>1. CASE KeyOf(s) \in latch
      BY <2>1, <3>1 DEF IInv, RolloutOK
    <3>2. CASE s = Turn /\ stopped
      BY <2>1, <3>2, KeysKnown DEF IInv, MayCancel
    <3> QED BY <2>1, <3>1, <3>2
  <2> QED BY <1>6, <2>1, <2>2 DEF MayCancel, Cancelling, KeyOf
<1> QED BY <1>1, <1>2, <1>3, <1>4, <1>5, <1>7, <1>8 DEF IInv

-----------------------------------------------------------------------------
(* The steps of a request.                                                 *)

LEMMA EnterKeeps ==
  ASSUME IInv, NEW s \in Slots, Enter(s)
  PROVE  IInv' /\ ForAReason
<1>1. /\ TypeOK /\ CountersOK /\ UsesOK /\ RolloutOK /\ RegistryOK
      /\ StageOK(s) /\ HeldOK(s) /\ ClosedOK(s)
      /\ KeyOf(s) \in Keys /\ ClientId(s) \in Ids /\ ResponseId(s) \in Ids
  BY KeysKnown, IdsTyped DEF IInv, SlotsOK, TypeOK, RegistryOK
<1>2. KeyOf(s)' = KeyOf(s)
  BY DEF Enter, Rest, KeyOf
<1>3. Rest /\ UNCHANGED <<asked, spent>> /\ at[s] # "idle"
  BY DEF Enter, Settle, Move, Rest
<1>4. OnlyIn(s)
  <2>1. \A x \in Slots : x # s =>
          /\ at'[x] = at[x] /\ outcome'[x] = outcome[x]
          /\ tries'[x] = tries[x] /\ client'[x] = client[x] /\ response'[x] = response[x]
          /\ emitted'[x] = emitted[x] /\ shown'[x] = shown[x]
    BY <1>1 DEF TypeOK, CountersOK, Enter, Settle, Move
  <2>2. ResponseId(s)[1] = s /\ ClientId(s)[1] = s
    BY DEF ResponseId, ClientId
  <2>3. \A k \in Keys, i \in Ids : i[1] # s /\ i \in resources[k] => i \in resources'[k]
    BY <1>1, <2>2 DEF RegistryOK, Enter, Settle, Move, Register
  <2>4. UNCHANGED <<detached, latch, found>>
    BY DEF Enter, Settle, Move, Rest, closers, Register
  <2> QED BY <1>3, <2>1, <2>3, <2>4 DEF OnlyIn
<1>5. StageOK(s)'
  BY <1>1, Assumed DEF TypeOK, CountersOK, Enter, Settle, Move, StageOK
<1>6. HeldOK(s)'
  BY <1>1, <1>2 DEF TypeOK, CountersOK, Enter, Settle, Move, StageOK, HeldOK, ClientId,
     ResponseId, RegistryOK, Register
<1>7. ClosedOK(s)'
  BY <1>1, <1>2, <1>4 DEF TypeOK, CountersOK, Enter, Settle, Move, OnlyIn, StageOK, ClosedOK,
     ClientId, ResponseId
<1>8. SlotsTyped'
  BY <1>1, Assumed DEF TypeOK, CountersOK, Enter, Settle, Move, StageOK, SlotsTyped, Stages
<1>9. UsesOK'
  <2>1. <<s, "request">> \notin Uses(KeyOf(s)) /\ <<s, "request">> \in Uses(KeyOf(s))'
    BY <1>1, <1>2 DEF Enter, Settle, Move, StageOK, Uses, TypeOK
  <2>2. \A m \in Kinds : m # "request" =>
          (<<s, m>> \in Uses(KeyOf(s))' <=> <<s, m>> \in Uses(KeyOf(s)))
    BY <1>1, <1>2 DEF Enter, Settle, Move, StageOK, Uses, Kinds, TypeOK
  <2>3. operations' = [operations EXCEPT ![KeyOf(s)] = @ + 1] /\ "request" \in Kinds
    BY DEF Enter, Register, Kinds
  <2> QED BY <1>1, <1>4, <2>1, <2>2, <2>3, OneUseMore
<1>10. RegistryOK'
  <2>1. Register(KeyOf(s), {}) /\ {} \in SUBSET Ids
    BY <1>1 DEF Enter
  <2> QED BY <1>1, <1>9, <2>1, RegisterTyped
<1>11. outcome'[s] = "cancelled" => \/ outcome[s] = "cancelled"
                                    \/ KeyOf(s) \in latch
                                    \/ s = Turn /\ stopped
  BY <1>1 DEF TypeOK, Enter, Settle, Move
<1> QED BY <1>3, <1>4, <1>5, <1>6, <1>7, <1>8, <1>9, <1>10, <1>11, RequestKeeps

LEMMA BindKeeps ==
  ASSUME IInv, NEW s \in Slots, Bind(s)
  PROVE  IInv' /\ ForAReason
<1>1. /\ TypeOK /\ CountersOK /\ UsesOK /\ RolloutOK /\ RegistryOK
      /\ StageOK(s) /\ HeldOK(s) /\ ClosedOK(s)
      /\ KeyOf(s) \in Keys /\ ClientId(s) \in Ids /\ ResponseId(s) \in Ids
  BY KeysKnown, IdsTyped DEF IInv, SlotsOK, TypeOK, RegistryOK
<1>2. KeyOf(s)' = KeyOf(s)
  BY DEF Bind, Rest, KeyOf
<1>3. Rest /\ UNCHANGED <<asked, spent>> /\ at[s] # "idle"
  BY DEF Bind, Move, Rest
<1>4. OnlyIn(s)
  <2>1. \A x \in Slots : x # s =>
          /\ at'[x] = at[x] /\ outcome'[x] = outcome[x]
          /\ tries'[x] = tries[x] /\ client'[x] = client[x] /\ response'[x] = response[x]
          /\ emitted'[x] = emitted[x] /\ shown'[x] = shown[x]
    BY <1>1 DEF TypeOK, CountersOK, Bind, Move
  <2>2. ResponseId(s)[1] = s /\ ClientId(s)[1] = s
    BY DEF ResponseId, ClientId
  <2>3. \A k \in Keys, i \in Ids : i[1] # s /\ i \in resources[k] => i \in resources'[k]
    BY <1>1, <2>2 DEF RegistryOK, Bind, Move, Register
  <2>4. UNCHANGED <<detached, latch, found>>
    BY DEF Bind, Move, Rest, closers, Register
  <2> QED BY <1>3, <2>1, <2>3, <2>4 DEF OnlyIn
<1>5. StageOK(s)'
  BY <1>1, Assumed DEF TypeOK, CountersOK, Bind, Move, StageOK
<1>6. HeldOK(s)'
  BY <1>1, <1>2 DEF TypeOK, CountersOK, Bind, Move, StageOK, HeldOK, ClientId, ResponseId,
     RegistryOK, Register
<1>7. ClosedOK(s)'
  BY <1>1, <1>2, <1>4 DEF TypeOK, CountersOK, Bind, Move, OnlyIn, StageOK, ClosedOK, ClientId,
     ResponseId
<1>8. SlotsTyped'
  BY <1>1, Assumed DEF TypeOK, CountersOK, Bind, Move, StageOK, SlotsTyped, Stages
<1>9. UsesOK'
  <2>1. <<s, "client">> \notin Uses(KeyOf(s)) /\ <<s, "client">> \in Uses(KeyOf(s))'
    BY <1>1, <1>2 DEF Bind, Move, StageOK, Uses, TypeOK
  <2>2. \A m \in Kinds : m # "client" =>
          (<<s, m>> \in Uses(KeyOf(s))' <=> <<s, m>> \in Uses(KeyOf(s)))
    BY <1>1, <1>2 DEF Bind, Move, StageOK, Uses, Kinds, TypeOK
  <2>3. operations' = [operations EXCEPT ![KeyOf(s)] = @ + 1] /\ "client" \in Kinds
    BY DEF Bind, Register, Kinds
  <2> QED BY <1>1, <1>4, <2>1, <2>2, <2>3, OneUseMore
<1>10. RegistryOK'
  <2>1. Register(KeyOf(s), {ClientId(s)}) /\ {ClientId(s)} \in SUBSET Ids
    BY <1>1 DEF Bind
  <2> QED BY <1>1, <1>9, <2>1, RegisterTyped
<1>11. outcome'[s] = "cancelled" => \/ outcome[s] = "cancelled"
                                    \/ KeyOf(s) \in latch
                                    \/ s = Turn /\ stopped
  BY <1>1 DEF TypeOK, Bind, Move
<1> QED BY <1>3, <1>4, <1>5, <1>6, <1>7, <1>8, <1>9, <1>10, <1>11, RequestKeeps

LEMMA BeginKeeps ==
  ASSUME IInv, NEW s \in Slots, Begin(s)
  PROVE  IInv' /\ ForAReason
<1>1. /\ TypeOK /\ CountersOK /\ UsesOK /\ RolloutOK /\ RegistryOK
      /\ StageOK(s) /\ HeldOK(s) /\ ClosedOK(s)
      /\ KeyOf(s) \in Keys /\ ClientId(s) \in Ids /\ ResponseId(s) \in Ids
  BY KeysKnown, IdsTyped DEF IInv, SlotsOK, TypeOK, RegistryOK
<1>2. KeyOf(s)' = KeyOf(s)
  BY DEF Begin, Rest, KeyOf
<1>3. Rest /\ UNCHANGED <<asked, spent>> /\ at[s] # "idle"
  BY DEF Begin, Settle, Move, Attempt, registry, Rest
<1>4. OnlyIn(s)
  <2>1. \A x \in Slots : x # s =>
          /\ at'[x] = at[x] /\ outcome'[x] = outcome[x]
          /\ tries'[x] = tries[x] /\ client'[x] = client[x] /\ response'[x] = response[x]
          /\ emitted'[x] = emitted[x] /\ shown'[x] = shown[x]
    BY <1>1 DEF TypeOK, CountersOK, Begin, Settle, Move, Attempt, registry
  <2>2. ResponseId(s)[1] = s /\ ClientId(s)[1] = s
    BY DEF ResponseId, ClientId
  <2>3. \A k \in Keys, i \in Ids : i[1] # s /\ i \in resources[k] => i \in resources'[k]
    BY <1>1, <2>2 DEF RegistryOK, Begin, Settle, Move, Attempt, registry
  <2>4. UNCHANGED <<detached, latch, found>>
    BY DEF Begin, Settle, Move, Attempt, registry, Rest, closers
  <2> QED BY <1>3, <2>1, <2>3, <2>4 DEF OnlyIn
<1>5. StageOK(s)'
  BY <1>1, Assumed DEF TypeOK, CountersOK, Begin, Settle, Move, Attempt, registry, StageOK
<1>6. HeldOK(s)'
  BY <1>1, <1>2 DEF TypeOK, CountersOK, Begin, Settle, Move, Attempt, registry, StageOK, HeldOK,
     ClientId, ResponseId, RegistryOK
<1>7. ClosedOK(s)'
  BY <1>1, <1>2, <1>4 DEF TypeOK, CountersOK, Begin, Settle, Move, Attempt, registry, OnlyIn,
     StageOK, ClosedOK, ClientId, ResponseId
<1>8. SlotsTyped'
  <2>1. tries'[s] \in 0 .. MaxRetries + 1 /\ tries' \in [Slots -> 0 .. MaxRetries + 1]
    BY <1>1, Assumed DEF CountersOK, Begin, Settle, Move, Attempt, StageOK
  <2>2. at' \in [Slots -> Stages] /\ outcome' \in [Slots -> {"none", "ok", "failed", "cancelled"}]
    BY <1>1 DEF TypeOK, Begin, Settle, Move, Attempt, Stages
  <2>3. client' \in [Slots -> {"none", "open", "closed"}] /\ emitted' \in [Slots -> BOOLEAN]
    BY <1>1 DEF TypeOK, Begin, Settle, Move, Attempt
  <2> QED BY <1>1, <2>1, <2>2, <2>3 DEF TypeOK, Begin, SlotsTyped
<1>9. UsesOK'
  <2>1. \A x \in Slots :
          /\ at'[x] \in {"idle", "asked"} <=> at[x] \in {"idle", "asked"}
          /\ client'[x] = "none" <=> client[x] = "none"
          /\ response'[x] = "none" <=> response[x] = "none"
    BY <1>1 DEF TypeOK, Begin, Settle, Move, Attempt, registry, StageOK
  <2>2. UNCHANGED <<detached, operations>>
    BY DEF Begin, Rest, registry
  <2> QED BY <1>1, <2>1, <2>2, UsesStay
<1>10. RegistryOK'
  BY <1>1 DEF RegistryOK, Begin, registry
<1>11. outcome'[s] = "cancelled" => \/ outcome[s] = "cancelled"
                                    \/ KeyOf(s) \in latch
                                    \/ s = Turn /\ stopped
  BY <1>1 DEF TypeOK, Begin, Settle, Move, Attempt, registry
<1> QED BY <1>3, <1>4, <1>5, <1>6, <1>7, <1>8, <1>9, <1>10, <1>11, RequestKeeps

LEMMA AnsweredKeeps ==
  ASSUME IInv, NEW s \in Slots, Answered(s)
  PROVE  IInv' /\ ForAReason
<1>1. /\ TypeOK /\ CountersOK /\ UsesOK /\ RolloutOK /\ RegistryOK
      /\ StageOK(s) /\ HeldOK(s) /\ ClosedOK(s)
      /\ KeyOf(s) \in Keys /\ ClientId(s) \in Ids /\ ResponseId(s) \in Ids
  BY KeysKnown, IdsTyped DEF IInv, SlotsOK, TypeOK, RegistryOK
<1>2. KeyOf(s)' = KeyOf(s)
  BY DEF Answered, Rest, KeyOf
<1>3. Rest /\ UNCHANGED <<asked, spent>> /\ at[s] # "idle"
  BY DEF Answered, Move, Rest
<1>4. OnlyIn(s)
  <2>1. \A x \in Slots : x # s =>
          /\ at'[x] = at[x] /\ outcome'[x] = outcome[x]
          /\ tries'[x] = tries[x] /\ client'[x] = client[x] /\ response'[x] = response[x]
          /\ emitted'[x] = emitted[x] /\ shown'[x] = shown[x]
    BY <1>1 DEF TypeOK, CountersOK, Answered, Move
  <2>2. ResponseId(s)[1] = s /\ ClientId(s)[1] = s
    BY DEF ResponseId, ClientId
  <2>3. \A k \in Keys, i \in Ids : i[1] # s /\ i \in resources[k] => i \in resources'[k]
    BY <1>1, <2>2 DEF RegistryOK, Answered, Move, Register
  <2>4. UNCHANGED <<detached, latch, found>>
    BY DEF Answered, Move, Rest, closers, Register
  <2> QED BY <1>3, <2>1, <2>3, <2>4 DEF OnlyIn
<1>5. StageOK(s)'
  BY <1>1, Assumed DEF TypeOK, CountersOK, Answered, Move, StageOK
<1>6. HeldOK(s)'
  BY <1>1, <1>2 DEF TypeOK, CountersOK, Answered, Move, StageOK, HeldOK, ClientId, ResponseId,
     RegistryOK, Register
<1>7. ClosedOK(s)'
  BY <1>1, <1>2, <1>4 DEF TypeOK, CountersOK, Answered, Move, OnlyIn, StageOK, ClosedOK,
     ClientId, ResponseId
<1>8. SlotsTyped'
  BY <1>1, Assumed DEF TypeOK, CountersOK, Answered, Move, StageOK, SlotsTyped, Stages
<1>9. UsesOK'
  <2>1. <<s, "response">> \notin Uses(KeyOf(s)) /\ <<s, "response">> \in Uses(KeyOf(s))'
    BY <1>1, <1>2 DEF Answered, Move, StageOK, Uses, TypeOK
  <2>2. \A m \in Kinds : m # "response" =>
          (<<s, m>> \in Uses(KeyOf(s))' <=> <<s, m>> \in Uses(KeyOf(s)))
    BY <1>1, <1>2 DEF Answered, Move, StageOK, Uses, Kinds, TypeOK
  <2>3. operations' = [operations EXCEPT ![KeyOf(s)] = @ + 1] /\ "response" \in Kinds
    BY DEF Answered, Register, Kinds
  <2> QED BY <1>1, <1>4, <2>1, <2>2, <2>3, OneUseMore
<1>10. RegistryOK'
  <2>1. Register(KeyOf(s), {ResponseId(s)}) /\ {ResponseId(s)} \in SUBSET Ids
    BY <1>1 DEF Answered
  <2> QED BY <1>1, <1>9, <2>1, RegisterTyped
<1>11. outcome'[s] = "cancelled" => \/ outcome[s] = "cancelled"
                                    \/ KeyOf(s) \in latch
                                    \/ s = Turn /\ stopped
  BY <1>1 DEF TypeOK, Answered, Move
<1> QED BY <1>3, <1>4, <1>5, <1>6, <1>7, <1>8, <1>9, <1>10, <1>11, RequestKeeps

LEMMA CheckedKeeps ==
  ASSUME IInv, NEW s \in Slots, Checked(s)
  PROVE  IInv' /\ ForAReason
<1>1. /\ TypeOK /\ CountersOK /\ UsesOK /\ RolloutOK /\ RegistryOK
      /\ StageOK(s) /\ HeldOK(s) /\ ClosedOK(s)
      /\ KeyOf(s) \in Keys /\ ClientId(s) \in Ids /\ ResponseId(s) \in Ids
  BY KeysKnown, IdsTyped DEF IInv, SlotsOK, TypeOK, RegistryOK
<1>2. KeyOf(s)' = KeyOf(s)
  BY DEF Checked, Rest, KeyOf
<1>3. Rest /\ UNCHANGED <<asked, spent>> /\ at[s] # "idle"
  BY DEF Checked, Settle, Move, Drop, Rest
<1>4. OnlyIn(s)
  <2>1. \A x \in Slots : x # s =>
          /\ at'[x] = at[x] /\ outcome'[x] = outcome[x]
          /\ tries'[x] = tries[x] /\ client'[x] = client[x] /\ response'[x] = response[x]
          /\ emitted'[x] = emitted[x] /\ shown'[x] = shown[x]
    BY <1>1 DEF TypeOK, CountersOK, Checked, Settle, Move, Drop
  <2>2. ResponseId(s)[1] = s /\ ClientId(s)[1] = s
    BY DEF ResponseId, ClientId
  <2>3. \A k \in Keys, i \in Ids : i[1] # s /\ i \in resources[k] => i \in resources'[k]
    BY <1>1, <2>2 DEF RegistryOK, Checked, Settle, Move, Drop, Unregister, registry
  <2>4. UNCHANGED <<detached, latch, found>>
    BY DEF Checked, Settle, Move, Drop, Rest, closers, Unregister, registry
  <2> QED BY <1>3, <2>1, <2>3, <2>4 DEF OnlyIn
<1>5. StageOK(s)'
  BY <1>1, Assumed DEF TypeOK, CountersOK, Checked, Settle, Move, Drop, StageOK
<1>6. HeldOK(s)'
  BY <1>1, <1>2 DEF TypeOK, CountersOK, Checked, Settle, Move, Drop, StageOK, HeldOK, ClientId,
     ResponseId, RegistryOK, Unregister, registry
<1>7. ClosedOK(s)'
  BY <1>1, <1>2, <1>4 DEF TypeOK, CountersOK, Checked, Settle, Move, Drop, OnlyIn, StageOK,
     ClosedOK, ClientId, ResponseId
<1>8. SlotsTyped'
  BY <1>1, Assumed DEF TypeOK, CountersOK, Checked, Settle, Move, Drop, StageOK, SlotsTyped,
     Stages
<1>9. UsesOK'
  <2>1. CASE KeyOf(s) \in latch
    <3>1. <<s, "response">> \in Uses(KeyOf(s)) /\ <<s, "response">> \notin Uses(KeyOf(s))'
      BY <2>1, <1>1, <1>2 DEF Checked, Settle, Move, Drop, StageOK, Uses, TypeOK
    <3>2. \A m \in Kinds : m # "response" =>
            (<<s, m>> \in Uses(KeyOf(s))' <=> <<s, m>> \in Uses(KeyOf(s)))
      BY <2>1, <1>1, <1>2 DEF Checked, Settle, Move, Drop, StageOK, Uses, Kinds, TypeOK
    <3>3. operations' = [operations EXCEPT ![KeyOf(s)] = @ - 1] /\ "response" \in Kinds
      BY <2>1 DEF Checked, Settle, Move, Drop, Unregister, Kinds
    <3> QED BY <2>1, <1>1, <1>4, <3>1, <3>2, <3>3, OneUseLess
  <2>2. CASE KeyOf(s) \notin latch
    <3>1. \A x \in Slots :
            /\ at'[x] \in {"idle", "asked"} <=> at[x] \in {"idle", "asked"}
            /\ client'[x] = "none" <=> client[x] = "none"
            /\ response'[x] = "none" <=> response[x] = "none"
      BY <2>2, <1>1 DEF TypeOK, Checked, Settle, Move, Drop, StageOK
    <3>2. UNCHANGED <<detached, operations>>
      BY <2>2 DEF Checked, Settle, Move, Drop, Rest, registry
    <3> QED BY <2>2, <1>1, <3>1, <3>2, UsesStay
  <2> QED BY <2>1, <2>2
<1>10. RegistryOK'
  <2>1. CASE KeyOf(s) \in latch
    <3>1. Unregister(KeyOf(s), 1, {ResponseId(s)})
      BY <2>1 DEF Checked, Settle, Move, Drop
    <3> QED BY <2>1, <1>1, <1>9, <3>1, UnregisterTyped
  <2>2. CASE KeyOf(s) \notin latch
    BY <2>2, <1>1 DEF Checked, registry, RegistryOK
  <2> QED BY <2>1, <2>2
<1>11. outcome'[s] = "cancelled" => \/ outcome[s] = "cancelled"
                                    \/ KeyOf(s) \in latch
                                    \/ s = Turn /\ stopped
  BY <1>1 DEF TypeOK, Checked, Settle, Move, Drop
<1> QED BY <1>3, <1>4, <1>5, <1>6, <1>7, <1>8, <1>9, <1>10, <1>11, RequestKeeps

LEMMA DeltaKeeps ==
  ASSUME IInv, NEW s \in Slots, Delta(s)
  PROVE  IInv' /\ ForAReason
<1>1. /\ TypeOK /\ CountersOK /\ UsesOK /\ RolloutOK /\ RegistryOK
      /\ StageOK(s) /\ HeldOK(s) /\ ClosedOK(s)
      /\ KeyOf(s) \in Keys /\ ClientId(s) \in Ids /\ ResponseId(s) \in Ids
  BY KeysKnown, IdsTyped DEF IInv, SlotsOK, TypeOK, RegistryOK
<1>2. KeyOf(s)' = KeyOf(s)
  BY DEF Delta, Rest, KeyOf
<1>3. Rest /\ UNCHANGED <<asked, spent>> /\ at[s] # "idle"
  BY DEF Delta, registry, Rest
<1>4. OnlyIn(s)
  <2>1. \A x \in Slots : x # s =>
          /\ at'[x] = at[x] /\ outcome'[x] = outcome[x]
          /\ tries'[x] = tries[x] /\ client'[x] = client[x] /\ response'[x] = response[x]
          /\ emitted'[x] = emitted[x] /\ shown'[x] = shown[x]
    BY <1>1 DEF TypeOK, CountersOK, Delta, registry
  <2>2. ResponseId(s)[1] = s /\ ClientId(s)[1] = s
    BY DEF ResponseId, ClientId
  <2>3. \A k \in Keys, i \in Ids : i[1] # s /\ i \in resources[k] => i \in resources'[k]
    BY <1>1, <2>2 DEF RegistryOK, Delta, registry
  <2>4. UNCHANGED <<detached, latch, found>>
    BY DEF Delta, registry, Rest, closers
  <2> QED BY <1>3, <2>1, <2>3, <2>4 DEF OnlyIn
<1>5. StageOK(s)'
  BY <1>1, Assumed DEF TypeOK, CountersOK, Delta, registry, StageOK
<1>6. HeldOK(s)'
  BY <1>1, <1>2 DEF TypeOK, CountersOK, Delta, registry, StageOK, HeldOK, ClientId, ResponseId,
     RegistryOK
<1>7. ClosedOK(s)'
  BY <1>1, <1>2, <1>4 DEF TypeOK, CountersOK, Delta, registry, OnlyIn, StageOK, ClosedOK,
     ClientId, ResponseId
<1>8. SlotsTyped'
  BY <1>1, Assumed DEF TypeOK, CountersOK, Delta, registry, StageOK, SlotsTyped, Stages
<1>9. UsesOK'
  <2>1. \A x \in Slots :
          /\ at'[x] \in {"idle", "asked"} <=> at[x] \in {"idle", "asked"}
          /\ client'[x] = "none" <=> client[x] = "none"
          /\ response'[x] = "none" <=> response[x] = "none"
    BY <1>1 DEF TypeOK, Delta, registry, StageOK
  <2>2. UNCHANGED <<detached, operations>>
    BY DEF Delta, Rest, registry
  <2> QED BY <1>1, <2>1, <2>2, UsesStay
<1>10. RegistryOK'
  BY <1>1 DEF RegistryOK, Delta, registry
<1>11. outcome'[s] = "cancelled" => \/ outcome[s] = "cancelled"
                                    \/ KeyOf(s) \in latch
                                    \/ s = Turn /\ stopped
  BY <1>1 DEF TypeOK, Delta, registry
<1> QED BY <1>3, <1>4, <1>5, <1>6, <1>7, <1>8, <1>9, <1>10, <1>11, RequestKeeps

LEMMA ReadKeeps ==
  ASSUME IInv, NEW s \in Slots, Read(s)
  PROVE  IInv' /\ ForAReason
<1>1. /\ TypeOK /\ CountersOK /\ UsesOK /\ RolloutOK /\ RegistryOK
      /\ StageOK(s) /\ HeldOK(s) /\ ClosedOK(s)
      /\ KeyOf(s) \in Keys /\ ClientId(s) \in Ids /\ ResponseId(s) \in Ids
  BY KeysKnown, IdsTyped DEF IInv, SlotsOK, TypeOK, RegistryOK
<1>2. KeyOf(s)' = KeyOf(s)
  BY DEF Read, Rest, KeyOf
<1>3. Rest /\ UNCHANGED <<asked, spent>> /\ at[s] # "idle"
  BY DEF Read, Settle, Move, Drop, Rest
<1>4. OnlyIn(s)
  <2>1. \A x \in Slots : x # s =>
          /\ at'[x] = at[x] /\ outcome'[x] = outcome[x]
          /\ tries'[x] = tries[x] /\ client'[x] = client[x] /\ response'[x] = response[x]
          /\ emitted'[x] = emitted[x] /\ shown'[x] = shown[x]
    BY <1>1 DEF TypeOK, CountersOK, Read, Settle, Move, Drop
  <2>2. ResponseId(s)[1] = s /\ ClientId(s)[1] = s
    BY DEF ResponseId, ClientId
  <2>3. \A k \in Keys, i \in Ids : i[1] # s /\ i \in resources[k] => i \in resources'[k]
    BY <1>1, <2>2 DEF RegistryOK, Read, Settle, Move, Drop, Unregister
  <2>4. UNCHANGED <<detached, latch, found>>
    BY DEF Read, Settle, Move, Drop, Rest, closers, Unregister
  <2> QED BY <1>3, <2>1, <2>3, <2>4 DEF OnlyIn
<1>5. StageOK(s)'
  BY <1>1, Assumed DEF TypeOK, CountersOK, Read, Settle, Move, Drop, StageOK
<1>6. HeldOK(s)'
  BY <1>1, <1>2 DEF TypeOK, CountersOK, Read, Settle, Move, Drop, StageOK, HeldOK, ClientId,
     ResponseId, RegistryOK, Unregister
<1>7. ClosedOK(s)'
  BY <1>1, <1>2, <1>4 DEF TypeOK, CountersOK, Read, Settle, Move, Drop, OnlyIn, StageOK,
     ClosedOK, ClientId, ResponseId
<1>8. SlotsTyped'
  BY <1>1, Assumed DEF TypeOK, CountersOK, Read, Settle, Move, Drop, StageOK, SlotsTyped, Stages
<1>9. UsesOK'
  <2>1. <<s, "response">> \in Uses(KeyOf(s)) /\ <<s, "response">> \notin Uses(KeyOf(s))'
    BY <1>1, <1>2 DEF Read, Settle, Move, Drop, StageOK, Uses, TypeOK
  <2>2. \A m \in Kinds : m # "response" =>
          (<<s, m>> \in Uses(KeyOf(s))' <=> <<s, m>> \in Uses(KeyOf(s)))
    BY <1>1, <1>2 DEF Read, Settle, Move, Drop, StageOK, Uses, Kinds, TypeOK
  <2>3. operations' = [operations EXCEPT ![KeyOf(s)] = @ - 1] /\ "response" \in Kinds
    BY DEF Read, Settle, Move, Drop, Unregister, Kinds
  <2> QED BY <1>1, <1>4, <2>1, <2>2, <2>3, OneUseLess
<1>10. RegistryOK'
  <2>1. Unregister(KeyOf(s), 1, {ResponseId(s)})
    BY DEF Read, Settle, Move, Drop
  <2> QED BY <1>1, <1>9, <2>1, UnregisterTyped
<1>11. outcome'[s] = "cancelled" => \/ outcome[s] = "cancelled"
                                    \/ KeyOf(s) \in latch
                                    \/ s = Turn /\ stopped
  BY <1>1 DEF TypeOK, Read, Settle, Move, Drop
<1> QED BY <1>3, <1>4, <1>5, <1>6, <1>7, <1>8, <1>9, <1>10, <1>11, RequestKeeps

LEMMA AbandonKeeps ==
  ASSUME IInv, NEW s \in Slots, Abandon(s)
  PROVE  IInv' /\ ForAReason
<1>1. /\ TypeOK /\ CountersOK /\ UsesOK /\ RolloutOK /\ RegistryOK
      /\ StageOK(s) /\ HeldOK(s) /\ ClosedOK(s)
      /\ KeyOf(s) \in Keys /\ ClientId(s) \in Ids /\ ResponseId(s) \in Ids
  BY KeysKnown, IdsTyped DEF IInv, SlotsOK, TypeOK, RegistryOK
<1>2. KeyOf(s)' = KeyOf(s)
  BY DEF Abandon, Rest, KeyOf
<1>3. Rest /\ UNCHANGED <<asked, spent>> /\ at[s] # "idle"
  BY DEF Abandon, Settle, Move, Drop, Rest
<1>4. OnlyIn(s)
  <2>1. \A x \in Slots : x # s =>
          /\ at'[x] = at[x] /\ outcome'[x] = outcome[x]
          /\ tries'[x] = tries[x] /\ client'[x] = client[x] /\ response'[x] = response[x]
          /\ emitted'[x] = emitted[x] /\ shown'[x] = shown[x]
    BY <1>1 DEF TypeOK, CountersOK, Abandon, Settle, Move, Drop
  <2>2. ResponseId(s)[1] = s /\ ClientId(s)[1] = s
    BY DEF ResponseId, ClientId
  <2>3. \A k \in Keys, i \in Ids : i[1] # s /\ i \in resources[k] => i \in resources'[k]
    BY <1>1, <2>2 DEF RegistryOK, Abandon, Settle, Move, Drop, Unregister
  <2>4. UNCHANGED <<detached, latch, found>>
    BY DEF Abandon, Settle, Move, Drop, Rest, closers, Unregister
  <2> QED BY <1>3, <2>1, <2>3, <2>4 DEF OnlyIn
<1>5. StageOK(s)'
  BY <1>1, Assumed DEF TypeOK, CountersOK, Abandon, Settle, Move, Drop, StageOK
<1>6. HeldOK(s)'
  BY <1>1, <1>2 DEF TypeOK, CountersOK, Abandon, Settle, Move, Drop, StageOK, HeldOK, ClientId,
     ResponseId, RegistryOK, Unregister
<1>7. ClosedOK(s)'
  BY <1>1, <1>2, <1>4 DEF TypeOK, CountersOK, Abandon, Settle, Move, Drop, OnlyIn, StageOK,
     ClosedOK, ClientId, ResponseId
<1>8. SlotsTyped'
  BY <1>1, Assumed DEF TypeOK, CountersOK, Abandon, Settle, Move, Drop, StageOK, SlotsTyped,
     Stages
<1>9. UsesOK'
  <2>1. <<s, "response">> \in Uses(KeyOf(s)) /\ <<s, "response">> \notin Uses(KeyOf(s))'
    BY <1>1, <1>2 DEF Abandon, Settle, Move, Drop, StageOK, Uses, TypeOK
  <2>2. \A m \in Kinds : m # "response" =>
          (<<s, m>> \in Uses(KeyOf(s))' <=> <<s, m>> \in Uses(KeyOf(s)))
    BY <1>1, <1>2 DEF Abandon, Settle, Move, Drop, StageOK, Uses, Kinds, TypeOK
  <2>3. operations' = [operations EXCEPT ![KeyOf(s)] = @ - 1] /\ "response" \in Kinds
    BY DEF Abandon, Settle, Move, Drop, Unregister, Kinds
  <2> QED BY <1>1, <1>4, <2>1, <2>2, <2>3, OneUseLess
<1>10. RegistryOK'
  <2>1. Unregister(KeyOf(s), 1, {ResponseId(s)})
    BY DEF Abandon, Settle, Move, Drop
  <2> QED BY <1>1, <1>9, <2>1, UnregisterTyped
<1>11. outcome'[s] = "cancelled" => \/ outcome[s] = "cancelled"
                                    \/ KeyOf(s) \in latch
                                    \/ s = Turn /\ stopped
  BY <1>1 DEF TypeOK, Abandon, Settle, Move, Drop
<1> QED BY <1>3, <1>4, <1>5, <1>6, <1>7, <1>8, <1>9, <1>10, <1>11, RequestKeeps

LEMMA FailKeeps ==
  ASSUME IInv, NEW s \in Slots, Fail(s)
  PROVE  IInv' /\ ForAReason
<1>1. /\ TypeOK /\ CountersOK /\ UsesOK /\ RolloutOK /\ RegistryOK
      /\ StageOK(s) /\ HeldOK(s) /\ ClosedOK(s)
      /\ KeyOf(s) \in Keys /\ ClientId(s) \in Ids /\ ResponseId(s) \in Ids
  BY KeysKnown, IdsTyped DEF IInv, SlotsOK, TypeOK, RegistryOK
<1>2. KeyOf(s)' = KeyOf(s)
  BY DEF Fail, Rest, KeyOf
<1>3. Rest /\ UNCHANGED <<asked, spent>> /\ at[s] # "idle"
  BY DEF Fail, Handled, MayRetry, Settle, Move, Drop, Rest
<1>4. OnlyIn(s)
  <2>1. \A x \in Slots : x # s =>
          /\ at'[x] = at[x] /\ outcome'[x] = outcome[x]
          /\ tries'[x] = tries[x] /\ client'[x] = client[x] /\ response'[x] = response[x]
          /\ emitted'[x] = emitted[x] /\ shown'[x] = shown[x]
    BY <1>1 DEF TypeOK, CountersOK, Fail, Handled, MayRetry, Settle, Move, Drop
  <2>2. ResponseId(s)[1] = s /\ ClientId(s)[1] = s
    BY DEF ResponseId, ClientId
  <2>3. \A k \in Keys, i \in Ids : i[1] # s /\ i \in resources[k] => i \in resources'[k]
    BY <1>1, <2>2 DEF RegistryOK, Fail, Handled, MayRetry, Settle, Move, Drop, Unregister,
       registry
  <2>4. UNCHANGED <<detached, latch, found>>
    BY DEF Fail, Handled, MayRetry, Settle, Move, Drop, Rest, closers, Unregister, registry
  <2> QED BY <1>3, <2>1, <2>3, <2>4 DEF OnlyIn
<1>5. StageOK(s)'
  BY <1>1, Assumed DEF TypeOK, CountersOK, Fail, Handled, MayRetry, Settle, Move, Drop, StageOK
<1>6. HeldOK(s)'
  BY <1>1, <1>2 DEF TypeOK, CountersOK, Fail, Handled, MayRetry, Settle, Move, Drop, StageOK,
     HeldOK, ClientId, ResponseId, RegistryOK, Unregister, registry
<1>7. ClosedOK(s)'
  BY <1>1, <1>2, <1>4 DEF TypeOK, CountersOK, Fail, Handled, MayRetry, Settle, Move, Drop,
     OnlyIn, StageOK, ClosedOK, ClientId, ResponseId
<1>8. SlotsTyped'
  BY <1>1, Assumed DEF TypeOK, CountersOK, Fail, Handled, MayRetry, Settle, Move, Drop, StageOK,
     SlotsTyped, Stages
<1>9. UsesOK'
  <2>1. CASE at[s] = "reading"
    <3>1. <<s, "response">> \in Uses(KeyOf(s)) /\ <<s, "response">> \notin Uses(KeyOf(s))'
      BY <2>1, <1>1, <1>2 DEF Fail, Handled, MayRetry, Settle, Move, Drop, StageOK, Uses, TypeOK
    <3>2. \A m \in Kinds : m # "response" =>
            (<<s, m>> \in Uses(KeyOf(s))' <=> <<s, m>> \in Uses(KeyOf(s)))
      BY <2>1, <1>1, <1>2 DEF Fail, Handled, MayRetry, Settle, Move, Drop, StageOK, Uses, Kinds,
         TypeOK
    <3>3. operations' = [operations EXCEPT ![KeyOf(s)] = @ - 1] /\ "response" \in Kinds
      BY <2>1 DEF Fail, Handled, MayRetry, Settle, Move, Drop, Unregister, Kinds
    <3> QED BY <2>1, <1>1, <1>4, <3>1, <3>2, <3>3, OneUseLess
  <2>2. CASE at[s] = "sending"
    <3>1. \A x \in Slots :
            /\ at'[x] \in {"idle", "asked"} <=> at[x] \in {"idle", "asked"}
            /\ client'[x] = "none" <=> client[x] = "none"
            /\ response'[x] = "none" <=> response[x] = "none"
      BY <2>2, <1>1 DEF TypeOK, Fail, Handled, MayRetry, Settle, Move, Drop, StageOK
    <3>2. UNCHANGED <<detached, operations>>
      BY <2>2 DEF Fail, Handled, MayRetry, Settle, Move, Drop, Rest, registry
    <3> QED BY <2>2, <1>1, <3>1, <3>2, UsesStay
  <2> QED BY <2>1, <2>2 DEF Fail
<1>10. RegistryOK'
  <2>1. CASE at[s] = "reading"
    <3>1. Unregister(KeyOf(s), 1, {ResponseId(s)})
      BY <2>1 DEF Fail, Handled, MayRetry, Settle, Move, Drop
    <3> QED BY <2>1, <1>1, <1>9, <3>1, UnregisterTyped
  <2>2. CASE at[s] = "sending"
    BY <2>2, <1>1 DEF Fail, Handled, MayRetry, Settle, Move, Drop, registry, RegistryOK
  <2> QED BY <2>1, <2>2 DEF Fail
<1>11. outcome'[s] = "cancelled" => \/ outcome[s] = "cancelled"
                                    \/ KeyOf(s) \in latch
                                    \/ s = Turn /\ stopped
  BY <1>1 DEF TypeOK, Fail, Handled, MayRetry, Settle, Move, Drop
<1> QED BY <1>3, <1>4, <1>5, <1>6, <1>7, <1>8, <1>9, <1>10, <1>11, RequestKeeps

LEMMA RetryKeeps ==
  ASSUME IInv, NEW s \in Slots, Retry(s)
  PROVE  IInv' /\ ForAReason
<1>1. /\ TypeOK /\ CountersOK /\ UsesOK /\ RolloutOK /\ RegistryOK
      /\ StageOK(s) /\ HeldOK(s) /\ ClosedOK(s)
      /\ KeyOf(s) \in Keys /\ ClientId(s) \in Ids /\ ResponseId(s) \in Ids
  BY KeysKnown, IdsTyped DEF IInv, SlotsOK, TypeOK, RegistryOK
<1>2. KeyOf(s)' = KeyOf(s)
  BY DEF Retry, Rest, KeyOf
<1>3. Rest /\ UNCHANGED <<asked, spent>> /\ at[s] # "idle"
  BY DEF Retry, Attempt, Settle, Move, registry, Rest
<1>4. OnlyIn(s)
  <2>1. \A x \in Slots : x # s =>
          /\ at'[x] = at[x] /\ outcome'[x] = outcome[x]
          /\ tries'[x] = tries[x] /\ client'[x] = client[x] /\ response'[x] = response[x]
          /\ emitted'[x] = emitted[x] /\ shown'[x] = shown[x]
    BY <1>1 DEF TypeOK, CountersOK, Retry, Attempt, Settle, Move, registry
  <2>2. ResponseId(s)[1] = s /\ ClientId(s)[1] = s
    BY DEF ResponseId, ClientId
  <2>3. \A k \in Keys, i \in Ids : i[1] # s /\ i \in resources[k] => i \in resources'[k]
    BY <1>1, <2>2 DEF RegistryOK, Retry, Attempt, Settle, Move, registry
  <2>4. UNCHANGED <<detached, latch, found>>
    BY DEF Retry, Attempt, Settle, Move, registry, Rest, closers
  <2> QED BY <1>3, <2>1, <2>3, <2>4 DEF OnlyIn
<1>5. StageOK(s)'
  BY <1>1, Assumed DEF TypeOK, CountersOK, Retry, Attempt, Settle, Move, registry, StageOK
<1>6. HeldOK(s)'
  BY <1>1, <1>2 DEF TypeOK, CountersOK, Retry, Attempt, Settle, Move, registry, StageOK, HeldOK,
     ClientId, ResponseId, RegistryOK
<1>7. ClosedOK(s)'
  BY <1>1, <1>2, <1>4 DEF TypeOK, CountersOK, Retry, Attempt, Settle, Move, registry, OnlyIn,
     StageOK, ClosedOK, ClientId, ResponseId
<1>8. SlotsTyped'
  <2>1. tries'[s] \in 0 .. MaxRetries + 1 /\ tries' \in [Slots -> 0 .. MaxRetries + 1]
    BY <1>1, Assumed DEF CountersOK, Retry, Settle, Move, Attempt, StageOK
  <2>2. at' \in [Slots -> Stages] /\ outcome' \in [Slots -> {"none", "ok", "failed", "cancelled"}]
    BY <1>1 DEF TypeOK, Retry, Settle, Move, Attempt, Stages
  <2>3. client' \in [Slots -> {"none", "open", "closed"}] /\ emitted' \in [Slots -> BOOLEAN]
    BY <1>1 DEF TypeOK, Retry, Settle, Move, Attempt
  <2> QED BY <1>1, <2>1, <2>2, <2>3 DEF TypeOK, Retry, SlotsTyped
<1>9. UsesOK'
  <2>1. \A x \in Slots :
          /\ at'[x] \in {"idle", "asked"} <=> at[x] \in {"idle", "asked"}
          /\ client'[x] = "none" <=> client[x] = "none"
          /\ response'[x] = "none" <=> response[x] = "none"
    BY <1>1 DEF TypeOK, Retry, Attempt, Settle, Move, registry, StageOK
  <2>2. UNCHANGED <<detached, operations>>
    BY DEF Retry, Rest, registry
  <2> QED BY <1>1, <2>1, <2>2, UsesStay
<1>10. RegistryOK'
  BY <1>1 DEF RegistryOK, Retry, registry
<1>11. outcome'[s] = "cancelled" => \/ outcome[s] = "cancelled"
                                    \/ KeyOf(s) \in latch
                                    \/ s = Turn /\ stopped
  BY <1>1 DEF TypeOK, Retry, Attempt, Settle, Move, registry
<1> QED BY <1>3, <1>4, <1>5, <1>6, <1>7, <1>8, <1>9, <1>10, <1>11, RequestKeeps

LEMMA LeaveKeeps ==
  ASSUME IInv, NEW s \in Slots, Leave(s)
  PROVE  IInv' /\ ForAReason
<1>1. /\ TypeOK /\ CountersOK /\ UsesOK /\ RolloutOK /\ RegistryOK
      /\ StageOK(s) /\ HeldOK(s) /\ ClosedOK(s)
      /\ KeyOf(s) \in Keys /\ ClientId(s) \in Ids /\ ResponseId(s) \in Ids
  BY KeysKnown, IdsTyped DEF IInv, SlotsOK, TypeOK, RegistryOK
<1>2. KeyOf(s)' = KeyOf(s)
  BY DEF Leave, Rest, KeyOf
<1>3. Rest /\ UNCHANGED <<asked, spent>> /\ at[s] # "idle"
  BY DEF Leave, Move, Rest
<1>4. OnlyIn(s)
  <2>1. \A x \in Slots : x # s =>
          /\ at'[x] = at[x] /\ outcome'[x] = outcome[x]
          /\ tries'[x] = tries[x] /\ client'[x] = client[x] /\ response'[x] = response[x]
          /\ emitted'[x] = emitted[x] /\ shown'[x] = shown[x]
    BY <1>1 DEF TypeOK, CountersOK, Leave, Move
  <2>2. ResponseId(s)[1] = s /\ ClientId(s)[1] = s
    BY DEF ResponseId, ClientId
  <2>3. \A k \in Keys, i \in Ids : i[1] # s /\ i \in resources[k] => i \in resources'[k]
    BY <1>1, <2>2 DEF RegistryOK, Leave, Move, Unregister
  <2>4. UNCHANGED <<detached, latch, found>>
    BY DEF Leave, Move, Rest, closers, Unregister
  <2> QED BY <1>3, <2>1, <2>3, <2>4 DEF OnlyIn
<1>5. StageOK(s)'
  BY <1>1, Assumed DEF TypeOK, CountersOK, Leave, Move, StageOK
<1>6. HeldOK(s)'
  BY <1>1, <1>2 DEF TypeOK, CountersOK, Leave, Move, StageOK, HeldOK, ClientId, ResponseId,
     RegistryOK, Unregister
<1>7. ClosedOK(s)'
  BY <1>1, <1>2, <1>4 DEF TypeOK, CountersOK, Leave, Move, OnlyIn, StageOK, ClosedOK, ClientId,
     ResponseId
<1>8. SlotsTyped'
  BY <1>1, Assumed DEF TypeOK, CountersOK, Leave, Move, StageOK, SlotsTyped, Stages
<1>9. UsesOK'
  <2>1. CASE client[s] = "none"
    <3>1. <<s, "request">> \in Uses(KeyOf(s)) /\ <<s, "request">> \notin Uses(KeyOf(s))'
      BY <1>1, <1>2 DEF Leave, Move, StageOK, Uses, TypeOK
    <3>2. \A m \in Kinds : m # "request" =>
            (<<s, m>> \in Uses(KeyOf(s))' <=> <<s, m>> \in Uses(KeyOf(s)))
      BY <2>1, <1>1, <1>2 DEF Leave, StageOK, Uses, Kinds, TypeOK
    <3>3. operations' = [operations EXCEPT ![KeyOf(s)] = @ - 1] /\ "request" \in Kinds
      BY <2>1 DEF Leave, Unregister, Kinds
    <3> QED BY <1>1, <1>4, <3>1, <3>2, <3>3, OneUseLess
  <2>2. CASE client[s] # "none"
    <3>1. <<s, "request">> \in Uses(KeyOf(s)) /\ <<s, "client">> \in Uses(KeyOf(s))
      BY <2>2, <1>1 DEF Leave, StageOK, Uses
    <3>2. /\ \A o \in Kinds : <<s, o>> \notin Uses(KeyOf(s))'
          /\ <<s, "response">> \notin Uses(KeyOf(s))
      BY <1>1, <1>2 DEF Leave, Move, StageOK, Uses, Kinds, TypeOK
    <3>3. operations' = [operations EXCEPT ![KeyOf(s)] = @ - 2]
      BY <2>2 DEF Leave, Unregister
    <3>4. \A o \in Kinds : o \notin {"request", "client"} => o = "response"
      BY DEF Kinds
    <3>5. "request" \in Kinds /\ "client" \in Kinds
      BY DEF Kinds
    <3> QED BY <1>1, <1>4, <3>1, <3>2, <3>3, <3>4, <3>5, TwoUsesLess
  <2> QED BY <2>1, <2>2
<1>10. RegistryOK'
  <2>1. Unregister(KeyOf(s), IF client[s] = "none" THEN 1 ELSE 2, {ClientId(s)})
    BY DEF Leave
  <2> QED BY <1>1, <1>9, <2>1, UnregisterTyped
<1>11. outcome'[s] = "cancelled" => \/ outcome[s] = "cancelled"
                                    \/ KeyOf(s) \in latch
                                    \/ s = Turn /\ stopped
  BY <1>1 DEF TypeOK, Leave, Move
<1> QED BY <1>3, <1>4, <1>5, <1>6, <1>7, <1>8, <1>9, <1>10, <1>11, RequestKeeps

-----------------------------------------------------------------------------
(* What a budget pays for.                                                 *)

LEMMA PaidFinite ==
  ASSUME NEW P \in SUBSET (Calls \X (1 .. MaxRequests))
  PROVE  IsFiniteSet(P) /\ Cardinality(P) \in 0 .. Cardinality(Calls) * MaxRequests
<1>1. IsFiniteSet(Calls) /\ MaxRequests \in Nat
  BY Assumed
<1>2. IsFiniteSet(1 .. MaxRequests) /\ Cardinality(1 .. MaxRequests) = MaxRequests
  <2>1. IsFiniteSet(1 .. MaxRequests)
        /\ Cardinality(1 .. MaxRequests) = IF 1 > MaxRequests THEN 0 ELSE MaxRequests - 1 + 1
    BY <1>1, FS_Interval
  <2> QED BY <1>1, <2>1
<1>3. IsFiniteSet(Calls \X (1 .. MaxRequests))
      /\ Cardinality(Calls \X (1 .. MaxRequests)) = Cardinality(Calls) * Cardinality(1 .. MaxRequests)
  BY <1>1, <1>2, FS_Product
<1>4. IsFiniteSet(P) /\ Cardinality(P) <= Cardinality(Calls \X (1 .. MaxRequests))
  BY <1>3, FS_Subset
<1>5. Cardinality(P) \in Nat /\ Cardinality(Calls) \in Nat
  BY <1>1, <1>4, FS_CardinalityType
<1>6. Cardinality(P) <= Cardinality(Calls) * MaxRequests
  BY <1>2, <1>3, <1>4
<1>7. Cardinality(Calls) * MaxRequests \in Nat
  BY <1>1, <1>5
<1> QED BY <1>4, <1>5, <1>6, <1>7

LEMMA SpentTyped ==
  ASSUME SpentOK', spent' = [c \in Calls |-> spent'[c]]
  PROVE  spent' \in [Calls -> 0 .. Cardinality(Calls) * MaxRequests]
<1> SUFFICES ASSUME NEW c \in Calls
             PROVE  spent'[c] \in 0 .. Cardinality(Calls) * MaxRequests
  OBVIOUS
<1>1. Paid(c)' \in SUBSET (Calls \X (1 .. MaxRequests))
  BY DEF Paid
<1> QED BY <1>1, PaidFinite DEF SpentOK

-----------------------------------------------------------------------------
(* Asking for a completion and for a turn.                                 *)

LEMMA AskKeeps ==
  ASSUME IInv, NEW c \in Calls, Ask(c)
  PROVE  IInv' /\ ForAReason
<1>1. /\ TypeOK /\ CountersOK /\ SlotsOK /\ UsesOK /\ SpentOK /\ RolloutOK /\ StageOK(c)
      /\ c \in Slots /\ c # Turn /\ TreeOf(c) \in Calls
  BY KeysKnown, Assumed DEF IInv, SlotsOK
<1>2. /\ at[c] = "idle" /\ asked[c] < MaxRequests
      /\ at'[c] \in {"idle", "asked"}
  BY <1>1 DEF Ask, Free, Move, TypeOK
<1>3. /\ UNCHANGED <<outcome, tries, client, response, emitted, shown, registry>>
      /\ Rest
  BY DEF Ask
<1>4. asked' = [asked EXCEPT ![c] = @ + 1] /\ spent' = [spent EXCEPT ![TreeOf(c)] = @ + 1]
  BY DEF Ask, Charge
<1>5. /\ at' \in [Slots -> Stages]
      /\ \A x \in Slots : x # c => at'[x] = at[x] /\ asked'[x] = asked[x]
  BY <1>1, <1>4 DEF Ask, Move, TypeOK, CountersOK, Stages
<1>6. OnlyIn(c)
  BY <1>3, <1>5 DEF OnlyIn, Rest, registry, closers
<1>7. StageOK(c)' /\ HeldOK(c)' /\ ClosedOK(c)'
  BY <1>1, <1>2, <1>3 DEF StageOK, HeldOK, ClosedOK
<1>8. SlotsOK'
  BY <1>1, <1>6, <1>7, OthersStay
<1>9. CountersOK'
  BY <1>1, <1>2, <1>3, <1>4, Assumed DEF CountersOK, Rest, host, TypeOK
<1>10. SpentOK'
  <2>1. PICK t \in Calls : t = TreeOf(c)
    BY <1>1
  <2>2. PICK r : r = <<c, asked[c] + 1>>
    OBVIOUS
  <2>3. asked[c] \in Nat /\ r \in Calls \X (1 .. MaxRequests)
    BY <2>2, <1>1, <1>2, Assumed DEF CountersOK
  <2>4. /\ asked'[c] = asked[c] + 1
        /\ \A x \in Calls : x # c => asked'[x] = asked[x]
        /\ \A x \in Calls : TreeOf(x)' = TreeOf(x) /\ asked[x] \in Nat
    BY <1>1, <1>3, <1>4, Assumed DEF CountersOK, Rest, TreeOf
  <2>5. \A x \in Calls : \A i \in 1 .. MaxRequests :
          i <= asked'[x] <=> i <= asked[x] \/ <<x, i>> = r
    BY <2>2, <2>4
  <2>6. r \notin Paid(t)
    BY <2>2, <2>3 DEF Paid
  <2>7. Paid(t)' = Paid(t) \cup {r}
    <3>1. \A x \in Calls : \A i \in 1 .. MaxRequests :
            <<x, i>> \in Paid(t)' <=> <<x, i>> \in Paid(t) \/ <<x, i>> = r
      <4> SUFFICES ASSUME NEW x \in Calls, NEW i \in 1 .. MaxRequests
                   PROVE  <<x, i>> \in Paid(t)' <=> <<x, i>> \in Paid(t) \/ <<x, i>> = r
        OBVIOUS
      <4>1. <<x, i>> \in Paid(t) <=> TreeOf(x) = t /\ i <= asked[x]
        BY DEF Paid
      <4>2. <<x, i>> \in Paid(t)' <=> TreeOf(x) = t /\ i <= asked'[x]
        BY <2>4 DEF Paid
      <4>3. <<x, i>> = r => TreeOf(x) = t
        BY <2>1, <2>2
      <4> QED BY <2>5, <4>1, <4>2, <4>3
    <3>2. Paid(t) \subseteq Calls \X (1 .. MaxRequests) /\ Paid(t)' \subseteq Calls \X (1 .. MaxRequests)
      BY DEF Paid
    <3> QED BY <2>3, <3>1, <3>2
  <2>8. \A x \in Calls : x # t => Paid(x)' = Paid(x)
    BY <2>1, <2>4, <2>5 DEF Paid
  <2>9. IsFiniteSet(Paid(t))
    <3>1. Paid(t) \in SUBSET (Calls \X (1 .. MaxRequests))
      BY DEF Paid
    <3> QED BY <3>1, PaidFinite
  <2>10. Cardinality(Paid(t) \cup {r}) = Cardinality(Paid(t)) + 1
    BY <2>6, <2>9, FS_AddElement
  <2>11. t \in Calls /\ spent' = [spent EXCEPT ![t] = @ + 1]
    BY <2>1, <1>4
  <2>12. spent'[t] = spent[t] + 1 /\ \A x \in Calls : x # t => spent'[x] = spent[x]
    BY <1>1, <2>11 DEF TypeOK
  <2> QED BY <1>1, <2>7, <2>8, <2>10, <2>11, <2>12 DEF SpentOK
<1>11. TypeOK'
  <2>1. \A x \in Slots : ResponseId(x)' \in Ids
    BY <1>9, Assumed DEF CountersOK, ResponseId, Ids
  <2>2. spent' \in [Calls -> 0 .. Cardinality(Calls) * MaxRequests]
    BY <1>1, <1>4, <1>10, SpentTyped DEF TypeOK
  <2> QED BY <1>1, <1>3, <1>5, <2>1, <2>2 DEF TypeOK, Rest, registry, host, brokers, closers
<1>12. UsesOK'
  <2>1. \A x \in Slots : at'[x] \in {"idle", "asked"} <=> at[x] \in {"idle", "asked"}
    BY <1>2, <1>5
  <2> QED BY <1>1, <1>3, <2>1, UsesStay DEF Rest, registry
<1>13. ClosersOK'
  BY <1>3 DEF IInv, ClosersOK, Rest, host, brokers, closers
<1>14. RolloutOK'
  <2>1. at'[Turn] = at[Turn]
    BY <1>1, <1>5, Assumed
  <2>2. \A k : MayCancel(k) => MayCancel(k)'
    BY <1>3, StillEntitled DEF Rest, host, brokers, Cancelling
  <2> QED BY <1>1, <1>3, <2>1, <2>2 DEF RolloutOK, Rest, host, brokers, registry, BatchOver,
             Foreground
<1>15. ForAReason
  BY <1>3 DEF ForAReason
<1> QED BY <1>8, <1>9, <1>10, <1>11, <1>12, <1>13, <1>14, <1>15 DEF IInv

LEMMA StartTurnKeeps ==
  ASSUME IInv, StartTurn
  PROVE  IInv' /\ ForAReason
<1>1. /\ TypeOK /\ CountersOK /\ SlotsOK /\ UsesOK /\ SpentOK /\ RolloutOK /\ ClosersOK
      /\ Turn \in Slots /\ StageOK(Turn)
  BY Assumed DEF IInv, SlotsOK
<1>2. /\ at[Turn] = "idle" /\ outcome[Turn] = "none"
      /\ at' = [at EXCEPT ![Turn] = "asked"] /\ asked' = [asked EXCEPT ![Turn] = @ + 1]
      /\ rollout' = "turn"
  BY <1>1 DEF StartTurn, Move, RolloutOK, StageOK
<1>3. UNCHANGED <<detached, stopped, outcome, tries, client, response, emitted, shown,
                  spent, registry, call, gone, stuck, closers>>
  BY DEF StartTurn, brokers
<1>4. /\ rounds' \in 1 .. MaxRollouts
      /\ rollout = "tools" => rounds' = rounds
      /\ rollout # "tools" => rollout = "ended" /\ rounds' = rounds + 1
  BY <1>1, Assumed DEF StartTurn, TypeOK
<1>5. /\ at' \in [Slots -> Stages] /\ at'[Turn] = "asked"
      /\ \A x \in Slots : x # Turn => at'[x] = at[x] /\ asked'[x] = asked[x]
  BY <1>1, <1>2 DEF TypeOK, CountersOK, Stages
<1>6. OnlyIn(Turn)
  BY <1>3, <1>5 DEF OnlyIn, registry, closers
<1>7. StageOK(Turn)' /\ HeldOK(Turn)' /\ ClosedOK(Turn)'
  BY <1>1, <1>2, <1>3, <1>5 DEF StageOK, HeldOK, ClosedOK
<1>8. SlotsOK'
  BY <1>1, <1>6, <1>7, OthersStay
<1>9. CountersOK'
  BY <1>1, <1>2, <1>3, <1>4, Assumed DEF CountersOK, TypeOK
<1>10. SpentOK'
  <2>1. \A x \in Calls : asked'[x] = asked[x] /\ TreeOf(x)' = TreeOf(x)
    BY <1>3, <1>5, Assumed DEF TreeOf
  <2>2. \A x \in Calls : Paid(x)' = Paid(x)
    BY <2>1 DEF Paid
  <2> QED BY <1>1, <1>3, <2>2 DEF SpentOK
<1>11. TypeOK'
  <2>1. \A x \in Slots : ResponseId(x)' \in Ids
    BY <1>9, Assumed DEF CountersOK, ResponseId, Ids
  <2> QED BY <1>1, <1>2, <1>3, <1>4, <1>5, <2>1 DEF TypeOK, registry, closers
<1>12. UsesOK'
  <2>1. \A x \in Slots : at'[x] \in {"idle", "asked"} <=> at[x] \in {"idle", "asked"}
    BY <1>2, <1>5
  <2> QED BY <1>1, <1>3, <2>1, UsesStay DEF registry
<1>13. ClosersOK'
  BY <1>1, <1>3 DEF ClosersOK, closers
<1>14. RolloutOK'
  <2>1. BatchOver'
    BY <1>1, <1>3, <1>4 DEF StartTurn, RolloutOK, BatchOver, Foreground
  <2>2. \A k : MayCancel(k) => MayCancel(k)'
    BY <1>3, StillEntitled DEF Cancelling
  <2> QED BY <1>1, <1>2, <1>3, <2>1, <2>2 DEF RolloutOK, registry
<1>15. ForAReason
  BY <1>3 DEF ForAReason
<1> QED BY <1>8, <1>9, <1>10, <1>11, <1>12, <1>13, <1>14, <1>15 DEF IInv

-----------------------------------------------------------------------------
(* Latching a session.                                                     *)

\* Whoever waits is woken, and what the session has open is found.
LEMMA LatchKeeps ==
  ASSUME IInv, NEW a \in Actors, NEW k \in Keys, a \notin closing, Latch(a, k),
         UNCHANGED <<detached, rollout, rounds, asked, tries, client, response, emitted, shown,
                     spent, gone, stuck>>
  PROVE  /\ SlotsOK' /\ CountersOK' /\ UsesOK' /\ SpentOK' /\ RegistryOK'
         /\ at' \in [Slots -> Stages]
         /\ outcome' \in [Slots -> {"none", "ok", "failed", "cancelled"}]
         /\ found' \in [Actors -> SUBSET Ids] /\ closing' = closing \cup {a}
         /\ \A b \in Actors : b # a => found'[b] = found[b]
         /\ rollout # "turn" => at'[Turn] = "idle"
         /\ \A x \in Slots : outcome'[x] = "cancelled" => outcome[x] = "cancelled" \/ KeyOf(x) = k
<1>1. /\ TypeOK /\ CountersOK /\ SlotsOK /\ UsesOK /\ SpentOK /\ ClosersOK /\ RolloutOK
      /\ RegistryOK /\ found[a] = {}
  BY DEF IInv, TypeOK, RegistryOK, ClosersOK
<1>2. \A x \in Slots :
        /\ KeyOf(x) = k /\ at[x] = "waiting"
             => at'[x] = "leaving" /\ outcome'[x] = "cancelled"
        /\ ~ (KeyOf(x) = k /\ at[x] = "waiting") => at'[x] = at[x] /\ outcome'[x] = outcome[x]
  BY DEF Latch
<1>3. /\ found' = [found EXCEPT ![a] = resources[k]] /\ latch' = latch \cup {k}
      /\ closing' = closing \cup {a} /\ known' = known \cup {k}
      /\ UNCHANGED <<operations, resources>>
  BY DEF Latch
<1>4. found'[a] = resources[k] /\ \A b \in Actors : b # a => found'[b] = found[b]
  BY <1>1, <1>3 DEF TypeOK
<1>5. SlotsOK'
  <2> SUFFICES ASSUME NEW x \in Slots
               PROVE  StageOK(x)' /\ HeldOK(x)' /\ ClosedOK(x)'
    BY DEF SlotsOK
  <2>1. /\ KeyOf(x)' = KeyOf(x) /\ KeyOf(x) \in Keys
        /\ ClientId(x)' = ClientId(x) /\ ResponseId(x)' = ResponseId(x)
    BY <1>1, KeysKnown DEF KeyOf, ClientId, ResponseId
  <2>2. StageOK(x) /\ HeldOK(x) /\ ClosedOK(x)
    BY <1>1 DEF SlotsOK
  <2>3. StageOK(x)'
    BY <1>2, <2>2 DEF StageOK
  <2>4. HeldOK(x)'
    BY <1>2, <1>3, <2>1, <2>2 DEF HeldOK
  <2>5. CASE KeyOf(x) = k
    <3>1. at'[x] # "waiting"
      BY <1>2, <2>5
    <3>2. at'[x] \in {"sending", "answered", "reading"} => ClientId(x)' \in found'[a]
      BY <1>2, <1>4, <2>1, <2>2, <2>5 DEF HeldOK
    <3>3. at'[x] = "reading" => ResponseId(x)' \in found'[a]
      BY <1>2, <1>4, <2>1, <2>2, <2>5 DEF HeldOK
    <3> QED BY <2>3, <2>4, <3>1, <3>2, <3>3 DEF ClosedOK
  <2>6. CASE KeyOf(x) # k
    <3>1. KeyOf(x) \in latch' => KeyOf(x) \in latch
      BY <1>3, <2>6
    <3>2. \A i \in Ids : (\E b \in Actors : i \in found[b]) => \E b \in Actors : i \in found'[b]
      BY <1>1, <1>4
    <3>3. at'[x] = at[x] /\ client'[x] = client[x] /\ response'[x] = response[x]
      BY <1>2, <2>6
    <3>4. ClientId(x) \in Ids /\ ResponseId(x) \in Ids
      BY <1>1, IdsTyped
    <3>5. (\E b \in Actors : ClientId(x) \in found[b])
            => (\E b \in Actors : ClientId(x)' \in found'[b])
      BY <2>1, <3>2, <3>4
    <3>6. (\E b \in Actors : ResponseId(x) \in found[b])
            => (\E b \in Actors : ResponseId(x)' \in found'[b])
      BY <2>1, <3>2, <3>4
    <3> QED BY <2>1, <2>2, <2>3, <2>4, <3>1, <3>3, <3>5, <3>6 DEF ClosedOK
  <2> QED BY <2>5, <2>6
<1>6. CountersOK'
  BY <1>1 DEF CountersOK
<1>7. UsesOK'
  <2>1. \A x \in Slots : at'[x] \in {"idle", "asked"} <=> at[x] \in {"idle", "asked"}
    BY <1>2
  <2> QED BY <1>1, <1>3, <2>1, UsesStay
<1>8. SpentOK'
  BY <1>1 DEF SpentOK, Paid, TreeOf
<1>9. RegistryOK'
  BY <1>1, <1>3 DEF RegistryOK
<1>10. /\ at' \in [Slots -> Stages]
       /\ outcome' \in [Slots -> {"none", "ok", "failed", "cancelled"}]
  BY <1>1 DEF Latch, TypeOK, Stages
<1>11. found' \in [Actors -> SUBSET Ids]
  BY <1>1, <1>3 DEF TypeOK, RegistryOK
<1>12. rollout # "turn" => at'[Turn] = "idle"
  BY <1>1, <1>2, Assumed DEF RolloutOK
<1>13. \A x \in Slots : outcome'[x] = "cancelled" => outcome[x] = "cancelled" \/ KeyOf(x) = k
  BY <1>2
<1> QED BY <1>3, <1>4, <1>5, <1>6, <1>7, <1>8, <1>9, <1>10, <1>11, <1>12, <1>13

LEMMA StopKeeps ==
  ASSUME IInv, Stop
  PROVE  IInv' /\ ForAReason
<1>1. TypeOK /\ ClosersOK /\ RolloutOK /\ Host \notin closing /\ Host \in Actors
      /\ Host \in Keys
  BY Assumed DEF IInv, ClosersOK, Stop
<1>2. /\ stopped' = TRUE /\ Latch(Host, Host) /\ rollout # "ended"
      /\ UNCHANGED <<detached, rollout, rounds, asked, tries, client, response, emitted,
                     shown, spent, call, gone, stuck>>
  BY DEF Stop, brokers
<1>3. /\ SlotsOK' /\ CountersOK' /\ UsesOK' /\ SpentOK' /\ RegistryOK'
      /\ at' \in [Slots -> Stages]
      /\ outcome' \in [Slots -> {"none", "ok", "failed", "cancelled"}]
      /\ found' \in [Actors -> SUBSET Ids] /\ closing' = closing \cup {Host}
      /\ \A b \in Actors : b # Host => found'[b] = found[b]
      /\ rollout # "turn" => at'[Turn] = "idle"
      /\ \A x \in Slots : outcome'[x] = "cancelled" => outcome[x] = "cancelled" \/ KeyOf(x) = Host
  BY <1>1, <1>2, LatchKeeps
<1>4. TypeOK'
  <2>1. \A x \in Slots : ResponseId(x)' \in Ids
    BY <1>3, Assumed DEF CountersOK, ResponseId, Ids
  <2> QED BY <1>1, <1>2, <1>3, <2>1 DEF TypeOK, RegistryOK
<1>5. ClosersOK'
  BY <1>1, <1>2, <1>3, Assumed DEF ClosersOK
<1>6. RolloutOK'
  <2>1. \A k : MayCancel(k) => MayCancel(k)'
    BY <1>2, StillEntitled DEF Cancelling
  <2>2. latch' = latch \cup {Host} /\ MayCancel(Host)'
    BY <1>2 DEF Latch, MayCancel
  <2> QED BY <1>1, <1>2, <1>3, <2>1, <2>2 DEF RolloutOK, BatchOver, Foreground
<1>7. ForAReason
  <2>1. \A x \in Slots : KeyOf(x)' = KeyOf(x)
    BY <1>2 DEF KeyOf
  <2> QED BY <1>2, <1>3, <2>1 DEF ForAReason, MayCancel
<1> QED BY <1>3, <1>4, <1>5, <1>6, <1>7 DEF IInv

LEMMA GiveUpKeeps ==
  ASSUME IInv, NEW c \in Calls, GiveUp(c)
  PROVE  IInv' /\ ForAReason
<1>1. /\ TypeOK /\ CountersOK /\ SlotsOK /\ UsesOK /\ SpentOK /\ ClosersOK /\ RolloutOK
      /\ c \in Slots /\ c \in Actors /\ KeyOf(c) \in Keys
      /\ call[c] = "running" /\ c \notin closing
  BY KeysKnown, Assumed DEF IInv, ClosersOK, GiveUp
<1>2. /\ UNCHANGED <<detached, rollout, rounds, stopped, asked, tries, client, response,
                     emitted, shown, spent, gone, stuck>>
      /\ call' \in [Calls -> {"running", "closing", "joining", "over"}]
      /\ call'[c] \in {"closing", "over"}
      /\ \A x \in Calls : x # c => call'[x] = call[x]
  BY <1>1 DEF GiveUp, TypeOK, host
<1>3. /\ \A x \in Calls : call[x] # "running" => call'[x] = call[x]
      /\ \A x \in Slots : KeyOf(x)' = KeyOf(x)
      /\ Foreground' = Foreground /\ Foreground \subseteq Calls
      /\ \A k : MayCancel(k) => MayCancel(k)'
  <2>1. \A x \in Calls : Cancelling(x) => Cancelling(x)'
    BY <1>1, <1>2 DEF Cancelling, RolloutOK
  <2> QED BY <1>1, <1>2, <2>1, StillEntitled DEF KeyOf, Foreground
<1>4. BatchOver => BatchOver'
  BY <1>2, <1>3 DEF BatchOver
<1>5. stuck' \subseteq {x \in Calls : call'[x] = "over"}
  BY <1>1, <1>2, <1>3 DEF RolloutOK
<1>6. CASE c \in gone
  <2>1. UNCHANGED <<at, outcome, registry, closers>>
    BY <1>6 DEF GiveUp
  <2>2. SlotsOK'
    BY <1>1, <1>2, <2>1 DEF SlotsOK, StageOK, HeldOK, ClosedOK, KeyOf, ClientId, ResponseId,
                            registry, closers
  <2>3. CountersOK' /\ SpentOK'
    BY <1>1, <1>2 DEF CountersOK, SpentOK, Paid, TreeOf
  <2>4. UsesOK'
    BY <1>1, <1>2, <2>1, UsesStay DEF registry
  <2>5. TypeOK'
    BY <1>1, <1>2, <2>1 DEF TypeOK, registry, closers, ResponseId
  <2>6. ClosersOK'
    BY <1>1, <1>2, <1>3, <2>1 DEF ClosersOK, closers
  <2>7. RolloutOK'
    BY <1>1, <1>2, <1>3, <1>4, <1>5, <2>1 DEF RolloutOK, registry
  <2>8. ForAReason
    BY <2>1 DEF ForAReason
  <2> QED BY <2>2, <2>3, <2>4, <2>5, <2>6, <2>7, <2>8 DEF IInv
<1>7. CASE c \notin gone
  <2>1. Latch(c, KeyOf(c)) /\ call'[c] = "closing"
    BY <1>1, <1>7 DEF GiveUp, TypeOK
  <2>2. /\ SlotsOK' /\ CountersOK' /\ UsesOK' /\ SpentOK' /\ RegistryOK'
        /\ at' \in [Slots -> Stages]
        /\ outcome' \in [Slots -> {"none", "ok", "failed", "cancelled"}]
        /\ found' \in [Actors -> SUBSET Ids] /\ closing' = closing \cup {c}
        /\ \A b \in Actors : b # c => found'[b] = found[b]
        /\ rollout # "turn" => at'[Turn] = "idle"
        /\ \A x \in Slots : outcome'[x] = "cancelled" => outcome[x] = "cancelled" \/ KeyOf(x) = KeyOf(c)
    BY <1>1, <1>2, <2>1, LatchKeeps
  <2>3. TypeOK'
    <3>1. \A x \in Slots : ResponseId(x)' \in Ids
      BY <2>2, Assumed DEF CountersOK, ResponseId, Ids
    <3> QED BY <1>1, <1>2, <2>2, <3>1 DEF TypeOK, RegistryOK
  <2>4. ClosersOK'
    BY <1>1, <1>2, <1>3, <2>1, <2>2, Assumed DEF ClosersOK
  <2>5. RolloutOK'
    <3>1. latch' = latch \cup {KeyOf(c)}
      BY <2>1 DEF Latch
    <3>2. KeyOf(c)' = KeyOf(c) /\ MayCancel(KeyOf(c))'
      BY <1>1, <1>3, <2>1 DEF MayCancel, Cancelling
    <3>3. \A k \in latch' : MayCancel(k)'
      BY <1>1, <1>3, <3>1, <3>2 DEF RolloutOK
    <3> QED BY <1>1, <1>2, <1>3, <1>4, <1>5, <2>2, <3>3 DEF RolloutOK
  <2>6. ForAReason
    BY <1>1, <1>3, <2>1, <2>2 DEF ForAReason, MayCancel, Cancelling
  <2> QED BY <2>2, <2>3, <2>4, <2>5, <2>6 DEF IInv
<1> QED BY <1>6, <1>7

-----------------------------------------------------------------------------
(* Closing what was found, and the ends of brokers, calls and rollouts.    *)

LEMMA CloseFoundKeeps ==
  ASSUME IInv, NEW a \in Actors, CloseFound(a)
  PROVE  IInv' /\ ForAReason
<1>1. /\ TypeOK /\ CountersOK /\ SlotsOK /\ UsesOK /\ SpentOK /\ ClosersOK /\ RolloutOK
  BY DEF IInv
<1>2. UNCHANGED <<detached, host, at, outcome, asked, tries, emitted, shown, spent,
                  registry, gone, stuck>>
  BY DEF CloseFound
<1>3. \A x \in Slots :
        /\ client'[x] = client[x] \/ (client[x] = "open" /\ client'[x] = "closed")
        /\ response'[x] = response[x] \/ (response[x] = "open" /\ response'[x] = "closed")
        /\ ClientId(x) \in found[a] => client'[x] # "open"
        /\ ResponseId(x) \in found[a] => response'[x] # "open"
  <2> SUFFICES ASSUME NEW x \in Slots
               PROVE  /\ client'[x] = client[x] \/ (client[x] = "open" /\ client'[x] = "closed")
                      /\ response'[x] = response[x] \/ (response[x] = "open" /\ response'[x] = "closed")
                      /\ ClientId(x) \in found[a] => client'[x] # "open"
                      /\ ResponseId(x) \in found[a] => response'[x] # "open"
    OBVIOUS
  <2>1. client'[x] = IF client[x] = "open" /\ ClientId(x) \in found[a] THEN "closed" ELSE client[x]
    BY DEF CloseFound
  <2>2. response'[x] = IF response[x] = "open" /\ ResponseId(x) \in found[a]
                       THEN "closed" ELSE response[x]
    BY DEF CloseFound
  <2> QED BY <2>1, <2>2
<1>4. /\ found'[a] = {} /\ found' \in [Actors -> SUBSET Ids] /\ closing' = closing \ {a}
      /\ \A b \in Actors : b # a => found'[b] = found[b]
  BY <1>1 DEF CloseFound, TypeOK
<1>5. \A c \in Calls : IF c = a THEN call'[c] = "joining" ELSE call'[c] = call[c]
  BY DEF CloseFound
<1>6. /\ client' \in [Slots -> {"none", "open", "closed"}]
      /\ response' \in [Slots -> {"none", "open", "closed"}]
      /\ call' \in [Calls -> {"running", "closing", "joining", "over"}]
  BY <1>1 DEF CloseFound, TypeOK
<1>7. \A c \in Calls : c = a => call[c] = "closing"
  BY <1>1 DEF ClosersOK, CloseFound
<1>8. TypeOK'
  <2>1. \A x \in Slots : ResponseId(x)' \in Ids
    BY <1>1, <1>2, IdsTyped DEF ResponseId
  <2> QED BY <1>1, <1>2, <1>4, <1>6, <2>1 DEF TypeOK, host, registry
<1>9. CountersOK' /\ SpentOK'
  BY <1>1, <1>2 DEF CountersOK, SpentOK, Paid, TreeOf, host
<1>10. SlotsOK'
  <2> SUFFICES ASSUME NEW x \in Slots
               PROVE  StageOK(x)' /\ HeldOK(x)' /\ ClosedOK(x)'
    BY DEF SlotsOK
  <2>1. /\ KeyOf(x)' = KeyOf(x) /\ latch' = latch /\ resources' = resources
        /\ ClientId(x)' = ClientId(x) /\ ResponseId(x)' = ResponseId(x)
    BY <1>2 DEF KeyOf, ClientId, ResponseId, registry
  <2>2. StageOK(x) /\ HeldOK(x) /\ ClosedOK(x)
    BY <1>1 DEF SlotsOK
  <2>3. StageOK(x)'
    BY <1>2, <1>3, <2>2 DEF StageOK
  <2>4. HeldOK(x)'
    BY <1>2, <2>1, <2>2 DEF HeldOK
  <2>5. /\ client'[x] \in {"none", "open", "closed"} /\ response'[x] \in {"none", "open", "closed"}
        /\ at'[x] = at[x]
    BY <1>2, <1>6
  <2>6. client[x] = "closed" => client'[x] = "closed"
    BY <1>3
  <2>7. response[x] = "closed" => response'[x] = "closed"
    BY <1>3
  <2>8. KeyOf(x) \in latch /\ at[x] \in {"sending", "answered", "reading"} =>
          client'[x] = "closed" \/ \E b \in Actors : ClientId(x) \in found'[b]
    <3> SUFFICES ASSUME KeyOf(x) \in latch, at[x] \in {"sending", "answered", "reading"},
                        NEW b \in Actors, ClientId(x) \in found[b]
                 PROVE  client'[x] = "closed" \/ \E d \in Actors : ClientId(x) \in found'[d]
      BY <2>2, <2>6 DEF ClosedOK
    <3>1. CASE b = a
      BY <1>3, <2>2, <2>3, <2>5, <3>1 DEF StageOK
    <3>2. CASE b # a
      BY <1>4, <3>2
    <3> QED BY <3>1, <3>2
  <2>9. KeyOf(x) \in latch /\ at[x] = "reading" =>
          response'[x] = "closed" \/ \E b \in Actors : ResponseId(x) \in found'[b]
    <3> SUFFICES ASSUME KeyOf(x) \in latch, at[x] = "reading",
                        NEW b \in Actors, ResponseId(x) \in found[b]
                 PROVE  response'[x] = "closed" \/ \E d \in Actors : ResponseId(x) \in found'[d]
      BY <2>2, <2>7 DEF ClosedOK
    <3>1. CASE b = a
      BY <1>3, <2>2, <2>3, <2>5, <3>1 DEF StageOK
    <3>2. CASE b # a
      BY <1>4, <3>2
    <3> QED BY <3>1, <3>2
  <2>10. KeyOf(x) \in latch => at[x] # "waiting"
    BY <2>2 DEF ClosedOK
  <2>11. ClosedOK(x)'
    BY <2>1, <2>5, <2>8, <2>9, <2>10 DEF ClosedOK
  <2> QED BY <2>3, <2>4, <2>11
<1>11. UsesOK'
  <2>1. \A x \in Slots : /\ client'[x] = "none" <=> client[x] = "none"
                         /\ response'[x] = "none" <=> response[x] = "none"
    BY <1>3
  <2> QED BY <1>1, <1>2, <2>1, UsesStay DEF registry
<1>12. ClosersOK'
  BY <1>1, <1>2, <1>4, <1>5 DEF ClosersOK, host
<1>13. RolloutOK'
  <2>1. \A c \in Calls : /\ call[c] \in {"closing", "joining"} => call'[c] \in {"closing", "joining"}
                         /\ call[c] = "over" => call'[c] = "over"
    BY <1>5, <1>7
  <2>2. \A k : MayCancel(k) => MayCancel(k)'
    BY <1>2, <2>1, StillEntitled DEF Cancelling, host
  <2>3. Foreground' = Foreground /\ Foreground \subseteq Calls
    BY <1>2 DEF Foreground
  <2> QED BY <1>1, <1>2, <2>1, <2>2, <2>3 DEF RolloutOK, BatchOver, host, registry
<1>14. ForAReason
  BY <1>2 DEF ForAReason
<1> QED BY <1>1, <1>8, <1>9, <1>10, <1>11, <1>12, <1>13, <1>14 DEF IInv

\* The reset of a session lifts its latch and changes no registration.
LEMMA ResetKeeps ==
  ASSUME IInv, NEW k \in Keys, ResetSession(k),
         UNCHANGED <<detached, requests, spent, closers>>
  PROVE  SlotsOK' /\ UsesOK' /\ SpentOK' /\ RegistryOK' /\ latch' = latch \ {k}
<1>1. TypeOK /\ CountersOK /\ SlotsOK /\ UsesOK /\ SpentOK /\ RegistryOK
  BY DEF IInv, TypeOK, RegistryOK
<1>2. latch' = latch \ {k} /\ UNCHANGED <<operations, resources>>
  BY DEF ResetSession
<1>3. SlotsOK'
  <2> SUFFICES ASSUME NEW x \in Slots
               PROVE  StageOK(x)' /\ HeldOK(x)' /\ ClosedOK(x)'
    BY DEF SlotsOK
  <2>1. StageOK(x) /\ HeldOK(x) /\ ClosedOK(x)
    BY <1>1 DEF SlotsOK
  <2>2. StageOK(x)'
    BY <2>1 DEF StageOK, requests
  <2>3. HeldOK(x)'
    BY <1>2, <2>1 DEF HeldOK, requests, KeyOf, ClientId, ResponseId
  <2>4. ClosedOK(x)'
    BY <1>2, <2>1 DEF ClosedOK, requests, closers, KeyOf, ClientId, ResponseId
  <2> QED BY <2>2, <2>3, <2>4
<1>4. UsesOK'
  BY <1>1, <1>2, UsesStay DEF requests
<1>5. SpentOK'
  BY <1>1 DEF SpentOK, Paid, TreeOf, requests
<1>6. RegistryOK'
  BY <1>1, <1>2 DEF ResetSession, RegistryOK
<1> QED BY <1>2, <1>3, <1>4, <1>5, <1>6

LEMMA BrokerEndsKeeps ==
  ASSUME IInv, NEW c \in Calls, BrokerEnds(c)
  PROVE  IInv' /\ ForAReason
<1>1. /\ UNCHANGED <<detached, host, requests, spent, registry, call, stuck, closers>>
      /\ gone' = gone \cup {c}
  BY DEF BrokerEnds
<1>2. TypeOK'
  <2>1. \A x \in Slots : ResponseId(x)' = ResponseId(x)
    BY <1>1 DEF ResponseId, requests
  <2> QED BY <1>1, <2>1 DEF IInv, TypeOK, host, requests, registry, closers
<1>3. CountersOK' /\ SpentOK'
  BY <1>1 DEF IInv, CountersOK, SpentOK, Paid, TreeOf, host, requests
<1>4. SlotsOK'
  BY <1>1 DEF IInv, SlotsOK, StageOK, HeldOK, ClosedOK, KeyOf, ClientId, ResponseId,
              requests, registry, closers
<1>5. UsesOK'
  BY <1>1, UsesStay DEF IInv, requests, registry
<1>6. ClosersOK'
  BY <1>1 DEF IInv, ClosersOK, host, closers
<1>7. RolloutOK'
  <2>1. \A k : MayCancel(k) => MayCancel(k)'
    BY <1>1, StillEntitled DEF Cancelling, host
  <2> QED BY <1>1, <2>1 DEF IInv, RolloutOK, BatchOver, Foreground, host, requests, registry
<1>8. ForAReason
  BY <1>1 DEF ForAReason, requests
<1> QED BY <1>2, <1>3, <1>4, <1>5, <1>6, <1>7, <1>8 DEF IInv

LEMMA JoinKeeps ==
  ASSUME IInv, NEW c \in Calls, Join(c)
  PROVE  IInv' /\ ForAReason
<1>1. /\ TypeOK /\ CountersOK /\ SlotsOK /\ UsesOK /\ SpentOK /\ ClosersOK /\ RolloutOK
      /\ RegistryOK /\ KeyOf(c) \in Keys /\ call[c] = "joining"
  BY KeysKnown, Assumed DEF IInv, TypeOK, RegistryOK, Join, Slots
<1>2. /\ UNCHANGED <<detached, host, requests, spent, gone, closers>>
      /\ call' = [call EXCEPT ![c] = "over"]
  BY DEF Join
<1>3. /\ call'[c] = "over" /\ \A x \in Calls : x # c => call'[x] = call[x]
      /\ call' \in [Calls -> {"running", "closing", "joining", "over"}]
  BY <1>1, <1>2 DEF TypeOK
<1>4. /\ SlotsOK' /\ UsesOK' /\ SpentOK' /\ RegistryOK'
      /\ \/ latch' = latch \ {KeyOf(c)} /\ stuck' = StuckBut(KeyOf(c))
         \/ latch' = latch /\ stuck' = stuck \cup {c}
  <2>1. CASE c \in gone
    <3>1. ResetSession(KeyOf(c)) /\ stuck' = StuckBut(KeyOf(c))
      BY <2>1 DEF Join
    <3> QED BY <1>1, <1>2, <3>1, ResetKeeps
  <2>2. CASE c \notin gone
    <3>1. UNCHANGED registry /\ stuck' = stuck \cup {c}
      BY <2>2 DEF Join
    <3>2. SlotsOK'
      BY <1>1, <1>2, <3>1 DEF SlotsOK, StageOK, HeldOK, ClosedOK, KeyOf, ClientId, ResponseId,
                              requests, registry, closers
    <3>3. UsesOK' /\ SpentOK' /\ RegistryOK'
      BY <1>1, <1>2, <3>1, UsesStay DEF SpentOK, Paid, TreeOf, RegistryOK, requests, registry
    <3> QED BY <3>1, <3>2, <3>3 DEF registry
  <2> QED BY <2>1, <2>2
<1>5. CountersOK'
  BY <1>1, <1>2 DEF CountersOK, host, requests
<1>6. TypeOK'
  <2>1. \A x \in Slots : ResponseId(x)' = ResponseId(x)
    BY <1>2 DEF ResponseId, requests
  <2>2. stuck' \subseteq Calls /\ latch' \subseteq latch
    BY <1>1, <1>4 DEF TypeOK, StuckBut
  <2> QED BY <1>1, <1>2, <1>3, <1>4, <2>1, <2>2 DEF TypeOK, RegistryOK, host, requests, closers
<1>7. ClosersOK'
  BY <1>1, <1>2, <1>3 DEF ClosersOK, host, closers
<1>8. /\ Foreground' = Foreground /\ Foreground \subseteq Calls
      /\ UNCHANGED <<detached, stopped, outcome, rollout, at>>
      /\ \A x : KeyOf(x)' = KeyOf(x)
  BY <1>2 DEF Foreground, KeyOf, host, requests
<1>9. RolloutOK'
  <2>1. \A k \in latch' : MayCancel(k)'
    <3> SUFFICES ASSUME NEW k \in latch', ~ (k = Host /\ stopped)
                 PROVE  \E x \in Calls : KeyOf(x)' = k /\ Cancelling(x)'
      BY <1>8 DEF MayCancel
    <3>1. PICK x \in Calls : KeyOf(x) = k /\ Cancelling(x)
      BY <1>1, <1>4 DEF RolloutOK, MayCancel
    <3>2. CASE latch' = latch \ {KeyOf(c)} /\ stuck' = StuckBut(KeyOf(c))
      <4>1. KeyOf(c) # k /\ x # c
        BY <3>1, <3>2
      <4> QED BY <1>3, <1>8, <3>1, <3>2, <4>1 DEF Cancelling, StuckBut
    <3>3. CASE latch' = latch /\ stuck' = stuck \cup {c}
      BY <1>3, <1>8, <3>1, <3>3 DEF Cancelling
    <3> QED BY <1>4, <3>2, <3>3
  <2>2. BatchOver => BatchOver'
    BY <1>3, <1>8 DEF BatchOver
  <2>3. stuck' \subseteq {x \in Calls : call'[x] = "over"}
    BY <1>1, <1>3, <1>4 DEF RolloutOK, StuckBut
  <2> QED BY <1>1, <1>8, <2>1, <2>2, <2>3 DEF RolloutOK
<1>10. ForAReason
  BY <1>8 DEF ForAReason
<1> QED BY <1>4, <1>5, <1>6, <1>7, <1>9, <1>10 DEF IInv

LEMMA EndKeeps ==
  ASSUME IInv, End
  PROVE  IInv' /\ ForAReason
<1>1. /\ TypeOK /\ CountersOK /\ SlotsOK /\ ClosersOK /\ RolloutOK
      /\ Host \in Keys /\ Turn \in Slots /\ Host \notin detached
  BY Assumed DEF IInv, TypeOK
<1>2. /\ rollout' = "ended" /\ stopped' = FALSE /\ Host \notin closing
      /\ UNCHANGED <<detached, rounds, requests, spent, call, gone, closers>>
      /\ ResetSession(Host) /\ stuck' = StuckBut(Host)
  BY DEF End, MayEnd
<1>3. BatchOver /\ at[Turn] = "idle"
  BY <1>1 DEF End, MayEnd, RolloutOK
<1>4. SlotsOK' /\ UsesOK' /\ SpentOK' /\ RegistryOK' /\ latch' = latch \ {Host}
  BY <1>1, <1>2, ResetKeeps
<1>5. CountersOK'
  BY <1>1, <1>2 DEF CountersOK, requests
<1>6. TypeOK'
  <2>1. \A x \in Slots : ResponseId(x)' = ResponseId(x)
    BY <1>2 DEF ResponseId, requests
  <2>2. stuck' \subseteq Calls
    BY <1>1, <1>2 DEF TypeOK, StuckBut
  <2> QED BY <1>1, <1>2, <1>4, <2>1, <2>2 DEF TypeOK, RegistryOK, requests, closers
<1>7. ClosersOK'
  BY <1>1, <1>2 DEF ClosersOK, closers
<1>8. RolloutOK'
  <2>1. \A k \in latch' : MayCancel(k)'
    <3> SUFFICES ASSUME NEW k \in latch'
                 PROVE  MayCancel(k)'
      OBVIOUS
    <3>1. k # Host /\ k \in latch
      BY <1>4
    <3>2. PICK x \in Calls : KeyOf(x) = k /\ Cancelling(x)
      BY <1>1, <3>1 DEF RolloutOK, MayCancel
    <3>3. KeyOf(x)' = k /\ Cancelling(x)'
      BY <1>2, <3>1, <3>2 DEF KeyOf, Cancelling, StuckBut
    <3> QED BY <3>3 DEF MayCancel
  <2>2. BatchOver' /\ at'[Turn] = "idle"
    BY <1>2, <1>3 DEF BatchOver, Foreground, requests
  <2>3. stuck' \subseteq {x \in Calls : call'[x] = "over"}
    BY <1>1, <1>2 DEF RolloutOK, StuckBut
  <2> QED BY <2>1, <2>2, <2>3 DEF RolloutOK
<1>9. ForAReason
  BY <1>2 DEF ForAReason, requests
<1> QED BY <1>4, <1>5, <1>6, <1>7, <1>8, <1>9 DEF IInv

-----------------------------------------------------------------------------
(* The invariant.                                                          *)

LEMMA InitEstablishes == Init => IInv
<1> SUFFICES ASSUME Init
             PROVE  IInv
  OBVIOUS
<1>1. \A x \in Slots : at[x] = "idle" /\ outcome[x] = "none" /\ asked[x] = 0 /\ tries[x] = 0
                       /\ client[x] = "none" /\ response[x] = "none" /\ ~ emitted[x] /\ shown[x] = 0
  BY DEF Init
<1>2. CountersOK
  BY Assumed DEF Init, CountersOK
<1>3. IsFiniteSet(Slots) /\ Cardinality(Slots) \in Nat /\ Cardinality(Calls) \in Nat
  BY Assumed, FS_AddElement, FS_CardinalityType
<1>4. 0 \in 0 .. 3 * Cardinality(Slots) /\ 0 \in 0 .. Cardinality(Calls) * MaxRequests
  <2>1. {} \in SUBSET (Slots \X Kinds) /\ {} \in SUBSET (Calls \X (1 .. MaxRequests))
    OBVIOUS
  <2>2. Cardinality({}) = 0
    BY FS_EmptySet
  <2>3. 0 \in 0 .. 3 * Cardinality(Slots)
    BY <2>1, <2>2, UsesFinite
  <2>4. 0 \in 0 .. Cardinality(Calls) * MaxRequests
    BY <2>1, <2>2, PaidFinite
  <2> QED BY <2>3, <2>4
<1>5. TypeOK
  <2>1. \A x \in Slots : ResponseId(x) \in Ids
    BY <1>2, IdsTyped
  <2>2. /\ at \in [Slots -> Stages] /\ shown \in [Slots -> 0 .. MaxRetries + 1]
        /\ rounds \in 1 .. MaxRollouts
    BY Assumed DEF Init, Stages
  <2> QED BY <1>4, <2>1, <2>2, Assumed DEF Init, TypeOK
<1>6. SlotsOK
  BY <1>1 DEF Init, SlotsOK, StageOK, HeldOK, ClosedOK
<1>7. UsesOK
  <2>1. \A k \in Keys : Uses(k) = {}
    BY <1>1 DEF Uses
  <2> QED BY <2>1, FS_EmptySet DEF Init, UsesOK
<1>8. SpentOK
  <2>1. \A c \in Calls : asked[c] = 0
    BY <1>1, Assumed
  <2>2. \A c \in Calls : Paid(c) = {}
    BY <2>1 DEF Paid
  <2> QED BY <2>2, FS_EmptySet DEF Init, SpentOK
<1>9. ClosersOK /\ RolloutOK
  BY <1>1, Assumed DEF Init, ClosersOK, RolloutOK
<1> QED BY <1>2, <1>5, <1>6, <1>7, <1>8, <1>9 DEF IInv

LEMMA VarsStutter == ASSUME IInv, UNCHANGED vars PROVE IInv' /\ ForAReason
<1>1. UNCHANGED <<detached, host, requests, spent, registry, brokers, closers>>
  BY DEF vars
<1>2. TypeOK'
  <2>1. \A x \in Slots : ResponseId(x)' = ResponseId(x)
    BY <1>1 DEF ResponseId, requests
  <2> QED BY <1>1, <2>1 DEF IInv, TypeOK, host, requests, registry, brokers, closers
<1>3. CountersOK' /\ SpentOK'
  BY <1>1 DEF IInv, CountersOK, SpentOK, Paid, TreeOf, host, requests
<1>4. SlotsOK'
  BY <1>1 DEF IInv, SlotsOK, StageOK, HeldOK, ClosedOK, KeyOf, ClientId, ResponseId,
              requests, registry, closers
<1>5. UsesOK'
  BY <1>1, UsesStay DEF IInv, requests, registry
<1>6. ClosersOK'
  BY <1>1 DEF IInv, ClosersOK, host, brokers, closers
<1>7. RolloutOK'
  <2>1. \A k : MayCancel(k) => MayCancel(k)'
    BY <1>1, StillEntitled DEF Cancelling, host, brokers
  <2> QED BY <1>1, <2>1 DEF IInv, RolloutOK, BatchOver, Foreground, host, requests, registry,
             brokers
<1>8. ForAReason
  BY <1>1 DEF ForAReason, requests
<1> QED BY <1>2, <1>3, <1>4, <1>5, <1>6, <1>7, <1>8 DEF IInv

LEMMA NextKeeps == IInv /\ [Next]_vars => IInv' /\ ForAReason
<1> SUFFICES ASSUME IInv, [Next]_vars
             PROVE  IInv' /\ ForAReason
  OBVIOUS
<1>1. CASE \E s \in Slots : RequestStep(s)
  <2>1. PICK s \in Slots : RequestStep(s)
    BY <1>1
  <2> QED BY <2>1, EnterKeeps, BindKeeps, BeginKeeps, AnsweredKeeps, CheckedKeeps, DeltaKeeps,
             ReadKeeps, AbandonKeeps, FailKeeps, RetryKeeps, LeaveKeeps DEF RequestStep
<1>2. CASE \E c \in Calls : CallStep(c)
  BY <1>2, AskKeeps, BrokerEndsKeeps, GiveUpKeeps, JoinKeeps DEF CallStep
<1>3. CASE \E a \in Actors : CloseFound(a)
  BY <1>3, CloseFoundKeeps
<1>4. CASE StartTurn
  BY <1>4, StartTurnKeeps
<1>5. CASE Stop
  BY <1>5, StopKeeps
<1>6. CASE End
  BY <1>6, EndKeeps
<1>7. CASE UNCHANGED vars
  BY <1>7, VarsStutter
<1> QED BY <1>1, <1>2, <1>3, <1>4, <1>5, <1>6, <1>7 DEF Next

LEMMA Invariance == Spec => []IInv
<1>1. Init => IInv
  BY InitEstablishes
<1>2. IInv /\ [Next]_vars => IInv'
  BY NextKeeps
<1> QED BY <1>1, <1>2, PTL DEF Spec

-----------------------------------------------------------------------------
(* The theorems.                                                           *)

\* Every table of the transport keeps its type: a session counts at most three
\* operations for each of its requests and never less than none, and the budget of
\* a call tree pays for no request that its calls have not made (openrouter.py,
\* _active; model_provider.py, serve).
THEOREM TypeCorrect == Spec => []TypeOK
<1>1. IInv => TypeOK
  BY DEF IInv
<1> QED BY <1>1, Invariance, PTL

\* Whatever a request registers after its session was latched, or before, is closed
\* once everybody who latched it has closed what he found (_cancel_session, the
\* looks at the event in _request_client and _attempt).
THEOREM CancellationReaches == Spec => []LatchedIsClosed
<1>1. IInv => LatchedIsClosed
  <2> SUFFICES ASSUME IInv, NEW s \in Slots, KeyOf(s) \in latch,
                      \A a \in Actors : found[a] \cap {ClientId(s), ResponseId(s)} = {}
               PROVE  /\ at[s] \in {"sending", "answered", "reading"} => client[s] = "closed"
                      /\ at[s] = "reading" => response[s] = "closed"
                      /\ at[s] # "waiting"
    BY DEF LatchedIsClosed
  <2>1. ClosedOK(s)
    BY DEF IInv, SlotsOK
  <2>2. \A a \in Actors : ClientId(s) \notin found[a] /\ ResponseId(s) \notin found[a]
    OBVIOUS
  <2> QED BY <2>1, <2>2 DEF ClosedOK
<1> QED BY <1>1, Invariance, PTL

\* No retry of a turn shows its text again (the condition on emitted_text in
\* _stream).
THEOREM TextIsShownOnce == Spec => []TextShownOnce
<1>1. IInv => TextShownOnce
  BY Assumed DEF IInv, SlotsOK, StageOK, TextShownOnce
<1> QED BY <1>1, Invariance, PTL

\* A latch cancels nobody once those who set it are done: a request is cancelled only
\* while its rollout is stopped, or while a call of its session that was given up with
\* its broker alive is closing, joining, or has left that broker behind and nobody has
\* reset the session since (the end of _call, _reset_session, the end of send).
THEOREM NobodyIsCancelledForNothing == Spec => CancelledForAReason
<1>1. IInv /\ [Next]_vars => [ForAReason]_vars
  BY NextKeeps
<1> QED BY <1>1, Invariance, PTL DEF Spec, CancelledForAReason
=============================================================================
