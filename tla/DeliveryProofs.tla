--------------------------- MODULE DeliveryProofs ---------------------------
(***************************************************************************)
(* Proofs about what the model and the client of a session are given.      *)
(* Delivery: the news of a task is heard before it is committed as         *)
(* delivered, is heard once, and its claim is always somebody's.  Media:   *)
(* a unit of sound is said to begin when it was captured, and the pictures *)
(* that go with it neither run ahead of it nor back.                       *)
(***************************************************************************)
EXTENDS Delivery, MediaPromise, SeqOrder, FiniteSetTheorems, SequenceTheorems,
        WellFoundedInduction, TLAPS

-----------------------------------------------------------------------------
(* The queue of the ledger *)

\* A row that leaves the queue is no longer listed, and the others are, once.
LEMMA WithoutOne ==
    ASSUME NEW S, NEW q \in Seq(S), IsInjective(q), NEW d
    PROVE  /\ Without(q, d) \in Seq(S) /\ IsInjective(Without(q, d))
           /\ ToSet(Without(q, d)) = ToSet(q) \ {d}
<1>1. CASE d \notin ToSet(q)
  BY <1>1 DEF Without
<1>2. CASE d \in ToSet(q)
  <2>0. PICK n \in 1..Len(q) : n = CHOOSE m \in DOMAIN q : q[m] = d
    BY <1>2 DEF ToSet
  <2> DEFINE a == SubSeq(q, 1, n - 1)
             b == SubSeq(q, n + 1, Len(q))
             r == a \o b
  <2>1. q[n] = d /\ Without(q, d) = r
    BY <1>2, <2>0 DEF ToSet, Without, RemoveAt
  <2>2. /\ a \in Seq(S) /\ Len(a) = n - 1
        /\ \A i \in 1..(n - 1) : a[i] = q[i]
    <3>1. \A i \in 1..(n - 1) : q[i] \in S OBVIOUS
    <3> QED BY <3>1, SubSeqProperties
  <2>3. /\ b \in Seq(S) /\ Len(b) = Len(q) - n
        /\ \A i \in 1..(Len(q) - n) : b[i] = q[n + i]
    <3>1. \A i \in (n + 1)..Len(q) : q[i] \in S OBVIOUS
    <3>2. /\ SubSeq(q, n + 1, Len(q)) \in Seq(S)
          /\ Len(SubSeq(q, n + 1, Len(q))) =
               IF n + 1 <= Len(q) THEN Len(q) - (n + 1) + 1 ELSE 0
          /\ \A i \in 1..(Len(q) - (n + 1) + 1) :
                SubSeq(q, n + 1, Len(q))[i] = q[n + 1 + i - 1]
      BY <3>1, SubSeqProperties
    <3> QED BY <3>2
  <2>4. /\ r \in Seq(S) /\ Len(r) = Len(q) - 1
        /\ \A i \in 1..(Len(q) - 1) : r[i] = IF i < n THEN q[i] ELSE q[i + 1]
    <3> HIDE DEF a, b
    <3>1. /\ r \in Seq(S) /\ Len(r) = Len(a) + Len(b)
          /\ \A i \in 1..(Len(a) + Len(b)) :
                r[i] = IF i <= Len(a) THEN a[i] ELSE b[i - Len(a)]
      BY <2>2, <2>3, ConcatProperties
    <3> QED BY <3>1, <2>2, <2>3
  <2> HIDE DEF r
  <2>5. DOMAIN q = 1..Len(q) /\ DOMAIN r = 1..(Len(q) - 1)
    BY <2>4
  <2>6. IsInjective(r)
    <3>1. \A i, j \in 1..Len(q) : q[i] = q[j] => i = j BY <2>5 DEF IsInjective
    <3>2. \A i, j \in 1..(Len(q) - 1) : r[i] = r[j] => i = j
      BY <2>4, <3>1
    <3> QED BY <2>5, <3>2 DEF IsInjective
  <2>7. ToSet(r) = ToSet(q) \ {d}
    <3>1. \A i \in 1..Len(q) : q[i] = d => i = n
      BY <2>1, <2>5 DEF IsInjective
    <3>2. ASSUME NEW i \in 1..(Len(q) - 1) PROVE r[i] \in ToSet(q) /\ r[i] # d
      <4>1. CASE i < n
        <5>1. i \in 1..Len(q) /\ i # n /\ r[i] = q[i] BY <4>1, <2>4
        <5> QED BY <5>1, <2>5, <3>1 DEF ToSet
      <4>2. CASE ~(i < n)
        <5>1. i + 1 \in 1..Len(q) /\ i + 1 # n /\ r[i] = q[i + 1] BY <4>2, <2>4
        <5> QED BY <5>1, <2>5, <3>1 DEF ToSet
      <4> QED BY <4>1, <4>2
    <3>3. ASSUME NEW i \in 1..Len(q), q[i] # d PROVE q[i] \in ToSet(r)
      <4>1. i # n BY <2>1, <3>3
      <4>2. CASE i < n BY <4>2, <2>4, <2>5 DEF ToSet
      <4>3. CASE i > n
        <5>1. i - 1 \in 1..(Len(q) - 1) /\ r[i - 1] = q[i] BY <4>3, <2>4
        <5> QED BY <5>1, <2>5 DEF ToSet
      <4> QED BY <4>1, <4>2, <4>3
    <3> QED BY <2>5, <3>2, <3>3 DEF ToSet
  <2> QED BY <2>1, <2>4, <2>6, <2>7
<1> QED BY <1>1, <1>2

\* A row that comes back is listed last.
LEMMA AppendOne ==
    ASSUME NEW S, NEW q \in Seq(S), IsInjective(q), NEW d \in S, d \notin ToSet(q)
    PROVE  /\ Append(q, d) \in Seq(S) /\ IsInjective(Append(q, d))
           /\ ToSet(Append(q, d)) = ToSet(q) \cup {d}
<1> DEFINE r == Append(q, d)
<1>1. /\ r \in Seq(S) /\ Len(r) = Len(q) + 1
      /\ \A i \in 1..Len(q) : r[i] = q[i]
      /\ r[Len(q) + 1] = d
  BY AppendProperties
<1> HIDE DEF r
<1>2. /\ DOMAIN q = 1..Len(q) /\ DOMAIN r = 1..(Len(q) + 1) /\ Len(q) \in Nat
  BY <1>1
<1>3. \A i \in 1..Len(q) : q[i] # d BY <1>2 DEF ToSet
<1>4. IsInjective(r)
  <2>1. \A i, j \in 1..Len(q) : q[i] = q[j] => i = j BY <1>2 DEF IsInjective
  <2>2. \A i, j \in 1..(Len(q) + 1) : r[i] = r[j] => i = j
    BY <1>1, <1>2, <1>3, <2>1
  <2> QED BY <1>2, <2>2 DEF IsInjective
<1>5. ToSet(r) = ToSet(q) \cup {d}
  <2>1. ASSUME NEW i \in 1..(Len(q) + 1) PROVE r[i] \in ToSet(q) \cup {d}
    BY <1>1, <1>2 DEF ToSet
  <2>2. ToSet(q) \subseteq ToSet(r) BY <1>1, <1>2 DEF ToSet
  <2>3. d \in ToSet(r) BY <1>1, <1>2 DEF ToSet
  <2> QED BY <1>2, <2>1, <2>2, <2>3 DEF ToSet
<1> QED BY <1>1, <1>4, <1>5 DEF r

\* The rows of a finite set, in some order.
LEMMA SetInOrder ==
    ASSUME NEW T, IsFiniteSet(T)
    PROVE  /\ SetToSeq(T) \in Seq(T) /\ IsInjective(SetToSeq(T))
           /\ ToSet(SetToSeq(T)) = T
<1> DEFINE n == Cardinality(T)
           s == SetToSeq(T)
<1>1. n \in Nat /\ \E f \in [1..n -> T] : IsInjective(f)
  BY FS_CardinalityType DEF ExistsBijection, Bijection, Injection
<1>2. s \in [1..n -> T] /\ IsInjective(s)
  BY <1>1 DEF SetToSeq
<1>3. s \in Injection(1..n, T) BY <1>2 DEF Injection
<1>4. Cardinality(1..n) = n
  BY <1>1, FS_Interval
<1>5. s \in Surjection(1..n, T)
  BY <1>3, <1>4, FS_Injection
<1>6. ToSet(s) = T
  BY <1>2, <1>5 DEF Surjection, ToSet
<1>7. s \in Seq(T) BY <1>1, <1>2
<1> QED BY <1>2, <1>6, <1>7

\* Two lists with nothing in common, one after the other.
LEMMA ConcatBoth ==
    ASSUME NEW S, NEW p \in Seq(S), IsInjective(p), NEW q \in Seq(S), IsInjective(q),
           ToSet(p) \cap ToSet(q) = {}
    PROVE  /\ p \o q \in Seq(S) /\ IsInjective(p \o q)
           /\ ToSet(p \o q) = ToSet(p) \cup ToSet(q)
<1> DEFINE r == p \o q
<1>1. /\ r \in Seq(S) /\ Len(r) = Len(p) + Len(q)
      /\ \A i \in 1..(Len(p) + Len(q)) :
            r[i] = IF i <= Len(p) THEN p[i] ELSE q[i - Len(p)]
  BY ConcatProperties
<1> HIDE DEF r
<1>2. /\ DOMAIN p = 1..Len(p) /\ DOMAIN q = 1..Len(q) /\ Len(p) \in Nat
      /\ Len(q) \in Nat /\ DOMAIN r = 1..(Len(p) + Len(q))
  BY <1>1
<1>3. \A i \in 1..Len(p), j \in 1..Len(q) : p[i] # q[j]
  <2> SUFFICES ASSUME NEW i \in 1..Len(p), NEW j \in 1..Len(q) PROVE p[i] # q[j]
    OBVIOUS
  <2>1. p[i] \in ToSet(p) /\ q[j] \in ToSet(q) BY <1>2 DEF ToSet
  <2> QED BY <2>1
<1>4. IsInjective(r)
  <2>1. \A i, j \in 1..Len(p) : p[i] = p[j] => i = j BY <1>2 DEF IsInjective
  <2>2. \A i, j \in 1..Len(q) : q[i] = q[j] => i = j BY <1>2 DEF IsInjective
  <2>3. ASSUME NEW i \in 1..(Len(p) + Len(q)), NEW j \in 1..(Len(p) + Len(q)),
               r[i] = r[j]
        PROVE  i = j
    <3>1. CASE i <= Len(p) /\ j <= Len(p) BY <1>1, <1>2, <2>1, <2>3, <3>1
    <3>2. CASE i <= Len(p) /\ ~(j <= Len(p))
      <4>1. j - Len(p) \in 1..Len(q) /\ i \in 1..Len(p) BY <1>2, <3>2
      <4> QED BY <1>1, <1>3, <2>3, <3>2, <4>1
    <3>3. CASE ~(i <= Len(p)) /\ j <= Len(p)
      <4>1. i - Len(p) \in 1..Len(q) /\ j \in 1..Len(p) BY <1>2, <3>3
      <4> QED BY <1>1, <1>3, <2>3, <3>3, <4>1
    <3>4. CASE ~(i <= Len(p)) /\ ~(j <= Len(p))
      <4>1. i - Len(p) \in 1..Len(q) /\ j - Len(p) \in 1..Len(q) BY <1>2, <3>4
      <4>2. i - Len(p) = j - Len(p) BY <1>1, <2>2, <2>3, <3>4, <4>1
      <4> QED BY <1>2, <4>2
    <3> QED BY <3>1, <3>2, <3>3, <3>4
  <2> QED BY <1>2, <2>3 DEF IsInjective
<1>5. ToSet(r) = ToSet(p) \cup ToSet(q)
  <2>1. ASSUME NEW i \in 1..(Len(p) + Len(q)) PROVE r[i] \in ToSet(p) \cup ToSet(q)
    <3>1. CASE i <= Len(p) BY <1>1, <1>2, <3>1 DEF ToSet
    <3>2. CASE ~(i <= Len(p))
      <4>1. i - Len(p) \in 1..Len(q) BY <1>2, <3>2
      <4> QED BY <1>1, <1>2, <3>2, <4>1 DEF ToSet
    <3> QED BY <3>1, <3>2
  <2>2. ToSet(p) \subseteq ToSet(r)
    <3>1. \A i \in 1..Len(p) : i \in 1..(Len(p) + Len(q)) /\ r[i] = p[i] BY <1>1, <1>2
    <3> QED BY <1>2, <3>1 DEF ToSet
  <2>3. ToSet(q) \subseteq ToSet(r)
    <3>1. \A j \in 1..Len(q) : /\ Len(p) + j \in 1..(Len(p) + Len(q))
                              /\ r[Len(p) + j] = q[j]
      <4>1. ASSUME NEW j \in 1..Len(q)
            PROVE  /\ Len(p) + j \in 1..(Len(p) + Len(q))
                   /\ ~(Len(p) + j <= Len(p)) /\ Len(p) + j - Len(p) = j
        BY <1>2
      <4> QED BY <1>1, <4>1
    <3> QED BY <1>2, <3>1 DEF ToSet
  <2> QED BY <1>2, <2>1, <2>2, <2>3 DEF ToSet
<1> QED BY <1>1, <1>4, <1>5 DEF r
-----------------------------------------------------------------------------
(* The inductive invariant *)

\* The ledger: what is queued is what is pending, and a lease that ran out was
\* the lease of a claim.
LedgerOK ==
    /\ record \in [Deliveries -> [state : States, attempts : 0..MaxAttempts]]
    /\ queue \in Seq(Deliveries) /\ IsInjective(queue)
    /\ ToSet(queue) = {d \in Deliveries : record[d].state = "pending"}
    /\ lapsed \subseteq {d \in Deliveries : record[d].state = "claimed"}
    /\ IsFiniteSet(lapsed)

\* The rest of the state has its types.
MemoryOK ==
    /\ muted \in BOOLEAN /\ subscribed \in BOOLEAN
    /\ loop \in [pc : {"off", "poll", "pause", "prepare", "feed"},
                 claim : Claims \cup {NoClaim}]
    /\ awaiting \subseteq Claims
    /\ inputs \in Seq(Claims)
    /\ calling \in {"no", "made", "seen"}
    /\ handler \in [pc : {"none", "reading", "sending", "sent"},
                    claim : Claims \cup {NoClaim}]
    /\ session \in {"live", "parked", "ended"}
    /\ heard \in [Deliveries -> Nat]
    /\ calls \in 0..MaxCalls /\ drops \in 0..MaxDrops /\ crashes \in 0..MaxCrashes

\* A claim that can still be acknowledged, or whose question was withdrawn.
Valid(c) == /\ record[c[1]].attempts = c[2]
            /\ record[c[1]].state \in {"claimed", "pending", "cancelled"}

\* One claim at a time is in somebody's hands: of the loop that prepares it, or
\* of the one delivery that is awaited, which is in one place on its way.
OneInHand ==
    /\ awaiting = {} \/ \E c \in Claims : awaiting = {c}
    /\ \A c \in awaiting : Valid(c)
    /\ loop.claim # NoClaim => Valid(loop.claim)
    /\ loop.pc \in {"off", "poll", "pause"} <=> loop.claim = NoClaim
    /\ loop.pc \in {"pause", "prepare"} => awaiting = {}
    /\ loop.pc = "feed" => /\ awaiting = {loop.claim} /\ inputs = <<>>
                           /\ handler.claim = NoClaim
    /\ inputs # <<>> => /\ Len(inputs) = 1 /\ inputs[1] \in awaiting
                        /\ handler.claim = NoClaim
    /\ handler.claim \in awaiting \cup {NoClaim}
    /\ handler.pc \in {"none", "reading"} => handler.claim = NoClaim
    /\ handler.pc = "none" <=> session # "live"
    /\ loop.pc = "off" <=> session = "ended"
    /\ session = "ended" => awaiting = {} /\ inputs = <<>>

\* A delivery that was said once more than the process died is over and in
\* nobody's hands, unless the handler is about to acknowledge it.
SpokenOf(d) ==
    \/ heard[d] <= crashes
    \/ /\ heard[d] = crashes + 1
       /\ \/ /\ record[d].state \in {"delivered", "cancelled"}
             /\ loop.claim[1] # d
             /\ \A c \in awaiting : c[1] # d
          \/ handler.pc = "sent" /\ handler.claim[1] = d

Spoken == \A d \in Deliveries : SpokenOf(d)

SentIsHeard ==
    handler.pc = "sent" /\ handler.claim # NoClaim => heard[handler.claim[1]] > 0

Told == /\ OneInHand /\ Spoken /\ SentIsHeard
        /\ ClaimAccounted /\ DeliveredIsHeard

IInv == LedgerOK /\ MemoryOK /\ Told

\* A claim names a delivery and an attempt; no claim is a claim of none.
LEMMA ClaimFacts ==
    /\ \A c \in Claims : /\ c[1] \in Deliveries /\ c[2] \in 1..MaxAttempts
                         /\ c = <<c[1], c[2]>>
    /\ \A d \in Deliveries, n \in 1..MaxAttempts : <<d, n>> \in Claims
    /\ NoClaim \notin Claims /\ NoClaim[1] \notin Deliveries
BY NoDeliveryAssumption DEF Claims, NoClaim

-----------------------------------------------------------------------------
(* The ledger's transactions *)

\* What may become of a row while the claims are in the same hands.
Row(d) ==
    /\ record'[d].attempts = record[d].attempts
    /\ \/ record'[d].state = record[d].state
       \/ record[d].state \in {"absent", "claimed"} /\ record'[d].state = "pending"
       \/ record[d].state \in {"pending", "claimed"} /\ record'[d].state = "cancelled"

\* What a write of one row does to the ledger.
LEMMA SetStateRows ==
    ASSUME LedgerOK, NEW d \in Deliveries,
           NEW s \in {"pending", "delivered", "cancelled"}, SetState(d, s)
    PROVE  /\ LedgerOK'
           /\ record'[d].state = s /\ record'[d].attempts = record[d].attempts
           /\ \A e \in Deliveries \ {d} : record'[e] = record[e]
<1>1. /\ record' \in [Deliveries -> [state : States, attempts : 0..MaxAttempts]]
      /\ record'[d].state = s /\ record'[d].attempts = record[d].attempts
      /\ \A e \in Deliveries \ {d} : record'[e] = record[e]
  BY DEF LedgerOK, SetState, States
<1>2. IsFiniteSet(lapsed') BY FS_RemoveElement DEF LedgerOK, SetState
<1>3. lapsed' \subseteq {e \in Deliveries : record'[e].state = "claimed"}
  BY <1>1 DEF LedgerOK, SetState
<1> DEFINE w == Without(queue, d)
<1>4. /\ w \in Seq(Deliveries) /\ IsInjective(w)
      /\ ToSet(w) = ToSet(queue) \ {d}
  BY WithoutOne DEF LedgerOK
<1>5. queue' = IF s = "pending" THEN Append(w, d) ELSE w
  BY DEF SetState
<1> HIDE DEF w
<1>6. CASE s = "pending"
  <2>1. /\ queue' \in Seq(Deliveries) /\ IsInjective(queue')
        /\ ToSet(queue') = ToSet(w) \cup {d}
    BY <1>4, <1>5, <1>6, AppendOne
  <2>2. ToSet(queue') = {e \in Deliveries : record'[e].state = "pending"}
    BY <1>1, <1>4, <1>6, <2>1 DEF LedgerOK
  <2> QED BY <1>1, <1>2, <1>3, <2>1, <2>2 DEF LedgerOK
<1>7. CASE s # "pending"
  <2>2. ToSet(queue') = {e \in Deliveries : record'[e].state = "pending"}
    BY <1>1, <1>4, <1>5, <1>7 DEF LedgerOK
  <2> QED BY <1>1, <1>2, <1>3, <1>4, <1>5, <1>7, <2>2 DEF LedgerOK
<1> QED BY <1>6, <1>7

\* The claims whose lease ran out are pending again, behind the others.
LEMMA RequeuedRows ==
    ASSUME LedgerOK
    PROVE  /\ Requeued \in Seq(Deliveries) /\ IsInjective(Requeued)
           /\ ToSet(Requeued) = ToSet(queue) \cup lapsed
<1>1. /\ SetToSeq(lapsed) \in Seq(lapsed) /\ IsInjective(SetToSeq(lapsed))
      /\ ToSet(SetToSeq(lapsed)) = lapsed
  BY SetInOrder DEF LedgerOK
<1>2. SetToSeq(lapsed) \in Seq(Deliveries)
  BY <1>1, SeqMonotonic DEF LedgerOK
<1>3. ToSet(queue) \cap ToSet(SetToSeq(lapsed)) = {}
  BY <1>1 DEF LedgerOK
<1>4. queue \in Seq(Deliveries) /\ IsInjective(queue) BY DEF LedgerOK
<1> QED BY <1>1, <1>2, <1>3, <1>4, ConcatBoth DEF Requeued

\* What the return of the lapsed leases does to the ledger.
LEMMA RequeueRows ==
    ASSUME LedgerOK, lapsed' = {}, queue' = Requeued,
           record' = [d \in Deliveries |->
                        IF d \in lapsed THEN [record[d] EXCEPT !.state = "pending"]
                                        ELSE record[d]]
    PROVE  LedgerOK' /\ \A d \in Deliveries : Row(d)
<1>1. ASSUME NEW d \in Deliveries
      PROVE  /\ record'[d] \in [state : States, attempts : 0..MaxAttempts]
             /\ Row(d)
             /\ record'[d].state = "pending"
                  <=> (record[d].state = "pending" \/ d \in lapsed)
  BY DEF LedgerOK, States, Row
<1>2. record' \in [Deliveries -> [state : States, attempts : 0..MaxAttempts]]
  BY <1>1
<1>3. ToSet(queue') = {d \in Deliveries : record'[d].state = "pending"}
  BY <1>1, RequeuedRows DEF LedgerOK
<1>4. IsFiniteSet({}) BY FS_EmptySet
<1> QED BY <1>1, <1>2, <1>3, <1>4, RequeuedRows DEF LedgerOK

\* A claim takes one of the pending rows, counts the attempt, and leaves the
\* others pending that were.
LEMMA ClaimRows ==
    ASSUME LedgerOK, NEW d \in ToSet(Requeued), Claim(d)
    PROVE  /\ LedgerOK'
           /\ d \in Deliveries /\ record[d].state \in {"pending", "claimed"}
           /\ record'[d].state = "claimed"
           /\ record'[d].attempts = record[d].attempts + 1
           /\ record'[d].attempts \in 1..MaxAttempts
           /\ loop' = [pc |-> "prepare", claim |-> <<d, record'[d].attempts>>]
           /\ \A e \in Deliveries \ {d} : Row(e)
<1>1. d \in Deliveries /\ record[d].state \in {"pending", "claimed"}
  BY RequeuedRows DEF LedgerOK
<1>2. /\ record' = [e \in Deliveries |->
                     IF e = d THEN [state |-> "claimed",
                                    attempts |-> record[e].attempts + 1]
                     ELSE IF e \in lapsed
                     THEN [record[e] EXCEPT !.state = "pending"]
                     ELSE record[e]]
      /\ record[d].attempts < MaxAttempts /\ MaxAttempts \in Nat
      /\ record[d].attempts \in 0..MaxAttempts
  BY <1>1, BoundsAssumption DEF Claim, LedgerOK
<1>3. /\ record'[d] = [state |-> "claimed", attempts |-> record[d].attempts + 1]
      /\ record[d].attempts + 1 \in 1..MaxAttempts
  BY <1>1, <1>2
<1>4. ASSUME NEW e \in Deliveries \ {d}
      PROVE  /\ record'[e] \in [state : States, attempts : 0..MaxAttempts]
             /\ Row(e)
             /\ record'[e].state = "pending"
                  <=> (record[e].state = "pending" \/ e \in lapsed)
  BY <1>2 DEF LedgerOK, States, Row
<1>5. record' \in [Deliveries -> [state : States, attempts : 0..MaxAttempts]]
  BY <1>2, <1>3, <1>4 DEF States
<1>6. /\ queue' \in Seq(Deliveries) /\ IsInjective(queue')
      /\ ToSet(queue') = ToSet(Requeued) \ {d}
  BY RequeuedRows, WithoutOne DEF Claim
<1>7. ToSet(queue') = {e \in Deliveries : record'[e].state = "pending"}
  BY <1>3, <1>4, <1>6, RequeuedRows DEF LedgerOK
<1>8. lapsed' = {} /\ IsFiniteSet(lapsed') BY FS_EmptySet DEF Claim
<1> QED BY <1>1, <1>3, <1>4, <1>5, <1>6, <1>7, <1>8 DEF LedgerOK, Claim
-----------------------------------------------------------------------------
(* What was told, and who holds the claims *)

\* The claims stay in the same hands while rows move: the loop may go back to
\* its poll, or wait for a pause when nothing is awaited.
SameHands ==
    /\ UNCHANGED <<awaiting, inputs, handler, session, heard, crashes>>
    /\ loop'.claim = loop.claim
    /\ \/ loop'.pc = loop.pc
       \/ loop.pc \in {"poll", "pause"} /\ loop'.pc = "poll"
       \/ loop.pc = "poll" /\ loop'.pc = "pause" /\ awaiting = {}

\* A step that hands nothing over keeps what is told of the deliveries.
LEMMA RowsMove ==
    ASSUME LedgerOK, MemoryOK, Told, \A d \in Deliveries : Row(d), SameHands
    PROVE  Told'
<1> USE ClaimFacts DEF Told
<1>1. ASSUME NEW c \in Claims, Valid(c) PROVE Valid(c)'
  BY <1>1 DEF Valid, Row
<1>2. awaiting \subseteq Claims /\ loop.claim \in Claims \cup {NoClaim}
  BY DEF MemoryOK
<1>3. OneInHand'
  BY <1>1, <1>2 DEF OneInHand, SameHands
<1>4. Spoken'
  <2> SUFFICES ASSUME NEW d \in Deliveries PROVE SpokenOf(d)' BY DEF Spoken
  <2>1. SpokenOf(d) /\ Row(d) BY DEF Spoken
  <2> QED BY <2>1 DEF SpokenOf, Row, SameHands
<1>5. SentIsHeard' BY DEF SentIsHeard, SameHands
<1>6. ClaimAccounted'
  <2> SUFFICES ASSUME crashes = 0, NEW d \in Deliveries, record'[d].state = "claimed"
               PROVE  <<d, record'[d].attempts>> \in awaiting \cup {loop.claim}
    BY DEF ClaimAccounted, SameHands
  <2>1. record[d].state = "claimed" /\ record'[d].attempts = record[d].attempts
    BY DEF Row
  <2> QED BY <2>1 DEF ClaimAccounted
<1>7. DeliveredIsHeard'
  <2> SUFFICES ASSUME NEW d \in Deliveries, record'[d].state = "delivered"
               PROVE  heard[d] > 0
    BY DEF DeliveredIsHeard, SameHands
  <2>1. record[d].state = "delivered" BY DEF Row
  <2> QED BY <2>1 DEF DeliveredIsHeard
<1> QED BY <1>3, <1>4, <1>5, <1>6, <1>7

\* A claim is made while nobody holds one, and of a delivery that was not said
\* since the process died last.
LEMMA ClaimTold ==
    ASSUME LedgerOK, MemoryOK, Told, loop.pc \in {"poll", "pause"}, awaiting = {},
           NEW d \in ToSet(Requeued), Claim(d),
           UNCHANGED <<awaiting, inputs, handler, session, heard, crashes>>
    PROVE  Told'
<1> USE ClaimFacts DEF Told
<1>1. /\ d \in Deliveries /\ record[d].state \in {"pending", "claimed"}
      /\ record'[d].state = "claimed" /\ record'[d].attempts \in 1..MaxAttempts
      /\ loop' = [pc |-> "prepare", claim |-> <<d, record'[d].attempts>>]
      /\ \A e \in Deliveries \ {d} : Row(e)
  BY ClaimRows
<1>2. PICK k \in Claims : /\ k[1] = d /\ k[2] = record'[d].attempts
                           /\ k = <<d, record'[d].attempts>>
                           /\ loop'.pc = "prepare" /\ loop'.claim = k
  <2>1. <<d, record'[d].attempts>> \in Claims BY <1>1
  <2> QED BY <1>1, <2>1
<1>3. inputs = <<>> /\ handler.claim = NoClaim /\ loop.claim = NoClaim
  BY DEF OneInHand
<1>4. OneInHand'
  <2>1. Valid(k)' BY <1>1, <1>2 DEF Valid
  <2> QED BY <1>1, <1>2, <1>3, <2>1 DEF OneInHand
<1>5. Spoken'
  <2> SUFFICES ASSUME NEW e \in Deliveries PROVE SpokenOf(e)' BY DEF Spoken
  <2>1. SpokenOf(e) BY DEF Spoken
  <2>2. CASE e = d
    BY <1>1, <1>3, <2>1, <2>2 DEF SpokenOf
  <2>3. CASE e # d
    <3>1. Row(e) BY <1>1, <2>3
    <3> QED BY <1>1, <1>2, <1>3, <2>1, <2>3, <3>1 DEF SpokenOf, Row
  <2> QED BY <2>2, <2>3
<1>6. SentIsHeard' BY DEF SentIsHeard
<1>7. ClaimAccounted'
  <2> SUFFICES ASSUME crashes = 0, NEW e \in Deliveries, record'[e].state = "claimed"
               PROVE  <<e, record'[e].attempts>> \in awaiting \cup {loop'.claim}
    BY DEF ClaimAccounted
  <2>1. CASE e = d BY <1>2, <2>1
  <2>2. CASE e # d
    <3>1. record[e].state = "claimed" /\ record'[e].attempts = record[e].attempts
      BY <1>1, <2>2 DEF Row
    <3>2. <<e, record[e].attempts>> = NoClaim
      BY <1>3, <3>1 DEF ClaimAccounted
    <3>3. <<e, record[e].attempts>>[1] = e OBVIOUS
    <3> QED BY <3>2, <3>3
  <2> QED BY <2>1, <2>2
<1>8. DeliveredIsHeard'
  <2> SUFFICES ASSUME NEW e \in Deliveries, record'[e].state = "delivered"
               PROVE  heard[e] > 0
    BY DEF DeliveredIsHeard
  <2>1. record[e].state = "delivered" BY <1>1 DEF Row
  <2> QED BY <2>1 DEF DeliveredIsHeard
<1> QED BY <1>4, <1>5, <1>6, <1>7, <1>8

\* A claim that is given back is of a row that was claimed or pending, which is
\* pending after it; a withdrawn one is left alone.
LEMMA ReleaseRows ==
    ASSUME LedgerOK, NEW c \in Claims \cup {NoClaim}, Release(c), c # NoClaim => Valid(c)
    PROVE  /\ LedgerOK'
           /\ \A d \in Deliveries : Row(d)
           /\ c # NoClaim => record'[c[1]].state # "claimed"
<1> USE ClaimFacts
<1>1. CASE c # NoClaim /\ Matches(c)
  <2>1. SetState(c[1], "pending") /\ c[1] \in Deliveries
    BY <1>1 DEF Release
  <2>2. /\ LedgerOK'
        /\ record'[c[1]].state = "pending"
        /\ record'[c[1]].attempts = record[c[1]].attempts
        /\ \A e \in Deliveries \ {c[1]} : record'[e] = record[e]
    BY <2>1, SetStateRows
  <2>3. record[c[1]].state \in {"claimed", "pending"} BY <1>1 DEF Matches
  <2> QED BY <2>1, <2>2, <2>3 DEF Row
<1>2. CASE ~(c # NoClaim /\ Matches(c))
  <2>1. UNCHANGED <<record, queue, lapsed>> BY <1>2 DEF Release, ledger
  <2>2. c # NoClaim => record[c[1]].state # "claimed"
    BY <1>2 DEF Valid, Matches
  <2> QED BY <2>1, <2>2 DEF LedgerOK, Row
<1> QED BY <1>1, <1>2

\* The loop gives its claim back and polls again.
LEMMA LoopReleases ==
    ASSUME IInv, loop.pc \in {"prepare", "feed"}, Release(loop.claim),
           loop' = Polling, awaiting' = awaiting \ {loop.claim},
           UNCHANGED <<inputs, handler, session, heard, crashes>>
    PROVE  LedgerOK' /\ Told'
<1> USE ClaimFacts DEF IInv, Told
<1>1. /\ loop.claim \in Claims /\ Valid(loop.claim)
      /\ inputs = <<>> /\ handler.claim = NoClaim /\ awaiting' = {}
      /\ \A k \in awaiting : k = loop.claim
  BY DEF OneInHand, MemoryOK
<1>2. /\ LedgerOK' /\ \A d \in Deliveries : Row(d)
      /\ record'[loop.claim[1]].state # "claimed"
  BY <1>1, ReleaseRows
<1>3. loop'.pc = "poll" /\ loop'.claim = NoClaim BY DEF Polling
<1>4. OneInHand' BY <1>1, <1>3 DEF OneInHand
<1>5. Spoken'
  <2> SUFFICES ASSUME NEW d \in Deliveries PROVE SpokenOf(d)' BY DEF Spoken
  <2>1. SpokenOf(d) /\ Row(d) BY <1>2 DEF Spoken
  <2> QED BY <1>1, <1>3, <2>1 DEF SpokenOf, Row
<1>6. SentIsHeard' BY DEF SentIsHeard
<1>7. ClaimAccounted'
  <2> SUFFICES ASSUME crashes = 0, NEW d \in Deliveries, record'[d].state = "claimed"
               PROVE  FALSE
    BY DEF ClaimAccounted
  <2>1. record[d].state = "claimed" BY <1>2 DEF Row
  <2>2. <<d, record[d].attempts>> = loop.claim BY <1>1, <2>1 DEF ClaimAccounted
  <2>3. loop.claim[1] = d BY <2>2
  <2> QED BY <1>2, <2>3
<1>8. DeliveredIsHeard'
  <2> SUFFICES ASSUME NEW d \in Deliveries, record'[d].state = "delivered"
               PROVE  heard[d] > 0
    BY DEF DeliveredIsHeard
  <2>1. record[d].state = "delivered" BY <1>2 DEF Row
  <2> QED BY <2>1 DEF DeliveredIsHeard
<1> QED BY <1>2, <1>4, <1>5, <1>6, <1>7, <1>8

\* Everything in memory ends: what was claimed is given back, or the process died.
LEMMA EndTold ==
    ASSUME IInv, NEW c \in Claims \cup {NoClaim}, End(c), c # NoClaim => Valid(c),
           \/ crashes' = crashes + 1
           \/ /\ crashes' = crashes
              /\ \A k \in awaiting \cup {loop.claim} : k \in {c, NoClaim}
              /\ handler.pc = "sent" /\ handler.claim # NoClaim
                   => record[handler.claim[1]].state = "cancelled"
    PROVE  LedgerOK' /\ Told'
<1> USE ClaimFacts DEF IInv, Told
<1>1. /\ LedgerOK' /\ \A d \in Deliveries : Row(d)
      /\ c # NoClaim => record'[c[1]].state # "claimed"
  BY ReleaseRows DEF End
<1>2. /\ session' = "ended" /\ loop'.pc = "off" /\ loop'.claim = NoClaim
      /\ handler'.pc = "none" /\ handler'.claim = NoClaim
      /\ awaiting' = {} /\ inputs' = <<>> /\ heard' = heard
      /\ crashes \in Nat /\ heard \in [Deliveries -> Nat]
  BY DEF End, Gone, MemoryOK
<1>3. OneInHand' BY <1>2 DEF OneInHand
<1>4. Spoken'
  <2> SUFFICES ASSUME NEW d \in Deliveries PROVE SpokenOf(d)' BY DEF Spoken
  <2>1. SpokenOf(d) /\ Row(d) BY <1>1 DEF Spoken
  <2>2. CASE crashes' = crashes + 1
    BY <1>2, <2>1, <2>2 DEF SpokenOf
  <2>3. CASE crashes' = crashes
    <3>1. CASE handler.pc = "sent" /\ handler.claim[1] = d
      <4>1. record[d].state = "cancelled" /\ record'[d].state = "cancelled"
        BY <1>2, <2>1, <2>3, <3>1 DEF Row
      <4> QED BY <1>2, <2>1, <2>3, <4>1 DEF SpokenOf
    <3> QED BY <1>2, <2>1, <2>3, <3>1 DEF SpokenOf, Row
  <2> QED BY <2>2, <2>3
<1>5. SentIsHeard' BY <1>2 DEF SentIsHeard
<1>6. ClaimAccounted'
  <2> SUFFICES ASSUME crashes' = 0, NEW d \in Deliveries, record'[d].state = "claimed"
               PROVE  FALSE
    BY DEF ClaimAccounted
  <2>1. crashes = 0 /\ \A k \in awaiting \cup {loop.claim} : k \in {c, NoClaim}
    BY <1>2
  <2>2. record[d].state = "claimed" BY <1>1 DEF Row
  <2>3. <<d, record[d].attempts>> \in {c, NoClaim}
    BY <2>1, <2>2 DEF ClaimAccounted
  <2>4. <<d, record[d].attempts>>[1] = d OBVIOUS
  <2>5. <<d, record[d].attempts>> # NoClaim BY <2>4
  <2>6. c # NoClaim /\ c[1] = d BY <2>3, <2>4, <2>5
  <2> QED BY <1>1, <2>6
<1>7. DeliveredIsHeard'
  <2> SUFFICES ASSUME NEW d \in Deliveries, record'[d].state = "delivered"
               PROVE  heard[d] > 0
    BY <1>2 DEF DeliveredIsHeard
  <2>1. record[d].state = "delivered" BY <1>1 DEF Row
  <2> QED BY <2>1 DEF DeliveredIsHeard
<1> QED BY <1>1, <1>3, <1>4, <1>5, <1>6, <1>7

\* The delivery that was sent is acknowledged: nobody holds its claim any more.
LEMMA AcknowledgeTold ==
    ASSUME IInv, Acknowledge PROVE LedgerOK' /\ Told'
<1> USE ClaimFacts DEF IInv, Told
<1> DEFINE c == handler.claim
<1>0. /\ handler.pc = "sent" /\ UNCHANGED crashes
      /\ c \in Claims \cup {NoClaim} /\ crashes \in Nat
      /\ c # NoClaim => /\ c \in awaiting /\ Valid(c) /\ loop.claim = NoClaim
                        /\ inputs = <<>> /\ \A k \in awaiting : k = c
  BY DEF Acknowledge, bounds, MemoryOK, OneInHand
<1>1. CASE c = NoClaim
  <2>1. /\ UNCHANGED <<record, queue, lapsed, loop, inputs, session, heard, awaiting>>
        /\ handler'.pc = "reading" /\ handler'.claim = NoClaim
    <3>1. /\ UNCHANGED ledger /\ UNCHANGED <<loop, inputs, session, heard>>
          /\ awaiting' = awaiting \ {NoClaim} /\ handler' = Reading
      BY <1>1 DEF Acknowledge
    <3>2. awaiting \ {NoClaim} = awaiting BY DEF MemoryOK
    <3> QED BY <3>1, <3>2 DEF ledger, Reading
  <2>2. LedgerOK' BY <2>1 DEF LedgerOK
  <2>3. OneInHand' BY <1>0, <1>1, <2>1 DEF OneInHand, Valid
  <2>4. Spoken'
    <3> SUFFICES ASSUME NEW d \in Deliveries PROVE SpokenOf(d)' BY DEF Spoken
    <3>1. SpokenOf(d) BY DEF Spoken
    <3> QED BY <1>0, <1>1, <2>1, <3>1 DEF SpokenOf
  <2>5. SentIsHeard' BY <2>1 DEF SentIsHeard
  <2>6. ClaimAccounted' BY <1>0, <2>1 DEF ClaimAccounted
  <2>7. DeliveredIsHeard' BY <2>1 DEF DeliveredIsHeard
  <2> QED BY <2>2, <2>3, <2>4, <2>5, <2>6, <2>7
<1>2. CASE c # NoClaim /\ Matches(c)
  <2>1. /\ SetState(c[1], "delivered") /\ c[1] \in Deliveries
        /\ UNCHANGED <<loop, inputs, session, heard>>
        /\ awaiting' = {}
        /\ handler'.pc = "reading" /\ handler'.claim = NoClaim
    BY <1>2, <1>0 DEF Acknowledge, Reading
  <2>2. /\ LedgerOK'
        /\ record'[c[1]].state = "delivered"
        /\ record'[c[1]].attempts = record[c[1]].attempts
        /\ \A e \in Deliveries \ {c[1]} : record'[e] = record[e]
    BY <2>1, SetStateRows
  <2>3. OneInHand'
    BY <1>0, <1>2, <2>1 DEF OneInHand
  <2>4. Spoken'
    <3> SUFFICES ASSUME NEW d \in Deliveries PROVE SpokenOf(d)' BY DEF Spoken
    <3>1. SpokenOf(d) BY DEF Spoken
    <3>2. CASE d = c[1] BY <1>0, <1>2, <2>1, <2>2, <3>1, <3>2 DEF SpokenOf
    <3>3. CASE d # c[1] BY <1>0, <1>2, <2>1, <2>2, <3>1, <3>3 DEF SpokenOf
    <3> QED BY <3>2, <3>3
  <2>5. SentIsHeard' BY <2>1 DEF SentIsHeard
  <2>6. ClaimAccounted'
    <3> SUFFICES ASSUME crashes = 0, NEW d \in Deliveries, record'[d].state = "claimed"
                 PROVE  FALSE
      BY <1>0 DEF ClaimAccounted
    <3>1. d # c[1] /\ record[d].state = "claimed" BY <2>2
    <3>2. <<d, record[d].attempts>> \in {c, NoClaim}
      BY <1>0, <1>2, <3>1 DEF ClaimAccounted
    <3>3. <<d, record[d].attempts>>[1] = d OBVIOUS
    <3> QED BY <3>1, <3>2, <3>3
  <2>7. DeliveredIsHeard'
    <3> SUFFICES ASSUME NEW d \in Deliveries, record'[d].state = "delivered"
                 PROVE  heard[d] > 0
      BY <2>1 DEF DeliveredIsHeard
    <3>1. CASE d = c[1] BY <1>0, <1>2, <3>1 DEF SentIsHeard
    <3>2. CASE d # c[1] BY <2>2, <3>2 DEF DeliveredIsHeard
    <3> QED BY <3>1, <3>2
  <2> QED BY <2>2, <2>3, <2>4, <2>5, <2>6, <2>7
<1>3. CASE c # NoClaim /\ ~Matches(c)
  <2>1. End(c) BY <1>3, <1>0 DEF Acknowledge
  <2>2. record[c[1]].state = "cancelled" BY <1>0, <1>3 DEF Valid, Matches
  <2>3. \A k \in awaiting \cup {loop.claim} : k \in {c, NoClaim} BY <1>0, <1>3
  <2> QED BY <1>0, <1>3, <2>1, <2>2, <2>3, EndTold
<1> QED BY <1>1, <1>2, <1>3
-----------------------------------------------------------------------------
(* Every step *)

\* The gateway's rows and directives, and the lease of a claim.
LEMMA GatewayTold ==
    ASSUME IInv,
           \/ \E d \in Deliveries : Enqueue(d) \/ CancelQuestion(d) \/ Lapse(d)
           \/ Directive \/ CallAnswered
    PROVE  LedgerOK' /\ Told'
<1> USE DEF IInv
<1>1. ASSUME NEW d \in Deliveries, Enqueue(d) \/ CancelQuestion(d)
      PROVE  LedgerOK' /\ Told'
  <2>1. SameHands
    BY <1>1 DEF Enqueue, CancelQuestion, SameHands, bounds
  <2>2. PICK s \in {"pending", "cancelled"} :
          /\ SetState(d, s)
          /\ \/ s = "pending" /\ record[d].state = "absent"
             \/ s = "cancelled" /\ record[d].state \in {"pending", "claimed"}
    BY <1>1 DEF Enqueue, CancelQuestion
  <2>3. /\ LedgerOK'
        /\ record'[d].state = s /\ record'[d].attempts = record[d].attempts
        /\ \A e \in Deliveries \ {d} : record'[e] = record[e]
    BY <2>2, SetStateRows
  <2>4. \A e \in Deliveries : Row(e) BY <2>2, <2>3 DEF Row
  <2> QED BY <2>1, <2>3, <2>4, RowsMove
<1>2. ASSUME NEW d \in Deliveries, Lapse(d) PROVE LedgerOK' /\ Told'
  <2>1. SameHands BY <1>2 DEF Lapse, SameHands, bounds
  <2>2. LedgerOK' BY <1>2, FS_AddElement DEF Lapse, LedgerOK
  <2>3. \A e \in Deliveries : Row(e) BY <1>2 DEF Lapse, Row
  <2> QED BY <2>1, <2>2, <2>3, RowsMove
<1>3. CASE Directive \/ CallAnswered
  <2>1. SameHands BY <1>3 DEF Directive, CallAnswered, SameHands, bounds
  <2>2. LedgerOK' /\ \A e \in Deliveries : Row(e)
    BY <1>3 DEF Directive, CallAnswered, LedgerOK, Row, ledger
  <2> QED BY <2>1, <2>2, RowsMove
<1> QED BY <1>1, <1>2, <1>3

\* A claim of the loop is of a row that is listed.
LEMMA ClaimFirstTold ==
    ASSUME IInv, loop.pc \in {"poll", "pause"}, awaiting = {}, ClaimFirst,
           UNCHANGED <<awaiting, inputs, handler, session, heard, crashes>>
    PROVE  LedgerOK' /\ Told'
<1>1. PICK n \in DOMAIN Requeued : Claim(Requeued[n]) BY DEF ClaimFirst
<1>2. Requeued[n] \in ToSet(Requeued) BY DEF ToSet
<1> QED BY <1>1, <1>2, ClaimTold, ClaimRows DEF IInv

\* The poll of the delivery loop claims what nobody holds.
LEMMA PollTold == ASSUME IInv, Poll PROVE LedgerOK' /\ Told'
<1> USE DEF IInv
<1>1. /\ loop.pc = "poll"
      /\ UNCHANGED <<awaiting, inputs, handler, session, heard, crashes>>
  BY DEF Poll, bounds
<1>2. CASE ~Busy /\ ClaimFirst
  <2>1. awaiting = {} BY <1>2 DEF Busy
  <2> QED BY <1>1, <1>2, <2>1, ClaimFirstTold
<1>3. CASE /\ record' = [d \in Deliveries |->
                           IF d \in lapsed THEN [record[d] EXCEPT !.state = "pending"]
                                           ELSE record[d]]
           /\ queue' = Requeued /\ lapsed' = {}
           /\ UNCHANGED loop \/ (~Busy /\ loop' = [loop EXCEPT !.pc = "pause"])
  <2>1. LedgerOK' /\ \A e \in Deliveries : Row(e) BY <1>3, RequeueRows
  <2>2. SameHands
    <3>1. CASE UNCHANGED loop BY <1>1, <3>1 DEF SameHands
    <3>2. CASE ~Busy /\ loop' = [loop EXCEPT !.pc = "pause"]
      BY <1>1, <3>2 DEF SameHands, Busy, MemoryOK
    <3> QED BY <1>3, <3>1, <3>2
  <2> QED BY <2>1, <2>2, RowsMove
<1> QED BY <1>2, <1>3 DEF Poll

\* The pause of the loop leaves the claims alone.
LEMMA PauseTold == ASSUME IInv, Pause \/ NoPause PROVE LedgerOK' /\ Told'
<1> USE DEF IInv
<1>1. /\ loop.pc = "pause" /\ awaiting = {} /\ loop.claim = NoClaim
      /\ UNCHANGED <<awaiting, inputs, handler, session, heard, crashes>>
  BY DEF Pause, NoPause, bounds, Told, OneInHand
<1>2. CASE ClaimFirst BY <1>1, <1>2, ClaimFirstTold
<1>3. CASE loop' = Polling /\ UNCHANGED ledger
  <2>1. LedgerOK' /\ \A e \in Deliveries : Row(e)
    BY <1>3 DEF LedgerOK, Row, ledger
  <2>2. SameHands BY <1>1, <1>3 DEF SameHands, Polling
  <2> QED BY <2>1, <2>2, RowsMove
<1> QED BY <1>2, <1>3 DEF Pause, NoPause

\* The claim goes from the loop to what is awaited, or is given back.
LEMMA PrepareTold == ASSUME IInv, Prepare PROVE LedgerOK' /\ Told'
<1> USE ClaimFacts DEF IInv, Told
<1>1. /\ loop.pc = "prepare" /\ awaiting = {}
      /\ UNCHANGED <<inputs, handler, session, heard, crashes>>
  BY DEF Prepare, bounds, OneInHand
<1>2. CASE Release(loop.claim) /\ loop' = Polling /\ UNCHANGED awaiting
  BY <1>1, <1>2, LoopReleases
<1>3. CASE /\ loop' = [loop EXCEPT !.pc = "feed"]
           /\ awaiting' = awaiting \cup {loop.claim}
           /\ UNCHANGED ledger
  <2>1. /\ loop'.pc = "feed" /\ loop'.claim = loop.claim
        /\ awaiting' = {loop.claim} /\ loop.claim \in Claims
        /\ UNCHANGED <<record, queue, lapsed>>
    BY <1>1, <1>3 DEF MemoryOK, ledger, OneInHand
  <2>2. LedgerOK' BY <2>1 DEF LedgerOK
  <2>3. OneInHand'
    <3>1. /\ inputs = <<>> /\ handler.claim = NoClaim /\ Valid(loop.claim)
      BY <1>1, <2>1 DEF OneInHand
    <3>2. \A k \in awaiting' : k = loop.claim BY <2>1
    <3> QED BY <1>1, <2>1, <3>1, <3>2 DEF OneInHand, Valid
  <2>4. Spoken' BY <1>1, <2>1 DEF Spoken, SpokenOf
  <2>5. SentIsHeard' BY <1>1 DEF SentIsHeard
  <2>6. ClaimAccounted' BY <1>1, <2>1 DEF ClaimAccounted
  <2>7. DeliveredIsHeard' BY <1>1, <2>1 DEF DeliveredIsHeard
  <2> QED BY <2>2, <2>3, <2>4, <2>5, <2>6, <2>7
<1> QED BY <1>2, <1>3 DEF Prepare

\* The input is queued in the session, or refused.
LEMMA FeedTold == ASSUME IInv, Feed PROVE LedgerOK' /\ Told'
<1> USE ClaimFacts DEF IInv, Told
<1>1. /\ loop.pc = "feed" /\ loop' = Polling
      /\ UNCHANGED <<handler, session, heard, crashes>>
      /\ awaiting = {loop.claim} /\ inputs = <<>> /\ handler.claim = NoClaim
      /\ loop.claim \in Claims
  BY DEF Feed, bounds, OneInHand, MemoryOK
<1>2. CASE /\ Release(loop.claim) /\ awaiting' = awaiting \ {loop.claim}
           /\ UNCHANGED inputs
  BY <1>1, <1>2, LoopReleases
<1>3. CASE /\ inputs' = Append(inputs, loop.claim)
           /\ UNCHANGED <<ledger, awaiting>>
  <2>1. /\ UNCHANGED <<record, queue, lapsed>> /\ UNCHANGED awaiting
        /\ Len(inputs') = 1 /\ inputs'[1] = loop.claim
        /\ loop'.pc = "poll" /\ loop'.claim = NoClaim
    BY <1>1, <1>3 DEF ledger, Polling
  <2>2. LedgerOK' BY <2>1 DEF LedgerOK
  <2>3. OneInHand' BY <1>1, <2>1 DEF OneInHand, Valid
  <2>4. Spoken' BY <1>1, <2>1 DEF Spoken, SpokenOf
  <2>5. SentIsHeard' BY <1>1 DEF SentIsHeard
  <2>6. ClaimAccounted' BY <1>1, <2>1 DEF ClaimAccounted
  <2>7. DeliveredIsHeard' BY <1>1, <2>1 DEF DeliveredIsHeard
  <2> QED BY <2>2, <2>3, <2>4, <2>5, <2>6, <2>7
<1> QED BY <1>2, <1>3 DEF Feed

\* The claim travels with the model's event to the handler.
LEMMA UnitTold == ASSUME IInv, Unit PROVE LedgerOK' /\ Told'
<1> USE ClaimFacts DEF IInv, Told
<1>1. /\ handler.pc = "reading" /\ handler.claim = NoClaim
      /\ handler'.pc = "sending"
      /\ handler'.claim = IF inputs = <<>> THEN NoClaim ELSE Head(inputs)
      /\ inputs' = IF inputs = <<>> THEN inputs ELSE Tail(inputs)
      /\ UNCHANGED <<record, queue, lapsed, loop, awaiting, session, heard, crashes>>
  BY DEF Unit, ledger, Reading
<1>2. LedgerOK' BY <1>1 DEF LedgerOK
<1>3. OneInHand'
  <2>1. CASE inputs = <<>> BY <1>1, <2>1 DEF OneInHand, Valid
  <2>2. CASE inputs # <<>>
    <3>1. /\ Len(inputs) = 1 /\ inputs[1] \in awaiting /\ inputs \in Seq(Claims)
          /\ loop.pc # "feed"
      BY <2>2 DEF OneInHand, MemoryOK
    <3>2. Head(inputs) = inputs[1] /\ Tail(inputs) = <<>> BY <2>2, <3>1
    <3> QED BY <1>1, <2>2, <3>1, <3>2 DEF OneInHand, Valid
  <2> QED BY <2>1, <2>2
<1>4. Spoken' BY <1>1 DEF Spoken, SpokenOf
<1>5. SentIsHeard' BY <1>1 DEF SentIsHeard
<1>6. ClaimAccounted' BY <1>1 DEF ClaimAccounted
<1>7. DeliveredIsHeard' BY <1>1 DEF DeliveredIsHeard
<1> QED BY <1>2, <1>3, <1>4, <1>5, <1>6, <1>7

\* The event is sent: what it says was not said before, unless the process died.
LEMMA SendTold == ASSUME IInv, Send PROVE LedgerOK' /\ Told'
<1> USE ClaimFacts DEF IInv, Told
<1> DEFINE c == handler.claim
<1>1. /\ handler.pc = "sending" /\ handler'.pc = "sent" /\ handler'.claim = c
      /\ heard' = IF c = NoClaim THEN heard ELSE [heard EXCEPT ![c[1]] = @ + 1]
      /\ UNCHANGED <<record, queue, lapsed, loop, awaiting, inputs, session, crashes>>
      /\ c \in awaiting \cup {NoClaim} /\ awaiting \subseteq Claims
      /\ heard \in [Deliveries -> Nat] /\ crashes \in Nat
  BY DEF Send, ledger, bounds, MemoryOK, OneInHand
<1>2. LedgerOK' BY <1>1 DEF LedgerOK
<1>3. OneInHand' BY <1>1 DEF OneInHand, Valid
<1> HIDE DEF c
<1>4. Spoken'
  <2> SUFFICES ASSUME NEW d \in Deliveries PROVE SpokenOf(d)' BY DEF Spoken
  <2>1. SpokenOf(d) BY DEF Spoken
  <2>2. CASE c # NoClaim /\ c[1] = d
    <3>1. heard[d] <= crashes BY <1>1, <2>1, <2>2 DEF SpokenOf
    <3>2. heard'[d] = heard[d] + 1 /\ heard[d] \in Nat BY <1>1, <2>2
    <3>3. heard'[d] <= crashes \/ heard'[d] = crashes + 1 BY <1>1, <3>1, <3>2
    <3> QED BY <1>1, <2>2, <3>3 DEF SpokenOf
  <2>3. CASE ~(c # NoClaim /\ c[1] = d)
    <3>1. heard'[d] = heard[d] BY <1>1, <2>3
    <3> QED BY <1>1, <2>1, <3>1 DEF SpokenOf
  <2> QED BY <2>2, <2>3
<1>5. SentIsHeard'
  <2>1. CASE c # NoClaim
    <3>1. c[1] \in Deliveries /\ heard'[c[1]] = heard[c[1]] + 1 /\ heard[c[1]] \in Nat
      BY <1>1, <2>1
    <3> QED BY <1>1, <3>1 DEF SentIsHeard
  <2> QED BY <1>1, <2>1 DEF SentIsHeard
<1>6. ClaimAccounted' BY <1>1 DEF ClaimAccounted
<1>7. DeliveredIsHeard'
  <2> SUFFICES ASSUME NEW d \in Deliveries, record[d].state = "delivered"
               PROVE  heard'[d] > 0
    BY <1>1 DEF DeliveredIsHeard
  <2>1. heard[d] > 0 /\ heard[d] \in Nat /\ heard'[d] \in {heard[d], heard[d] + 1}
    BY <1>1 DEF DeliveredIsHeard
  <2> QED BY <2>1
<1> QED BY <1>2, <1>3, <1>4, <1>5, <1>6, <1>7

\* Sockets drop, and sessions resume or open: the claims stay where they are.
LEMMA SocketTold == ASSUME IInv, Drop \/ Resume \/ Reopen PROVE LedgerOK' /\ Told'
<1> USE ClaimFacts DEF IInv, Told
<1>1. /\ UNCHANGED <<record, queue, lapsed, awaiting, inputs, heard, crashes>>
      /\ handler.pc # "sent" /\ handler'.claim = NoClaim
      /\ \/ /\ session = "live" /\ session' = "parked" /\ handler'.pc = "none"
            /\ UNCHANGED loop
         \/ /\ session = "parked" /\ session' = "live" /\ handler'.pc = "reading"
            /\ UNCHANGED loop
         \/ /\ session = "ended" /\ session' = "live" /\ handler'.pc = "reading"
            /\ loop' = Polling
  BY DEF Drop, Resume, Reopen, ledger, bounds, Gone, Reading, OneInHand
<1>2. loop'.claim = loop.claim
  BY <1>1 DEF Polling, OneInHand
<1>3. LedgerOK' BY <1>1 DEF LedgerOK
<1>4. OneInHand' BY <1>1 DEF OneInHand, Valid, Polling
<1>5. Spoken' BY <1>1, <1>2 DEF Spoken, SpokenOf
<1>6. SentIsHeard' BY <1>1 DEF SentIsHeard
<1>7. ClaimAccounted' BY <1>1, <1>2 DEF ClaimAccounted
<1>8. DeliveredIsHeard' BY <1>1 DEF DeliveredIsHeard
<1> QED BY <1>3, <1>4, <1>5, <1>6, <1>7, <1>8

\* Whoever ends a session gives back the one claim there is.
LEMMA EndsTold ==
    ASSUME IInv, Stop \/ GraceExpires \/ Crash PROVE LedgerOK' /\ Told'
<1> USE ClaimFacts DEF IInv, Told
<1>1. CASE Crash
  BY <1>1, EndTold DEF Crash
<1>2. CASE Stop \/ GraceExpires
  <2>1. End(Held) /\ UNCHANGED crashes /\ handler.pc # "sent"
    BY <1>2 DEF Stop, GraceExpires, bounds, Reading, OneInHand
  <2>2. /\ Held \in Claims \cup {NoClaim} /\ (Held # NoClaim => Valid(Held))
        /\ \A k \in awaiting \cup {loop.claim} : k \in {Held, NoClaim}
    <3>1. CASE loop.claim # NoClaim
      <4>1. Held = loop.claim /\ loop.claim \in Claims BY <3>1 DEF Held, MemoryOK
      <4>2. awaiting = {} \/ awaiting = {loop.claim}
        BY <3>1 DEF OneInHand, MemoryOK
      <4> QED BY <3>1, <4>1, <4>2 DEF OneInHand
    <3>2. CASE loop.claim = NoClaim /\ awaiting = {}
      BY <3>2 DEF Held
    <3>3. CASE loop.claim = NoClaim /\ awaiting # {}
      <4>1. Held \in awaiting BY <3>3 DEF Held
      <4> QED BY <3>3, <4>1 DEF OneInHand, MemoryOK
    <3> QED BY <3>1, <3>2, <3>3
  <2> QED BY <2>1, <2>2, EndTold
<1> QED BY <1>1, <1>2

\* Every step keeps the ledger and what is told of the deliveries.
LEMMA NextTold == ASSUME IInv, [Next]_vars PROVE LedgerOK' /\ Told'
<1>1. CASE UNCHANGED vars
  <2>1. LedgerOK' /\ \A d \in Deliveries : Row(d)
    BY <1>1 DEF IInv, LedgerOK, Row, vars, ledger
  <2>2. SameHands BY <1>1 DEF vars, bounds, SameHands
  <2> QED BY <2>1, <2>2, RowsMove DEF IInv
<1> QED
  BY <1>1, GatewayTold, PollTold, PauseTold, PrepareTold, FeedTold, UnitTold, SendTold,
     AcknowledgeTold, SocketTold, EndsTold
  DEF Next, LoopStep, HandlerStep

\* The types of what is kept in memory.
LEMMA MemoryKept == ASSUME IInv, [Next]_vars PROVE MemoryOK'
<1> USE ClaimFacts DEF IInv, MemoryOK
<1>0. /\ {MaxAttempts, MaxCalls, MaxDrops, MaxCrashes} \subseteq Nat
  BY BoundsAssumption
<1>1. Polling \in [pc : {"off", "poll", "pause", "prepare", "feed"},
                  claim : Claims \cup {NoClaim}]
  BY DEF Polling
<1>2. /\ Reading \in [pc : {"none", "reading", "sending", "sent"},
                     claim : Claims \cup {NoClaim}]
      /\ Gone \in [pc : {"none", "reading", "sending", "sent"},
                  claim : Claims \cup {NoClaim}]
  BY DEF Reading, Gone
<1>3. ASSUME NEW d \in Deliveries, Enqueue(d) \/ CancelQuestion(d) \/ Lapse(d)
      PROVE  MemoryOK'
  BY <1>3 DEF Enqueue, CancelQuestion, Lapse, directives, bounds
<1>4. CASE Directive
  <2>1. muted' \in BOOLEAN /\ subscribed' \in BOOLEAN
    BY <1>4, Zenon DEF Directive
  <2> QED BY <1>4, <2>1 DEF Directive, bounds
<1>5. CASE CallAnswered BY <1>5 DEF CallAnswered, directives, bounds
<1>6. ASSUME ClaimFirst PROVE loop' \in [pc : {"off", "poll", "pause", "prepare", "feed"},
                                        claim : Claims \cup {NoClaim}]
  <2>1. PICK n \in DOMAIN Requeued : Claim(Requeued[n]) BY <1>6 DEF ClaimFirst
  <2>2. Requeued[n] \in ToSet(Requeued) BY DEF ToSet
  <2>3. PICK d \in Deliveries :
           /\ record'[d].attempts \in 1..MaxAttempts
           /\ loop' = [pc |-> "prepare", claim |-> <<d, record'[d].attempts>>]
    BY <2>1, <2>2, ClaimRows
  <2> QED BY <2>3
<1>7. CASE Poll \/ Pause \/ NoPause
  <2>1. loop' \in [pc : {"off", "poll", "pause", "prepare", "feed"},
                  claim : Claims \cup {NoClaim}]
    <3>1. \/ ClaimFirst \/ UNCHANGED loop \/ loop' = [loop EXCEPT !.pc = "pause"]
          \/ loop' = Polling
      BY <1>7 DEF Poll, Pause, NoPause
    <3> QED BY <1>1, <1>6, <3>1
  <2> QED BY <1>7, <2>1 DEF Poll, Pause, NoPause, directives, bounds
<1>8. CASE Prepare
  <2>1. loop.claim \in Claims BY <1>8 DEF Prepare, Told, OneInHand
  <2> QED BY <1>1, <1>8, <2>1 DEF Prepare, directives, bounds
<1>9. CASE Feed
  <2>1. loop.claim \in Claims BY <1>9 DEF Feed, Told, OneInHand
  <2>2. inputs' \in Seq(Claims)
    <3>1. inputs' = Append(inputs, loop.claim) \/ inputs' = inputs BY <1>9 DEF Feed
    <3>2. inputs \in Seq(Claims) OBVIOUS
    <3> HIDE DEF IInv, MemoryOK
    <3>3. Append(inputs, loop.claim) \in Seq(Claims) BY <2>1, <3>2, AppendProperties
    <3> QED BY <3>1, <3>2, <3>3
  <2> QED BY <1>1, <1>9, <2>2 DEF Feed, directives, bounds
<1>10. CASE Unit
  <2>1. /\ inputs' \in Seq(Claims)
        /\ handler' \in [pc : {"none", "reading", "sending", "sent"},
                        claim : Claims \cup {NoClaim}]
    BY <1>10 DEF Unit
  <2>2. calling' \in {"no", "made", "seen"} /\ calls' \in 0..MaxCalls
    BY <1>0, <1>10 DEF Unit
  <2> QED BY <1>10, <2>1, <2>2 DEF Unit, directives
<1>11. CASE Send
  <2>1. heard' \in [Deliveries -> Nat] BY <1>11 DEF Send
  <2> QED BY <1>11, <2>1 DEF Send, directives, bounds
<1>12. ASSUME NEW c, End(c), calls' \in 0..MaxCalls, drops' \in 0..MaxDrops,
              crashes' \in 0..MaxCrashes
       PROVE  MemoryOK'
  <2>1. inputs' \in Seq(Claims) BY <1>12 DEF End
  <2> QED BY <1>2, <1>12, <2>1 DEF End
<1>13. CASE Acknowledge
  <2>1. CASE End(handler.claim)
    BY <1>12, <1>13, <2>1 DEF Acknowledge, bounds
  <2>2. CASE ~End(handler.claim)
    BY <1>2, <1>13, <2>2 DEF Acknowledge, directives, bounds
  <2> QED BY <2>1, <2>2
<1>14. CASE Stop \/ GraceExpires
  BY <1>12, <1>14 DEF Stop, GraceExpires, bounds
<1>15. CASE Crash
  <2>1. crashes' \in 0..MaxCrashes BY <1>0, <1>15 DEF Crash
  <2> QED BY <1>12, <1>15, <2>1 DEF Crash
<1>16. CASE Drop
  <2>1. drops' \in 0..MaxDrops BY <1>0, <1>16 DEF Drop
  <2> QED BY <1>2, <1>16, <2>1 DEF Drop, directives
<1>17. CASE Resume \/ Reopen
  BY <1>1, <1>2, <1>17 DEF Resume, Reopen, directives, bounds
<1>18. CASE UNCHANGED vars
  BY <1>18 DEF vars, directives, bounds
<1> QED
  BY <1>3, <1>4, <1>5, <1>7, <1>8, <1>9, <1>10, <1>11, <1>13, <1>14, <1>15, <1>16,
     <1>17, <1>18
  DEF Next, LoopStep, HandlerStep

\* At the start nothing was handed to anybody.
LEMMA InitHolds == Init => IInv
<1> SUFFICES ASSUME Init PROVE IInv OBVIOUS
<1>1. LedgerOK
  <2>1. <<>> \in Seq(Deliveries) /\ IsInjective(<<>>) /\ ToSet(<<>>) = {}
    BY DEF IsInjective, ToSet
  <2>2. IsFiniteSet({}) BY FS_EmptySet
  <2> QED BY <2>1, <2>2, BoundsAssumption DEF Init, LedgerOK, States
<1>2. MemoryOK
  <2>1. /\ muted \in BOOLEAN /\ subscribed \in BOOLEAN /\ calling = "no"
        /\ awaiting \subseteq Claims /\ inputs = <<>> /\ session = "live"
        /\ heard \in [Deliveries -> Nat]
    BY DEF Init
  <2>2. /\ calls \in 0..MaxCalls /\ drops \in 0..MaxDrops /\ crashes \in 0..MaxCrashes
    BY BoundsAssumption DEF Init
  <2>3. /\ loop = [pc |-> "poll", claim |-> NoClaim]
        /\ handler = [pc |-> "reading", claim |-> NoClaim]
    BY DEF Init, Polling, Reading
  <2> QED BY <2>1, <2>2, <2>3 DEF MemoryOK
<1>3. Told
  BY ClaimFacts DEF Init, Told, OneInHand, Spoken, SpokenOf, SentIsHeard,
                    ClaimAccounted, DeliveredIsHeard, Polling, Reading
<1> QED BY <1>1, <1>2, <1>3 DEF IInv

-----------------------------------------------------------------------------
(* The theorems *)

\* The invariant is inductive: every claim is in one pair of hands, and what was
\* said is known to be said, in every reachable state.
THEOREM Inductive == Spec => []IInv
<1>1. IInv /\ [Next]_vars => IInv'
  BY NextTold, MemoryKept DEF IInv
<1> QED BY InitHolds, <1>1, PTL DEF Spec

\* Every variable keeps its type; the queue lists every pending row once, over
\* expired leases and requeues (TaskLedger, supervision.py).
THEOREM TypeCorrect == Spec => []TypeOK
<1>1. IInv => TypeOK BY DEF IInv, LedgerOK, MemoryOK, TypeOK
<1> QED BY Inductive, <1>1, PTL

\* Nothing is committed as delivered before the client was sent it
\* (acknowledge_output after the outbox's send, online_duplex.py).
THEOREM CommittedWasHeard == Spec => []DeliveredIsHeard
<1>1. IInv => DeliveredIsHeard BY DEF IInv, Told
<1> QED BY Inductive, <1>1, PTL

\* The user hears a delivery once, and once more at most for every death of the
\* process, whatever leases expire and sockets drop.
THEOREM NobodyRepeats == Spec => []HeardOnce
<1>1. IInv => HeardOnce
  <2> SUFFICES ASSUME IInv, NEW d \in Deliveries PROVE heard[d] <= 1 + crashes
    BY DEF HeardOnce
  <2>1. SpokenOf(d) /\ heard[d] \in Nat /\ crashes \in Nat
    BY DEF IInv, Told, Spoken, MemoryOK
  <2> QED BY <2>1 DEF SpokenOf
<1> QED BY Inductive, <1>1, PTL

\* A claim is always somebody's, one delivery at a time is on its way through the
\* model, and the claim it travels under can be acknowledged (_delivery_loop,
\* task_tools_online.py; finish_delivery, supervision.py).
THEOREM EveryClaimIsHeld == Spec => []ClaimsHeld
<1>1. IInv => ClaimsHeld
  <2> SUFFICES ASSUME IInv PROVE ClaimsHeld OBVIOUS
  <2>1. Cardinality(awaiting) <= 1
    <3>1. CASE awaiting = {}
      <4>1. Cardinality(awaiting) = 0 BY <3>1, FS_EmptySet
      <4> QED BY <4>1
    <3>2. CASE \E c \in Claims : awaiting = {c}
      <4>1. Cardinality(awaiting) = 1 BY <3>2, FS_Singleton
      <4> QED BY <4>1
    <3> QED BY <3>1, <3>2 DEF IInv, Told, OneInHand
  <2>2. ToSet(inputs) \subseteq awaiting
    <3>1. CASE inputs = <<>> BY <3>1 DEF ToSet
    <3>2. CASE inputs # <<>>
      <4>1. Len(inputs) = 1 /\ inputs[1] \in awaiting /\ inputs \in Seq(Claims)
        BY <3>2 DEF IInv, Told, OneInHand, MemoryOK
      <4>2. DOMAIN inputs = {1} BY <4>1
      <4> QED BY <4>1, <4>2 DEF ToSet
    <3> QED BY <3>1, <3>2
  <2>3. \A c \in awaiting : /\ record[c[1]].attempts = c[2]
                           /\ record[c[1]].state \in {"claimed", "pending", "cancelled"}
    BY DEF IInv, Told, OneInHand, Valid
  <2> QED BY <2>1, <2>2, <2>3 DEF ClaimsHeld, InHand, IInv, Told, OneInHand
<1> QED BY Inductive, <1>1, PTL

\* A step of the ledger leaves what is settled alone.
LEMMA StepSettles ==
    ASSUME IInv, [Next]_vars, NEW d \in Deliveries,
           record[d].state \in {"delivered", "cancelled"}
    PROVE  record'[d].state = record[d].state
<1> USE ClaimFacts DEF IInv
<1>1. ASSUME NEW c \in Claims \cup {NoClaim}, Release(c)
      PROVE  record'[d].state = record[d].state
  <2>1. CASE c # NoClaim /\ Matches(c)
    <3>1. c[1] # d /\ c[1] \in Deliveries BY <2>1 DEF Matches
    <3>2. record'[d] = record[d] BY <1>1, <2>1, <3>1, SetStateRows DEF Release
    <3> QED BY <3>2
  <2>2. CASE ~(c # NoClaim /\ Matches(c)) BY <1>1, <2>2 DEF Release, ledger
  <2> QED BY <2>1, <2>2
<1>2. ASSUME ClaimFirst PROVE record'[d].state = record[d].state
  <2>1. PICK n \in DOMAIN Requeued : Claim(Requeued[n]) BY <1>2 DEF ClaimFirst
  <2>2. Requeued[n] \in ToSet(Requeued) BY DEF ToSet
  <2>3. Requeued[n] # d /\ Row(d) BY <2>1, <2>2, ClaimRows
  <2> QED BY <2>3 DEF Row
<1>3. ASSUME NEW e \in Deliveries, Enqueue(e) \/ CancelQuestion(e) \/ Lapse(e)
      PROVE  record'[d].state = record[d].state
  <2>1. CASE Lapse(e) BY <2>1 DEF Lapse
  <2>2. CASE Enqueue(e) \/ CancelQuestion(e)
    <3>1. /\ e # d
          /\ SetState(e, "pending") \/ SetState(e, "cancelled")
      BY <2>2 DEF Enqueue, CancelQuestion
    <3>2. record'[d] = record[d] BY <3>1, SetStateRows
    <3> QED BY <3>2
  <2> QED BY <1>3, <2>1, <2>2
<1>4. CASE Poll
  <2>1. CASE ClaimFirst BY <1>2, <2>1
  <2>2. CASE record' = [e \in Deliveries |->
                          IF e \in lapsed THEN [record[e] EXCEPT !.state = "pending"]
                                          ELSE record[e]]
    <3>1. d \notin lapsed BY DEF LedgerOK
    <3> QED BY <2>2, <3>1
  <2> QED BY <1>4, <2>1, <2>2 DEF Poll
<1>5. CASE Pause BY <1>2, <1>5 DEF Pause, ledger
<1>6. CASE Prepare \/ Feed BY <1>1, <1>6 DEF Prepare, Feed, MemoryOK, ledger
<1>7. CASE Acknowledge
  <2> DEFINE c == handler.claim
  <2>1. c \in Claims \cup {NoClaim} BY DEF MemoryOK
  <2>2. CASE c # NoClaim /\ Matches(c)
    <3>1. SetState(c[1], "delivered") /\ c[1] # d /\ c[1] \in Deliveries
      BY <1>7, <2>1, <2>2 DEF Acknowledge, Matches
    <3>2. record'[d] = record[d] BY <3>1, SetStateRows
    <3> QED BY <3>2
  <2>3. CASE c = NoClaim BY <1>7, <2>3 DEF Acknowledge, ledger
  <2>4. CASE c # NoClaim /\ ~Matches(c)
    BY <1>1, <1>7, <2>1, <2>4 DEF Acknowledge, End
  <2> QED BY <2>2, <2>3, <2>4
<1>8. CASE Stop \/ GraceExpires \/ Crash
  <2>1. Held \in Claims \cup {NoClaim}
    <3>1. CASE loop.claim # NoClaim BY <3>1 DEF Held, MemoryOK
    <3>2. CASE loop.claim = NoClaim /\ awaiting = {} BY <3>2 DEF Held
    <3>3. CASE loop.claim = NoClaim /\ awaiting # {}
      <4>1. Held \in awaiting BY <3>3 DEF Held
      <4> QED BY <4>1 DEF MemoryOK
    <3> QED BY <3>1, <3>2, <3>3
  <2>2. PICK c \in Claims \cup {NoClaim} : Release(c)
    BY <1>8, <2>1 DEF Stop, GraceExpires, Crash, End
  <2> QED BY <1>1, <2>2
<1>9. CASE \/ Directive \/ NoPause \/ Unit \/ Send \/ CallAnswered
           \/ Drop \/ Resume \/ Reopen \/ UNCHANGED vars
  BY <1>9 DEF Directive, NoPause, Unit, Send, CallAnswered, Drop, Resume, Reopen, vars,
              ledger
<1> QED
  BY <1>3, <1>4, <1>5, <1>6, <1>7, <1>8, <1>9 DEF Next, LoopStep, HandlerStep

\* A delivered or cancelled delivery stays so: neither the release of its claim,
\* nor a late acknowledgement, nor an expired lease brings it back.
THEOREM SettledForGood == Spec => SettledStays
<1>1. IInv /\ [Next]_vars =>
        [\A d \in Deliveries : record[d].state \in {"delivered", "cancelled"}
                               => record'[d].state = record[d].state]_record
  BY StepSettles
<1> QED BY Inductive, <1>1, PTL DEF Spec, SettledStays

-----------------------------------------------------------------------------
(* What the model hears and sees                                           *)

CONSTANTS UnitSamples, FrameSizes, ClientVideoMode, MaxPending, MinGap,
          MaxNow, MaxShots, MaxChanges, MaxWire
VARIABLES now, wire, header, line, parts, chunk, mode, amode, pending,
          last, gate, shots, taken, kept, changes

Captured == INSTANCE Media

Times == Nat \cup {None}
Samples == Seq(Nat)
Headers == [seq : Nat, start : Nat, size : Nat \ {0}, at : Nat]
Messages == [kind : {"header"}, h : Headers] \cup [kind : {"pcm"}, samples : Samples]
            \cup [kind : {"reset", "stop", "gone"}]
            \cup [kind : {"mode"}, video : BOOLEAN, known : BOOLEAN]
FrameParts == [samples : Samples, named : BOOLEAN, starts : Seq(Times)]

Lines0 == [seq : Nat \ {0}, sample : Nat, unitStart : Nat, origin : Times]
Clients == [timed : BOOLEAN, seq : Nat, cap : Nat, paused : BOOLEAN]
Shots == [id : Nat, at : Nat, step : {"decode", "persist"}]
ShownAre == /\ pending \in Seq(Nat) /\ last \in Times
            /\ shown \in Seq([picture : Nat, start : Times])

MediaTypes ==
  /\ {now, taken, resumes} \subseteq Nat
  /\ client \in Clients
  /\ wire \in Seq(Messages)
  /\ at \in {"loop", "parts", "mode", "resetting", "parked", "failed", "done"}
  /\ header \in Headers \cup {Captured!NoHeader}
  /\ line \in Lines0
  /\ parts \in Seq(FrameParts) /\ chunk \in Samples
  /\ ShownAre
  /\ shots \subseteq Shots
  /\ unit \in [first : Times, start : Times]

(* The timeline is inside a unit, or between two.                          *)
LineFits ==
  /\ line.unitStart <= line.sample /\ line.sample < line.unitStart + UnitSamples
  /\ line.origin = None <=> line.sample = line.unitStart

(* What is left of a message are its parts, none longer than a unit.       *)
PartsFit ==
  /\ at = "parts" <=> parts # << >>
  /\ \A i \in DOMAIN parts :
       /\ Len(parts[i].samples) \in 1..UnitSamples
       /\ ~ parts[i].named => parts[i].starts = << None >>
  /\ Len(chunk) < UnitSamples

(* No message of sound is empty.                                           *)
Audible == \A i \in DOMAIN wire : wire[i].kind = "pcm" => wire[i].samples # << >>

(* The pictures shown end with the last one.                               *)
ShownFits == FramesInOrder /\ \A i \in DOMAIN shown : shown[i].picture <= last

(* Where a unit begins that ends in the i-th part of a message, the chunk  *)
(* holding what came before the first.                                     *)
Begins(i) ==
  IF chunk = << >> THEN parts[i].samples[1]
  ELSE IF i = 1 THEN chunk[1]
  ELSE parts[i - 1].samples[UnitSamples + 1 - Len(chunk)]

(* The timeline says of each part where the unit begins that ends in it,   *)
(* and then stands where the chunk will.                                   *)
Heard(m) == Len(chunk) + Len(parts[m].samples)
PartTimed(i) ==
  /\ parts[i].named
  /\ i < Len(parts) => Len(parts[i].samples) = UnitSamples
  /\ parts[i].starts = IF Heard(i) >= UnitSamples THEN << Begins(i) >> ELSE << >>

EndTimed(m) ==
  /\ line.sample - line.unitStart = IF Heard(m) >= UnitSamples THEN Heard(m) - UnitSamples
                                                               ELSE Heard(m)
  /\ line.origin # None =>
       line.origin = IF Heard(m) >= UnitSamples
                     THEN parts[m].samples[UnitSamples + 1 - Len(chunk)]
                     ELSE Begins(m)

PartsTimed == /\ \A i \in DOMAIN parts : PartTimed(i)
              /\ \A m \in DOMAIN parts : m = Len(parts) => EndTimed(m)

(* The timeline stands where the chunk does.                               *)
ChunkTimed == /\ line.sample - line.unitStart = Len(chunk)
              /\ chunk # << >> => line.origin = chunk[1]

After(h) == [seq |-> h.seq + 1, start |-> h.start + h.size]
Bears(m, h) == /\ m.kind = "pcm" /\ Len(m.samples) = h.size
               /\ \A k \in 1..h.size : m.samples[k] = h.at + k - 1

(* What the page has sent is numbered on from what the handler has read: e *)
(* says what is expected before each message.                              *)
Expected == IF header = Captured!NoHeader
            THEN [seq |-> line.seq, start |-> line.sample] ELSE After(header)
Counted(e, i) ==
  IF wire[i].kind = "header"
  THEN /\ e[i] = [seq |-> wire[i].h.seq, start |-> wire[i].h.start]
       /\ e[i + 1] = After(wire[i].h)
  ELSE e[i + 1] = e[i]
WireNumbered(e) ==
  /\ e[1] = Expected
  /\ \A i \in DOMAIN wire : Counted(e, i)
  /\ ~ client.paused => e[Len(wire) + 1] = [seq |-> client.seq + 1, start |-> client.cap]

(* A header is followed by its frame, or the connection broke there, and   *)
(* the last message of a page that waits is the last on the wire.          *)
Follows(m, h) == m.kind = "gone" \/ Bears(m, h)
Placed(i) ==
  /\ wire[i].kind = "header" => i < Len(wire) /\ Follows(wire[i + 1], wire[i].h)
  /\ wire[i].kind = "pcm" => IF i = 1 THEN header # Captured!NoHeader
                                      ELSE wire[i - 1].kind = "header"
  /\ wire[i].kind \in {"reset", "stop", "gone"} => i = Len(wire) /\ client.paused
HeaderFits == header # Captured!NoHeader =>
                /\ header.seq = line.seq /\ header.start = line.sample
                /\ wire # << >> /\ Follows(wire[1], header)
WireFits ==
  /\ \E e : WireNumbered(e)
  /\ HeaderFits
  /\ \A i \in DOMAIN wire : Placed(i)

(* A page that numbers its frames is heard in its time.                    *)
Paced ==
  /\ at # "failed"
  /\ unit # NoUnit => unit.start = unit.first /\ unit.start # None
  /\ at \in {"loop", "mode"} => ChunkTimed
  /\ at = "parts" => PartsTimed /\ header = Captured!NoHeader
  /\ at = "resetting" => /\ wire = << >> /\ line = Captured!NewLine /\ client.paused
                         /\ header = Captured!NoHeader
Timed == Paced /\ (at \in {"loop", "mode", "parts"} => WireFits)

(* One that does not is heard, at a time nobody knows.                     *)
Untimed ==
  /\ at # "failed" /\ unit.start = None
  /\ header = Captured!NoHeader /\ line = Captured!NewLine
  /\ \A i \in DOMAIN wire : wire[i].kind # "header"
  /\ \A i \in DOMAIN parts : ~ parts[i].named

InTime == resumes = 0 => IF client.timed THEN Timed ELSE Untimed

MediaInv == MediaTypes /\ LineFits /\ PartsFit /\ Audible /\ ShownFits /\ InTime

-----------------------------------------------------------------------------
(* Sequences                                                               *)

\* A set of numbers has a first one.
LEMMA Least ==
    ASSUME NEW T \in SUBSET Nat, T # {}
    PROVE  \E x \in T : \A y \in T : x <= y
<1> DEFINE R == {r \in Nat \X Nat : r[1] < r[2]}
<1>1. IsWellFoundedOn(R, Nat)
    BY NatLessThanWellFounded DEF OpToRel
<1> HIDE DEF R
<1>2. \E x \in T : \A y \in T : ~ (<< y, x >> \in R)
    BY <1>1, WFMin
<1>3. \A x, y \in T : ~ (<< y, x >> \in R) => x <= y
  <2>1. \A x, y \in Nat : y < x => << y, x >> \in R
      BY DEF R
  <2> QED BY <2>1
<1> QED BY <1>2, <1>3

\* The entries of a sequence.
LEMMA Items ==
    ASSUME NEW S, NEW s \in Seq(S)
    PROVE  Len(s) \in Nat /\ DOMAIN s = 1..Len(s) /\ \A i \in 1..Len(s) : s[i] \in S
BY ElementOfSeq, LenProperties

\* What is left of a sequence is a sequence of the same.
LEMMA OnlyIn ==
    ASSUME NEW A, NEW s \in Seq(A), NEW S
    PROVE  Only(s, S) \in Seq(A)
<1>0. PICK n \in Nat : n = Len(s) /\ DOMAIN s = 1..n
    BY Items
<1> DEFINE stay == {i \in 1..n : s[i] \in S}
           m == Cardinality(stay)
           Upto(i) == {j \in stay : j <= i}
           Rank(i) == Cardinality(Upto(i))
           p == [k \in 1..m |-> CHOOSE i \in stay : Rank(i) = k]
<1>1. IsFiniteSet(stay) /\ m \in Nat
  <2>1. IsFiniteSet(1..n) /\ stay \in SUBSET (1..n)
      BY FS_Interval
  <2>2. IsFiniteSet(stay)
      BY <2>1, FS_Subset
  <2> QED BY <2>2, FS_CardinalityType
<1>2. \A i \in stay : Upto(i) \in SUBSET stay /\ i \in Upto(i)
    OBVIOUS
<1> HIDE DEF stay
<1>3. stay \in SUBSET Nat
    BY DEF stay
<1>4. \A i \in stay : IsFiniteSet(Upto(i)) /\ Rank(i) \in 1..m
  <2> SUFFICES ASSUME NEW i \in stay PROVE IsFiniteSet(Upto(i)) /\ Rank(i) \in 1..m
      OBVIOUS
  <2>1. IsFiniteSet(Upto(i)) /\ Rank(i) <= m
      BY <1>1, <1>2, FS_Subset
  <2>2. Rank(i) \in Nat /\ Rank(i) # 0
      BY <1>2, <2>1, FS_CardinalityType, FS_EmptySet
  <2> QED BY <1>1, <2>1, <2>2
<1>5. \A i, j \in stay : i < j => Rank(i) < Rank(j)
  <2> SUFFICES ASSUME NEW i \in stay, NEW j \in stay, i < j PROVE Rank(i) < Rank(j)
      OBVIOUS
  <2>1. Upto(i) \in SUBSET Upto(j) /\ j \in Upto(j) /\ j \notin Upto(i)
    <3>1. \A x \in stay : x <= i => x <= j
        BY <1>3
    <3>2. i \in Nat /\ j \in Nat
        BY <1>3
    <3>3. \A x \in Upto(i) : x \in Upto(j)
        BY <3>1
    <3>4. ~ (j <= i)
        BY <3>2
    <3>5. j \notin Upto(i)
        BY <3>4
    <3> QED BY <1>2, <3>3, <3>5
  <2>2. Upto(i) # Upto(j)
      BY <2>1
  <2>3. Rank(i) <= Rank(j) /\ Rank(i) # Rank(j)
      BY <1>4, <2>1, <2>2, FS_Subset
  <2>4. Rank(i) \in 1..m /\ Rank(j) \in 1..m
      BY <1>4
  <2> HIDE DEF Rank
  <2>5. Rank(i) \in Nat /\ Rank(j) \in Nat
      BY <2>4
  <2> QED BY <2>3, <2>5
<1>6. \A i, j \in stay : Rank(i) = Rank(j) => i = j
  <2>1. \A i, j \in stay : i = j \/ i < j \/ j < i
      BY <1>3
  <2>2. \A i \in stay : Rank(i) \in Nat
    <3> SUFFICES ASSUME NEW i \in stay PROVE Rank(i) \in Nat
        OBVIOUS
    <3>1. Rank(i) \in 1..m
        BY <1>4
    <3> HIDE DEF Rank
    <3> QED BY <3>1
  <2> HIDE DEF Rank
  <2> QED BY <1>5, <2>1, <2>2
<1>7. \A k \in 1..m : \E i \in stay : Rank(i) = k
  <2> SUFFICES ASSUME NEW k \in 1..m, \A i \in stay : Rank(i) # k PROVE FALSE
      OBVIOUS
  <2> DEFINE f == [i \in stay |-> Rank(i)]
             T == (1..m) \ {k}
  <2>1. IsFiniteSet(1..m) /\ Cardinality(1..m) = m
      BY <1>1, FS_Interval
  <2>2. IsFiniteSet(T) /\ Cardinality(T) = m - 1
      BY <2>1, FS_RemoveElement
  <2> HIDE DEF T
  <2>3. f \in [stay -> T]
      BY <1>4 DEF T
  <2>4. Cardinality(T) < Cardinality(stay)
      BY <1>1, <2>2
  <2> HIDE DEF f
  <2>5. \E x, y \in stay : x # y /\ f[x] = f[y]
      BY <1>1, <2>2, <2>3, <2>4, FS_PigeonHole
  <2> QED BY <1>6, <2>5 DEF f
<1> HIDE DEF Rank
<1>8. \A k \in 1..m : p[k] \in stay /\ Rank(p[k]) = k
    BY <1>7
<1>9. p \in [1..m -> stay]
    BY <1>8
<1>10. Only(s, S) = [k \in 1..m |-> s[p[k]]]
  <2>1. Only(s, S) = [k \in 1..m |-> s[CHOOSE i \in stay : Rank(i) = k]]
      BY <1>0 DEF Only, stay, Rank
  <2> QED BY <2>1
<1>11. \A k \in 1..m : s[p[k]] \in A
  <2>1. \A i \in stay : s[i] \in A
      BY <1>0, Items DEF stay
  <2> QED BY <1>8, <2>1
<1> QED
  <2>1. Only(s, S) \in [1..m -> A]
      BY <1>10, <1>11
  <2> QED BY <1>1, <2>1, SeqDef

-----------------------------------------------------------------------------
(* The parts of a message *)

MediaConstants == /\ UnitSamples \in Nat \ {0} /\ FrameSizes \subseteq Nat \ {0}
                  /\ ClientVideoMode \in {"omni", "auto"} /\ MaxPending \in Nat \ {0}

\* Where the parts of a message of n samples end, the first at q[1].
EndsAt(n, q) ==
  LET P == Captured!PartCount(n) IN
  /\ P \in Nat \ {0} /\ q \in [0..P -> Nat] /\ q[0] = 0
  /\ \A i \in 1..P : /\ q[i] = i * UnitSamples /\ q[i - 1] = (i - 1) * UnitSamples
                     /\ q[i] = q[i - 1] + UnitSamples /\ q[i - 1] < n
                     /\ Captured!CutEnd(i, n) = IF i < P THEN q[i] ELSE n
                     /\ i < P => q[i] < n
  /\ n <= q[P]

LEMMA PartEnds ==
    ASSUME MediaConstants, NEW n \in Nat \ {0}
    PROVE  \E q : EndsAt(n, q)
<1> DEFINE U == UnitSamples
           P == Captured!PartCount(n)
           q == [i \in 0..P |-> i * U]
<1>1. U \in Nat \ {0}
    BY DEF MediaConstants
<1>2. P \in Int /\ P * U <= n + U - 1 /\ n + U - 1 < P * U + U
    BY <1>1 DEF Captured!PartCount
<1> HIDE DEF P, U
<1>3. P \in Nat \ {0}
  <2>1. P * U + U > 0
      BY <1>1, <1>2
  <2>2. CASE P <= -1
    <3>1. P * U <= -U
        BY <1>1, <1>2, <2>2
    <3> QED BY <1>1, <1>2, <2>1, <3>1
  <2>3. CASE P = 0
      BY <1>1, <1>2, <2>3
  <2> QED BY <1>2, <2>2, <2>3
<1>4. \A i, j \in Nat : /\ i * U \in Nat /\ (i + 1) * U = i * U + U
                        /\ i <= j => i * U <= j * U
  <2>1. \A i, j \in Nat : i * U \in Nat /\ (i + j) * U = i * U + j * U
      BY <1>1
  <2>2. ASSUME NEW i \in Nat, NEW j \in Nat, i <= j PROVE i * U <= j * U
    <3>1. j - i \in Nat /\ i + (j - i) = j
        BY <2>2
    <3>2. j * U = i * U + (j - i) * U /\ (j - i) * U \in Nat /\ i * U \in Nat
        BY <2>1, <3>1
    <3> QED BY <3>2
  <2>3. 1 * U = U
      BY <1>1
  <2>4. \A i \in Nat : (i + 1) * U = i * U + U
      BY <2>1, <2>3
  <2> QED BY <2>1, <2>2, <2>4
<1>5. /\ q \in [0..P -> Nat] /\ q[0] = 0
      /\ \A i \in 0..P : q[i] = i * U
  <2>1. 0 * U = 0
      BY <1>1
  <2> QED BY <1>3, <1>4, <2>1
<1> HIDE DEF q
<1>6. ASSUME NEW i \in 1..P
      PROVE  /\ q[i] = i * U /\ q[i - 1] = (i - 1) * U
             /\ q[i] = q[i - 1] + U /\ q[i - 1] < n
             /\ i < P => q[i] < n
             /\ Captured!CutEnd(i, n) = IF i < P THEN q[i] ELSE n
  <2>1. i \in 0..P /\ i - 1 \in 0..P /\ i - 1 \in Nat /\ i \in Nat /\ (i - 1) + 1 = i
      BY <1>3
  <2>2. q[i] = i * U /\ q[i - 1] = (i - 1) * U /\ q[i] \in Nat /\ q[i - 1] \in Nat
      BY <1>5, <2>1
  <2>3. q[i] = q[i - 1] + U
      BY <1>4, <2>1, <2>2
  <2>4. q[i] <= P * U /\ q[P] = P * U /\ P * U \in Nat
      BY <1>3, <1>4, <1>5, <2>1, <2>2
  <2>5. q[i - 1] < n
      BY <1>1, <1>2, <2>2, <2>3, <2>4
  <2>6. i < P => q[i] < n
    <3> SUFFICES ASSUME i < P PROVE q[i] < n
        OBVIOUS
    <3>1. i + 1 \in Nat /\ i + 1 <= P
        BY <1>3, <2>1
    <3>2. (i + 1) * U <= P * U /\ (i + 1) * U = q[i] + U
        BY <1>3, <1>4, <2>1, <2>2, <3>1
    <3> QED BY <1>1, <1>2, <2>2, <2>4, <3>2
  <2>7. i = P => n <= q[i]
      BY <1>1, <1>2, <2>2, <2>4
  <2>8. Captured!CutEnd(i, n) = IF q[i] < n THEN q[i] ELSE n
      BY <2>2 DEF Captured!CutEnd, U
  <2>9. Captured!CutEnd(i, n) = IF i < P THEN q[i] ELSE n
    <3>1. CASE i < P
        BY <2>6, <2>8, <3>1
    <3>2. CASE ~(i < P)
      <4>1. i = P
          BY <1>3, <3>2
      <4>2. ~(q[i] < n)
          BY <2>2, <2>7, <4>1
      <4> QED BY <2>8, <3>2, <4>2
    <3> QED BY <3>1, <3>2
  <2> QED BY <2>2, <2>3, <2>5, <2>6, <2>9
<1>7. n <= q[P]
  <2>1. q[P] = P * U /\ P * U \in Int
      BY <1>3, <1>5
  <2> QED BY <1>1, <1>2, <2>1
<1>8. EndsAt(n, q)
    BY <1>3, <1>5, <1>6, <1>7 DEF EndsAt, P, U
<1> QED BY <1>8

\* The samples of a part.
LEMMA PartSamples ==
    ASSUME MediaConstants, NEW s \in Samples, Len(s) # 0, NEW q, EndsAt(Len(s), q),
           NEW i \in 1..Captured!PartCount(Len(s))
    PROVE  LET p == Captured!Part(s, i) IN
           /\ p \in Samples /\ Len(p) \in 1..UnitSamples
           /\ i < Captured!PartCount(Len(s)) => Len(p) = UnitSamples
           /\ q[i - 1] + Len(p) = Captured!CutEnd(i, Len(s))
           /\ \A k \in 1..Len(p) : q[i - 1] + k \in 1..Len(s) /\ p[k] = s[q[i - 1] + k]
<1> DEFINE n == Len(s)
           P == Captured!PartCount(n)
           U == UnitSamples
           a == q[i - 1]
           b == Captured!CutEnd(i, n)
           p == SubSeq(s, a + 1, b)
<1>1. n \in Nat \ {0} /\ DOMAIN s = 1..n /\ \A k \in 1..n : s[k] \in Nat
    BY Items DEF Samples
<1>2. U \in Nat \ {0}
    BY DEF MediaConstants
<1> HIDE DEF n, P, U
<1>3. /\ P \in Nat \ {0} /\ a \in Nat /\ a < n /\ a = (i - 1) * U
      /\ b = IF i < P THEN a + U ELSE n
      /\ i < P => a + U < n
      /\ n <= q[P] /\ q[P] \in Nat /\ (i = P => q[P] = a + U) /\ i \in 1..P
  <2>1. i - 1 \in 0..P /\ P \in 0..P /\ P \in Nat \ {0}
      BY DEF EndsAt, P, n
  <2> QED BY <2>1 DEF EndsAt, P, n, U
<1>4. b \in Nat /\ b > a /\ b <= n /\ b - a <= U /\ (i < P => b - a = U)
    BY <1>1, <1>2, <1>3
<1>5. \A k \in (a + 1)..b : s[k] \in Nat
    BY <1>1, <1>3, <1>4
<1> HIDE DEF a, b
<1>6. a + 1 \in Int /\ b \in Int
    BY <1>3, <1>4
<1>7. /\ p \in Seq(Nat) /\ Len(p) = IF a + 1 <= b THEN b - (a + 1) + 1 ELSE 0
      /\ \A k \in 1..(b - (a + 1) + 1) : p[k] = s[a + 1 + k - 1]
    BY <1>5, <1>6, SubSeqProperties
<1> HIDE DEF p
<1>8. Len(p) = b - a /\ \A k \in 1..Len(p) : p[k] = s[a + k]
  <2>1. a + 1 <= b /\ b - (a + 1) + 1 = b - a
    <3>1. a \in Nat /\ b \in Nat /\ a < b
        BY <1>3, <1>4
    <3> HIDE <1>3, <1>4
    <3> QED BY <3>1
  <2>2. Len(p) = b - a /\ \A k \in 1..(b - a) : p[k] = s[a + 1 + k - 1]
      BY <1>7, <2>1
  <2>3. \A k \in Int : a + 1 + k - 1 = a + k
      BY <1>3
  <2>4. \A k \in 1..(b - a) : k \in Int
      OBVIOUS
  <2> QED BY <2>2, <2>3, <2>4
<1>9. Captured!Part(s, i) = p
    BY <1>3 DEF Captured!Part, p, b, n, U
<1>10. \A k \in 1..Len(p) : a + k \in 1..n
    BY <1>1, <1>3, <1>4, <1>8
<1>11. Len(p) \in 1..U /\ (i < P => Len(p) = U) /\ a + Len(p) = b
  <2>1. Len(p) = b - a
      BY <1>8
  <2>2. a \in Nat /\ b \in Nat /\ b > a /\ b - a <= U /\ (i < P => b - a = U)
      BY <1>3, <1>4
  <2> HIDE <1>3, <1>4, <1>8
  <2>3. b - a \in 1..U /\ a + (b - a) = b
      BY <1>2, <2>2
  <2> QED BY <2>1, <2>2, <2>3
<1> QED BY <1>7, <1>8, <1>9, <1>10, <1>11 DEF Samples, n, a, b, P, U

-----------------------------------------------------------------------------
(* The timeline over one message *)

\* Where the unit begins that is open after i parts of a frame headed h.
Opened(h, i) ==
  LET c == line.sample - line.unitStart IN
  IF i = 0 /\ c # 0 THEN line.origin ELSE h.at + (i * UnitSamples - c)

\* The timeline after i parts of a frame headed h, n samples long.
Cut(h, n, i) ==
  LET c == line.sample - line.unitStart IN
  IF i = 0 THEN [line |-> line, starts |-> << >>]
  ELSE IF c + Captured!CutEnd(i, n) >= i * UnitSamples
  THEN [line |-> [line EXCEPT !.unitStart = line.unitStart + i * UnitSamples,
                              !.origin = IF line.unitStart + i * UnitSamples < line.sample + n
                                         THEN Opened(h, i) ELSE None],
        starts |-> << Opened(h, i - 1) >>]
  ELSE [line |-> [line EXCEPT !.unitStart = line.unitStart + (i - 1) * UnitSamples,
                              !.origin = Opened(h, i - 1)],
        starts |-> << >>]

\* One part takes the timeline from one of these to the next.
LEMMA PartCut ==
    ASSUME MediaConstants, LineFits, line \in Lines0, NEW h \in Headers,
           h.start = line.sample, NEW q, EndsAt(h.size, q),
           NEW i \in 1..Captured!PartCount(h.size)
    PROVE  Cut(h, h.size, i) =
             Captured!SplitPart(Cut(h, h.size, i - 1).line, h,
                                h.start + (i - 1) * UnitSamples,
                                h.start + Captured!CutEnd(i, h.size))
<1> DEFINE n == h.size
           U == UnitSamples
           P == Captured!PartCount(n)
           c == line.sample - line.unitStart
           a == (i - 1) * U
           b == i * U
           e == Captured!CutEnd(i, n)
           l == Cut(h, n, i - 1).line
           u == line.unitStart
           s == line.sample
           begun == Opened(h, i - 1)
<1>1. /\ U \in Nat \ {0} /\ n \in Nat \ {0} /\ h.at \in Nat /\ h.start = s
      /\ u \in Nat /\ s \in Nat /\ u <= s /\ s < u + U
      /\ line.origin \in Nat \cup {None} /\ (line.origin = None <=> s = u)
    BY DEF MediaConstants, Headers, Lines0, LineFits, Times
<1>2. /\ P \in Nat \ {0} /\ i \in Nat /\ i - 1 \in Nat /\ i \in 1..P
      /\ a \in Nat /\ b \in Nat /\ b = a + U /\ a < n /\ (i < P => b < n)
      /\ e = IF i < P THEN b ELSE n
      /\ (i = P => n <= b)
  <2>1. P \in Nat \ {0} /\ i \in Nat /\ i - 1 \in 0..P /\ i \in 0..P
      BY DEF EndsAt
  <2>2. q[i] = b /\ q[i - 1] = a /\ q[i] = q[i - 1] + U /\ q[i - 1] < n
        /\ e = (IF i < P THEN q[i] ELSE n) /\ (i < P => q[i] < n) /\ n <= q[P]
      BY DEF EndsAt
  <2>3. q[i] \in Nat /\ q[i - 1] \in Nat
      BY <2>1 DEF EndsAt
  <2> QED BY <2>1, <2>2, <2>3
<1>3. c \in 0..(U - 1) /\ e \in Nat /\ e > a /\ e <= b /\ e <= n
    BY <1>1, <1>2
<1>4. begun = (IF i = 1 /\ c # 0 THEN line.origin ELSE h.at + (a - c)) /\ begun \in Int /\ begun # None
  <2>1. begun = (IF i - 1 = 0 /\ c # 0 THEN line.origin ELSE h.at + (a - c))
      BY DEF Opened
  <2>2. i - 1 = 0 <=> i = 1
      BY <1>2
  <2>3. CASE i = 1
    <3>1. a = 0
        BY <1>1, <2>3
    <3> QED BY <1>1, <1>3, <2>1, <2>2, <2>3, <3>1 DEF None
  <2>4. CASE i # 1
    <3>1. a >= U
      <4>1. i - 2 \in Nat
          BY <1>2, <2>4
      <4>2. a = (i - 2) * U + U /\ (i - 2) * U \in Nat
          BY <1>1, <4>1
      <4> QED BY <1>1, <4>2
    <3>2. begun = h.at + (a - c)
        BY <2>1, <2>2, <2>4
    <3> QED BY <1>1, <1>2, <1>3, <2>2, <2>4, <3>1, <3>2 DEF None
  <2> QED BY <2>3, <2>4
<1>5. Opened(h, i) = h.at + (b - c)
    BY <1>2 DEF Opened
<1>6. /\ l = [line EXCEPT !.unitStart = u + a, !.origin = l.origin]
      /\ l.unitStart = u + a
      /\ l.origin = IF i = 1 /\ c = 0 THEN None ELSE begun
  <2>1. CASE i = 1
    <3>1. l = line /\ a = 0
        BY <1>1, <2>1 DEF Cut
    <3>2. l.origin = IF i = 1 /\ c = 0 THEN None ELSE begun
      <4>1. l.origin = line.origin /\ (c = 0 <=> line.origin = None)
          BY <1>1, <3>1
      <4>2. c # 0 => begun = line.origin
          BY <1>4, <2>1
      <4> HIDE DEF l, begun, c
      <4> QED BY <2>1, <4>1, <4>2
    <3>3. u + a = line.unitStart
        BY <1>1, <3>1
    <3> QED BY <3>1, <3>2, <3>3 DEF Lines0
  <2>2. CASE i # 1
    <3>1. i - 1 # 0 /\ i - 1 < P /\ i - 1 \in 1..P
        BY <1>2, <2>2
    <3>2. Captured!CutEnd(i - 1, n) = a
      <4>1. q[i - 1] = (i - 1) * U /\ Captured!CutEnd(i - 1, n) = q[i - 1]
          BY <3>1 DEF EndsAt
      <4> QED BY <4>1
    <3>3. c + a >= a /\ u + a < s + n
        BY <1>1, <1>2, <1>3
    <3>4. Cut(h, n, i - 1) =
            [line |-> [line EXCEPT !.unitStart = u + a, !.origin = begun],
             starts |-> << Opened(h, i - 1 - 1) >>]
        BY <3>1, <3>2, <3>3 DEF Cut
    <3>5. l = [line EXCEPT !.unitStart = u + a, !.origin = begun]
        BY <3>4
    <3> HIDE DEF l, begun, a, c, u
    <3>6. l.unitStart = u + a /\ l.origin = begun
        BY <3>5 DEF Lines0
    <3> QED BY <2>2, <3>5, <3>6
  <2> QED BY <2>1, <2>2
<1> DEFINE from == h.start + a
           to == h.start + e
           end == l.unitStart + U
           captured(x) == h.at + (x - h.start)
           was == IF l.origin = None /\ l.unitStart \in from..(to - 1)
                  THEN captured(l.unitStart) ELSE l.origin
<1>7. was = begun
  <2>1. CASE i = 1 /\ c = 0
    <3>1. a = 0 /\ u = s /\ l.unitStart = s
        BY <1>1, <1>2, <1>6, <2>1
    <3>2. l.origin = None /\ l.unitStart \in from..(to - 1)
      <4>1. l.origin = None
          BY <1>6, <2>1
      <4>2. from = s /\ to = s + e /\ e \in Nat /\ e > 0 /\ s \in Nat
        <5>1. s \in Nat /\ h.start = s /\ a = 0
            BY <1>1, <3>1
        <5>2. e \in Nat /\ e > 0
            BY <1>1, <1>2, <1>3, <3>1
        <5> HIDE DEF a, e, s
        <5> QED BY <5>1, <5>2
      <4> HIDE DEF l, from, to, e, s
      <4>3. s \in from..(to - 1)
          BY <4>2
      <4> QED BY <3>1, <4>1, <4>3
    <3>3. was = h.at + (s - s)
        BY <1>1, <3>1, <3>2
    <3> QED BY <1>1, <1>4, <2>1, <3>1, <3>3
  <2>2. CASE ~(i = 1 /\ c = 0)
      BY <1>4, <1>6, <2>2
  <2> QED BY <2>1, <2>2
<1>8. end = u + b /\ (end > to <=> ~(c + e >= b)) /\ captured(end) = h.at + (b - c)
    BY <1>1, <1>2, <1>3, <1>6
<1>9. Captured!SplitPart(l, h, from, to) =
        IF end > to THEN [line |-> [l EXCEPT !.origin = was], starts |-> << >>]
        ELSE [line |-> [l EXCEPT !.unitStart = end,
                                 !.origin = IF end < h.start + h.size
                                            THEN captured(end) ELSE None],
              starts |-> << was >>]
    BY DEF Captured!SplitPart, None, Captured!None
<1> HIDE DEF begun, was, end, captured, from, to, e
<1>10. [l EXCEPT !.origin = begun] = [line EXCEPT !.unitStart = u + a, !.origin = begun]
    BY <1>6 DEF Lines0
<1>11. \A x, y : [l EXCEPT !.unitStart = x, !.origin = y] = [line EXCEPT !.unitStart = x, !.origin = y]
    BY <1>6 DEF Lines0
<1>12. i # 0
    BY <1>2
<1>13. Cut(h, n, i) =
         IF c + e >= b
         THEN [line |-> [line EXCEPT !.unitStart = u + b,
                                     !.origin = IF u + b < s + n
                                                THEN Opened(h, i) ELSE None],
               starts |-> << begun >>]
         ELSE [line |-> [line EXCEPT !.unitStart = u + a, !.origin = begun],
               starts |-> << >>]
    BY <1>12 DEF Cut, begun, e
<1>14. Cut(h, n, i) = Captured!SplitPart(l, h, from, to)
  <2>1. CASE end > to
      BY <1>7, <1>8, <1>9, <1>10, <1>13, <2>1
  <2>2. CASE ~(end > to)
    <3>1. u + b < s + n <=> end < h.start + h.size
        BY <1>1, <1>8
    <3>2. Opened(h, i) = captured(end)
        BY <1>5, <1>8
    <3>3. Captured!SplitPart(l, h, from, to) =
            [line |-> [line EXCEPT !.unitStart = end,
                                   !.origin = IF end < h.start + h.size
                                              THEN captured(end) ELSE None],
             starts |-> << was >>]
        BY <1>9, <1>11, <2>2
    <3> QED BY <1>7, <1>8, <1>13, <2>2, <3>1, <3>2, <3>3
  <2> QED BY <2>1, <2>2
<1> QED BY <1>14 DEF from, to, e

\* Where a unit begins is a time.
LEMMA OpenedAt ==
    ASSUME MediaConstants, LineFits, line \in Lines0, NEW h \in Headers, NEW i \in Nat
    PROVE  /\ Opened(h, i) \in Nat /\ Opened(h, i) # None
           /\ i # 0 \/ line.sample = line.unitStart =>
                Opened(h, i) = h.at + (i * UnitSamples - (line.sample - line.unitStart))
<1> DEFINE U == UnitSamples
           c == line.sample - line.unitStart
           a == i * U
<1>1. /\ U \in Nat \ {0} /\ h.at \in Nat /\ c \in 0..(U - 1)
      /\ line.origin \in Nat \cup {None} /\ (line.origin = None <=> c = 0)
    BY DEF MediaConstants, Headers, Lines0, LineFits, Times
<1>2. a \in Nat /\ (i = 0 => a = 0) /\ (i # 0 => a >= U)
  <2>1. CASE i = 0
      BY <1>1, <2>1
  <2>2. CASE i # 0
    <3>1. i - 1 \in Nat
        BY <2>2
    <3>2. a = (i - 1) * U + U /\ (i - 1) * U \in Nat
        BY <1>1, <3>1
    <3> QED BY <1>1, <2>2, <3>2
  <2> QED BY <2>1, <2>2
<1>3. Opened(h, i) = IF i = 0 /\ c # 0 THEN line.origin ELSE h.at + (a - c)
    BY DEF Opened
<1>4. line.sample = line.unitStart => c = 0
    BY DEF LineFits, Lines0
<1> HIDE DEF a, U
<1>5. CASE i = 0 /\ c # 0
    BY <1>1, <1>3, <1>4, <1>5 DEF None
<1>6. CASE ~(i = 0 /\ c # 0)
  <2>1. a - c \in Nat
      BY <1>1, <1>2, <1>6
  <2> QED BY <1>1, <1>3, <1>6, <2>1 DEF None, a, U
<1> QED BY <1>5, <1>6

\* The timeline after i parts is the one named so.
LEMMA LinesCut ==
    ASSUME MediaConstants, LineFits, line \in Lines0, NEW h \in Headers,
           h.start = line.sample
    PROVE  \A i \in 0..Captured!PartCount(h.size) :
             Captured!Lines(h, h.size)[i] = Cut(h, h.size, i)
<1> DEFINE n == h.size
           P == Captured!PartCount(n)
           U == UnitSamples
           Next0(r, i) == Captured!SplitPart(r.line, h, h.start + (i - 1) * U,
                                             h.start + Captured!CutEnd(i, n))
           L == Captured!Lines(h, n)
           f == [i \in 0..P |-> Cut(h, n, i)]
           first == [line |-> line, starts |-> << >>]
<1>1. PICK q : EndsAt(n, q)
    BY PartEnds DEF Headers
<1>2. P \in Nat \ {0}
    BY <1>1 DEF EndsAt
<1>3. \A i \in 1..P : Cut(h, n, i) = Next0(Cut(h, n, i - 1), i)
    BY <1>1, PartCut
<1>4. Cut(h, n, 0) = first
    BY DEF Cut
<1> HIDE DEF P
<1>5. f = [i \in 0..P |-> IF i = 0 THEN first ELSE Next0(f[i - 1], i)]
  <2>1. \A i \in 0..P : Cut(h, n, i) = IF i = 0 THEN first ELSE Next0(f[i - 1], i)
    <3> SUFFICES ASSUME NEW i \in 0..P
                 PROVE  Cut(h, n, i) = IF i = 0 THEN first ELSE Next0(f[i - 1], i)
        OBVIOUS
    <3>1. CASE i = 0
        BY <1>4, <3>1
    <3>2. CASE i # 0
      <4>1. i \in 1..P /\ i - 1 \in 0..P
          BY <1>2, <3>2
      <4>2. f[i - 1] = Cut(h, n, i - 1)
          BY <4>1
      <4> HIDE DEF f, Next0
      <4> QED BY <1>3, <3>2, <4>1, <4>2
    <3> QED BY <3>1, <3>2
  <2> HIDE DEF Next0, first
  <2> QED BY <2>1
<1> HIDE DEF f
<1>6. L = [i \in 0..P |-> IF i = 0 THEN first ELSE Next0(L[i - 1], i)]
    BY <1>5 DEF Captured!Lines, P
<1> HIDE DEF L, Next0, first
<1>7. L[0] = first /\ \A i \in 1..P : L[i] = Next0(L[i - 1], i)
  <2>1. 0 \in 0..P /\ \A i \in 1..P : i \in 0..P /\ i # 0
      BY <1>2
  <2> QED BY <1>6, <2>1
<1>8. ASSUME {i \in 0..P : L[i] # Cut(h, n, i)} # {} PROVE FALSE
  <2> DEFINE T == {i \in 0..P : L[i] # Cut(h, n, i)}
  <2>0. T \in SUBSET Nat /\ T # {}
      BY <1>2, <1>8
  <2>1. PICK i \in T : \A y \in T : i <= y
      BY <2>0, Least
  <2>2. i # 0
      BY <1>4, <1>7, <2>1
  <2>3. i \in 1..P /\ i - 1 \in 0..P /\ ~(i <= i - 1)
      BY <1>2, <2>1, <2>2
  <2>4. L[i - 1] = Cut(h, n, i - 1)
      BY <2>1, <2>3
  <2> QED BY <1>3, <1>7, <2>1, <2>3, <2>4
<1> QED BY <1>8 DEF L, P

\* A frame of a page that numbers them is cut into parts that say where their
\* units begin, and the timeline fits what is cut.
LEMMA FrameCut ==
    ASSUME MediaConstants, LineFits, line \in Lines0, NEW h \in Headers,
           h.start = line.sample, NEW s \in Samples, Len(s) = h.size, chunk \in Samples,
           line' = Captured!Split(h, s).line, parts' = Captured!Split(h, s).parts,
           chunk' = chunk
    PROVE  /\ line' \in Lines0 /\ line'.seq = line.seq + 1
           /\ line'.sample = line.sample + h.size
           /\ parts' \in Seq(FrameParts) /\ parts' # << >>
           /\ \A i \in DOMAIN parts' : Len(parts'[i].samples) \in 1..UnitSamples
           /\ \A i \in DOMAIN parts' : parts'[i].named /\ parts'[i].starts # << None >>
           /\ LineFits'
           /\ ChunkTimed /\ (\A k \in 1..h.size : s[k] = h.at + k - 1) => PartsTimed'
<1> DEFINE n == h.size
           P == Captured!PartCount(n)
           U == UnitSamples
           c == line.sample - line.unitStart
           p(i) == Captured!Part(s, i)
           e(i) == Captured!CutEnd(i, n)
           O(i) == Opened(h, i)
           starts(i) == IF c + e(i) >= i * U THEN << O(i - 1) >> ELSE << >>
           lastLine == IF c + n >= P * U
                       THEN [line EXCEPT !.unitStart = line.unitStart + P * U,
                                         !.origin = IF line.unitStart + P * U < line.sample + n
                                                    THEN O(P) ELSE None]
                       ELSE [line EXCEPT !.unitStart = line.unitStart + (P - 1) * U,
                                         !.origin = O(P - 1)]
<1>1. n \in Nat \ {0} /\ U \in Nat \ {0} /\ h.at \in Nat
    BY DEF Headers, MediaConstants
<1>2. PICK q : EndsAt(n, q)
    BY <1>1, PartEnds
<1>3. /\ P \in Nat \ {0} /\ \A i \in 0..P : q[i] \in Nat
      /\ \A i \in 1..P : /\ i \in Nat /\ i - 1 \in Nat /\ i - 1 \in 0..P /\ i \in 0..P
                         /\ q[i] = i * U /\ q[i - 1] = (i - 1) * U
                         /\ q[i] = q[i - 1] + U /\ q[i - 1] < n
                         /\ e(i) = (IF i < P THEN q[i] ELSE n)
                         /\ i < P => q[i] < n
      /\ q[0] = 0 /\ n <= q[P]
  <2>1. P \in Nat \ {0}
      BY <1>2 DEF EndsAt
  <2> QED BY <1>2, <2>1 DEF EndsAt
<1>4. \A i \in 1..P : /\ p(i) \in Samples /\ Len(p(i)) \in 1..U
                      /\ i < P => Len(p(i)) = U
                      /\ q[i - 1] + Len(p(i)) = e(i)
                      /\ \A k \in 1..Len(p(i)) : /\ q[i - 1] + k \in 1..n
                                                /\ p(i)[k] = s[q[i - 1] + k]
    BY <1>1, <1>2, PartSamples
<1>5. Captured!Split(h, s) =
        [line |-> [Captured!Lines(h, n)[P].line EXCEPT !.seq = @ + 1, !.sample = @ + n],
         parts |-> [i \in 1..P |-> [samples |-> p(i), named |-> TRUE,
                                    starts |-> Captured!Lines(h, n)[i].starts]]]
    BY DEF Captured!Split
<1>6. /\ \A i \in 1..P : Captured!Lines(h, n)[i].starts = starts(i)
      /\ Captured!Lines(h, n)[P].line = lastLine
  <2>1. \A i \in 1..P : Captured!Lines(h, n)[i] = Cut(h, n, i) /\ i # 0
    <3>1. \A i \in 0..P : Captured!Lines(h, n)[i] = Cut(h, n, i)
        BY LinesCut
    <3>2. \A i \in 1..P : i \in 0..P /\ i # 0
        BY <1>3
    <3> QED BY <3>1, <3>2
  <2>2. \A i \in 1..P : Cut(h, n, i).starts = starts(i)
      BY <2>1 DEF Cut
  <2>3. P \in 1..P /\ e(P) = n
      BY <1>3
  <2>4. Cut(h, n, P).line = lastLine
      BY <2>1, <2>3 DEF Cut
  <2> QED BY <2>1, <2>2, <2>3, <2>4
<1>7. /\ line' = [lastLine EXCEPT !.seq = @ + 1, !.sample = @ + n]
      /\ parts' = [i \in 1..P |-> [samples |-> p(i), named |-> TRUE, starts |-> starts(i)]]
  <2> HIDE DEF lastLine, starts
  <2>1. Captured!Split(h, s).line = [lastLine EXCEPT !.seq = @ + 1, !.sample = @ + n]
      BY <1>5, <1>6
  <2>2. Captured!Split(h, s).parts =
          [i \in 1..P |-> [samples |-> p(i), named |-> TRUE,
                           starts |-> Captured!Lines(h, n)[i].starts]]
      BY <1>5
  <2>3. Captured!Split(h, s).parts =
          [i \in 1..P |-> [samples |-> p(i), named |-> TRUE, starts |-> starts(i)]]
      BY <1>6, <2>2
  <2> QED BY <2>1, <2>3
<1>8. \A i \in Nat : /\ O(i) \in Nat /\ O(i) # None
                     /\ i # 0 \/ c = 0 => O(i) = h.at + (i * U - c)
  <2>1. c = 0 => line.sample = line.unitStart
      BY DEF Lines0
  <2> QED BY <2>1, OpenedAt
<1>9. /\ line.sample \in Nat /\ line.unitStart \in Nat /\ c \in 0..(U - 1) /\ line.seq \in Nat
      /\ line \in Lines0 /\ line.sample = line.unitStart + c
    BY <1>1 DEF Lines0, LineFits
<1>11. O(0) = IF c = 0 THEN h.at ELSE line.origin
  <2>1. CASE c = 0
    <3>1. 0 * U - c = 0 /\ 0 \in Nat
        BY <1>1, <2>1
    <3>2. O(0) = h.at + (0 * U - c)
        BY <1>8, <2>1, <3>1
    <3> HIDE DEF O
    <3> QED BY <1>1, <2>1, <3>1, <3>2
  <2>2. CASE c # 0
      BY <2>2 DEF Opened
  <2> QED BY <2>1, <2>2
<1> HIDE DEF p, e, O, P, n, U
<1>12. /\ DOMAIN parts' = 1..P /\ Len(parts') = P /\ parts' \in Seq(FrameParts) /\ parts' # << >>
       /\ \A i \in 1..P : /\ parts'[i].samples = p(i) /\ parts'[i].named
                          /\ parts'[i].starts = starts(i)
  <2>1. DOMAIN parts' = 1..P /\ \A i \in 1..P :
           parts'[i] = [samples |-> p(i), named |-> TRUE, starts |-> starts(i)]
      BY <1>7
  <2>2. \A i \in 1..P : starts(i) \in Seq(Times)
    <3>1. \A i \in 1..P : O(i - 1) \in Times
        BY <1>3, <1>8 DEF Times
    <3>2. \A x \in Times : << x >> \in Seq(Times)
        OBVIOUS
    <3>3. << >> \in Seq(Times)
        OBVIOUS
    <3> QED BY <3>1, <3>2, <3>3
  <2> HIDE DEF starts
  <2>3. \A i \in 1..P : parts'[i] \in FrameParts
    <3>1. \A i \in 1..P : p(i) \in Samples
        BY <1>4
    <3>2. \A x \in Samples, y \in Seq(Times) :
             [samples |-> x, named |-> TRUE, starts |-> y] \in FrameParts
        BY DEF FrameParts
    <3> QED BY <2>1, <2>2, <3>1, <3>2
  <2>4. parts' = [i \in 1..P |-> parts'[i]]
      BY <1>7
  <2>5. parts' \in Seq(FrameParts) /\ Len(parts') = P
    <3> DEFINE ps == parts'
    <3>1. ps = [i \in 1..P |-> ps[i]] /\ \A i \in 1..P : ps[i] \in FrameParts
        BY <2>3, <2>4
    <3> HIDE DEF ps
    <3>2. ps \in [1..P -> FrameParts]
        BY <3>1
    <3>3. ps \in Seq(FrameParts) /\ Len(ps) = P
        BY <1>3, <3>2, SeqDef, LenProperties
    <3> QED BY <3>3 DEF ps
  <2>6. parts' # << >>
    <3>1. Len(parts') # 0
        BY <1>3, <2>5
    <3> QED BY <3>1
  <2>7. \A i \in 1..P : /\ parts'[i].samples = p(i) /\ parts'[i].named
                        /\ parts'[i].starts = starts(i)
    <3> SUFFICES ASSUME NEW i \in 1..P
                 PROVE  /\ parts'[i].samples = p(i) /\ parts'[i].named
                        /\ parts'[i].starts = starts(i)
        OBVIOUS
    <3>1. parts'[i] = [samples |-> p(i), named |-> TRUE, starts |-> starts(i)]
        BY <2>1
    <3>2. \A x, y, z : [samples |-> x, named |-> y, starts |-> z].samples = x
        OBVIOUS
    <3>3. \A x, y, z : [samples |-> x, named |-> y, starts |-> z].named = y
        OBVIOUS
    <3>4. \A x, y, z : [samples |-> x, named |-> y, starts |-> z].starts = z
        OBVIOUS
    <3>5. parts'[i].samples = p(i) /\ parts'[i].starts = starts(i)
        BY <3>1, <3>2, <3>4
    <3>6. parts'[i].named = TRUE
        BY <3>1, <3>3
    <3> QED BY <3>5, <3>6
  <2> QED BY <2>1, <2>5, <2>6, <2>7
<1>13. \A i \in 1..P : c + e(i) >= i * U <=> c + Len(p(i)) >= U
  <2> SUFFICES ASSUME NEW i \in 1..P PROVE c + e(i) >= i * U <=> c + Len(p(i)) >= U
      OBVIOUS
  <2>1. q[i - 1] \in Nat /\ i * U = q[i - 1] + U /\ q[i - 1] + Len(p(i)) = e(i)
        /\ Len(p(i)) \in Nat
    <3>1. q[i - 1] \in Nat /\ i * U = q[i - 1] + U
        BY <1>3
    <3>2. q[i - 1] + Len(p(i)) = e(i) /\ Len(p(i)) \in Nat
        BY <1>4
    <3> QED BY <3>1, <3>2
  <2> HIDE DEF c
  <2> QED BY <1>1, <1>9, <2>1
<1>14. \A i \in 1..P : parts'[i].starts # << None >>
  <2> SUFFICES ASSUME NEW i \in 1..P PROVE starts(i) # << None >>
      BY <1>12
  <2>1. O(i - 1) # None
      BY <1>3, <1>8
  <2>2. << O(i - 1) >> # << None >> /\ << >> # << None >>
      BY <2>1
  <2> QED BY <2>2
<1>16. /\ P \in 1..P /\ P * U = q[P] /\ (P - 1) * U = q[P - 1] /\ q[P] = q[P - 1] + U
       /\ q[P] \in Nat /\ q[P - 1] \in Nat /\ q[P - 1] < n /\ n <= q[P] /\ e(P) = n
       /\ Len(p(P)) = n - q[P - 1] /\ P - 1 \in Nat /\ P \in Nat /\ P # 0
  <2>1. P \in 1..P
      BY <1>3
  <2>2. q[P - 1] + Len(p(P)) = e(P) /\ Len(p(P)) \in Nat
      BY <1>4, <2>1
  <2>3. P * U = q[P] /\ (P - 1) * U = q[P - 1] /\ q[P] = q[P - 1] + U
        /\ q[P] \in Nat /\ q[P - 1] \in Nat /\ q[P - 1] < n /\ n <= q[P] /\ e(P) = n
      BY <1>3, <2>1
  <2>4. Len(p(P)) = n - q[P - 1]
      BY <1>1, <2>2, <2>3
  <2> QED BY <1>3, <2>1, <2>3, <2>4
<1>17. /\ line'.seq = line.seq + 1 /\ line'.sample = line.sample + n
       /\ line'.unitStart = IF c + n >= q[P] THEN line.unitStart + q[P]
                                             ELSE line.unitStart + q[P - 1]
       /\ line'.origin = IF c + n >= q[P]
                         THEN IF c + n > q[P] THEN O(P) ELSE None
                         ELSE O(P - 1)
       /\ line' = [seq |-> line'.seq, sample |-> line'.sample,
                   unitStart |-> line'.unitStart, origin |-> line'.origin]
  <2>1. line.unitStart + P * U < line.sample + n <=> c + n > q[P]
    <3>1. /\ n \in Nat /\ c \in Nat /\ q[P] \in Nat /\ line.unitStart \in Nat
          /\ line.sample = line.unitStart + c
        BY <1>1, <1>9, <1>16
    <3>2. P * U = q[P]
        BY <1>16
    <3> HIDE DEF c
    <3>3. line.unitStart + q[P] < line.sample + n <=> c + n > q[P]
        BY <3>1
    <3> QED BY <3>2, <3>3
  <2> DEFINE us == IF c + n >= q[P] THEN line.unitStart + q[P] ELSE line.unitStart + q[P - 1]
             org == IF c + n >= q[P]
                    THEN IF c + n > q[P] THEN O(P) ELSE None
                    ELSE O(P - 1)
  <2>2. lastLine = [line EXCEPT !.unitStart = us, !.origin = org]
    <3>1. P * U = q[P] /\ (P - 1) * U = q[P - 1]
        BY <1>16
    <3> HIDE DEF c
    <3> QED BY <2>1, <3>1
  <2> HIDE DEF us, org, lastLine
  <2>3. line' = [seq |-> line.seq + 1, sample |-> line.sample + n,
                 unitStart |-> us, origin |-> org]
      BY <1>7, <2>2 DEF Lines0
  <2> QED BY <2>3 DEF us, org
<1>30. /\ n \in Nat /\ U \in Nat \ {0} /\ c \in 0..(U - 1) /\ h.at \in Nat
       /\ q[P] \in Nat /\ q[P - 1] \in Nat /\ q[P - 1] < n /\ n <= q[P] /\ q[P] = q[P - 1] + U
       /\ Len(p(P)) = n - q[P - 1]
       /\ line.sample = line.unitStart + c /\ line.unitStart \in Nat
       /\ line'.sample = line.sample + n
       /\ line'.unitStart = IF c + n >= q[P] THEN line.unitStart + q[P]
                                             ELSE line.unitStart + q[P - 1]
    BY <1>1, <1>9, <1>16, <1>17
<1>18. line' \in Lines0
  <2>1. O(P) \in Nat /\ O(P - 1) \in Nat
      BY <1>8, <1>16
  <2>2. line'.origin \in Times
      BY <1>17, <2>1 DEF Times
  <2>3. line'.seq \in Nat \ {0} /\ line'.sample \in Nat /\ line'.unitStart \in Nat
    <3>1. /\ n \in Nat /\ q[P] \in Nat /\ q[P - 1] \in Nat /\ line.unitStart \in Nat
          /\ line.sample \in Nat /\ line.seq \in Nat
        BY <1>1, <1>9, <1>16
    <3>2. /\ line.unitStart + q[P] \in Nat /\ line.unitStart + q[P - 1] \in Nat
          /\ line.sample + n \in Nat /\ line.seq + 1 \in Nat \ {0}
        BY <3>1
    <3> QED BY <1>17, <3>2
  <2> QED BY <1>17, <2>2, <2>3 DEF Lines0
<1>19. line'.origin = None <=> c + n = q[P]
  <2>1. O(P) # None /\ O(P - 1) # None
      BY <1>8, <1>16
  <2>2. c \in Nat
      BY <1>9
  <2> HIDE DEF c
  <2>3. n \in Nat /\ q[P] \in Nat
      BY <1>30
  <2> QED BY <1>17, <2>1, <2>2, <2>3
<1>31. LET t == line.unitStart + c + n
           v == IF c + n >= q[P] THEN line.unitStart + q[P] ELSE line.unitStart + q[P - 1]
       IN /\ v <= t /\ t < v + U
          /\ (t = v <=> c + n = q[P])
          /\ t - v = (IF c + n >= q[P] THEN c + n - q[P] ELSE c + n - q[P - 1])
          /\ (c + (n - q[P - 1]) >= U <=> c + n >= q[P])
          /\ t - v = (IF c + (n - q[P - 1]) >= U THEN c + (n - q[P - 1]) - U
                                                 ELSE c + (n - q[P - 1]))
          /\ (c + n > q[P] => U + 1 - c \in 1..(n - q[P - 1]))
          /\ h.at + q[P - 1] + (U + 1 - c) - 1 = h.at + (q[P] - c)
          /\ line.unitStart + q[P] \in Nat /\ line.unitStart + q[P - 1] \in Nat
  <2> DEFINE x == q[P]
             y == q[P - 1]
             u == line.unitStart
             a == h.at
  <2>1. /\ n \in Nat /\ U \in Nat \ {0} /\ c \in 0..(U - 1) /\ a \in Nat
        /\ x \in Nat /\ y \in Nat /\ y < n /\ n <= x /\ x = y + U /\ u \in Nat
      BY <1>30
  <2> HIDE DEF c, x, y, u, a
  <2>2. LET t == u + c + n
            v == IF c + n >= x THEN u + x ELSE u + y
        IN /\ v <= t /\ t < v + U
           /\ (t = v <=> c + n = x)
           /\ t - v = (IF c + n >= x THEN c + n - x ELSE c + n - y)
           /\ (c + (n - y) >= U <=> c + n >= x)
           /\ t - v = (IF c + (n - y) >= U THEN c + (n - y) - U ELSE c + (n - y))
           /\ (c + n > x => U + 1 - c \in 1..(n - y))
           /\ a + y + (U + 1 - c) - 1 = a + (x - c)
           /\ u + x \in Nat /\ u + y \in Nat
      BY <2>1
  <2> QED BY <2>2 DEF x, y, u, a
<1>20. /\ line'.unitStart <= line'.sample /\ line'.sample < line'.unitStart + U
       /\ (line'.sample = line'.unitStart <=> c + n = q[P])
       /\ line'.sample - line'.unitStart = IF c + Len(p(P)) >= U THEN c + Len(p(P)) - U
                                           ELSE c + Len(p(P))
       /\ (c + Len(p(P)) >= U <=> c + n >= q[P])
       /\ (c + n > q[P] => U + 1 - c \in 1..Len(p(P)))
       /\ h.at + q[P - 1] + (U + 1 - c) - 1 = h.at + (q[P] - c)
  <2> HIDE DEF c
  <2> QED BY <1>30, <1>31
<1>21. LineFits'
    BY <1>19, <1>20 DEF LineFits, U
<1>32. ASSUME ChunkTimed, \A k \in 1..n : s[k] = h.at + k - 1 PROVE PartsTimed'
  <2>4. \A i \in 1..P : \A k \in 1..Len(p(i)) : p(i)[k] = h.at + q[i - 1] + k - 1
    <3> SUFFICES ASSUME NEW i \in 1..P, NEW k \in 1..Len(p(i))
                 PROVE  p(i)[k] = h.at + q[i - 1] + k - 1
        OBVIOUS
    <3>1. q[i - 1] + k \in 1..n /\ p(i)[k] = s[q[i - 1] + k]
        BY <1>4
    <3>2. s[q[i - 1] + k] = h.at + (q[i - 1] + k) - 1
        BY <1>32, <3>1
    <3>3. q[i - 1] \in Nat /\ k \in Nat
        BY <1>3
    <3>4. h.at + (q[i - 1] + k) - 1 = h.at + q[i - 1] + k - 1
        BY <1>1, <3>3
    <3> QED BY <3>1, <3>2, <3>4
  <2>10. c = Len(chunk) /\ (chunk # << >> => line.origin = chunk[1]) /\ (c = 0 <=> chunk = << >>)
    <3>1. Len(chunk) = 0 <=> chunk = << >>
        BY EmptySeq DEF Samples
    <3> QED BY <1>32, <3>1 DEF ChunkTimed
  <2>15. \A i \in 1..P : Begins(i)' = O(i - 1)
    <3> SUFFICES ASSUME NEW i \in 1..P PROVE Begins(i)' = O(i - 1)
        OBVIOUS
    <3>0. Begins(i)' = IF chunk = << >> THEN p(i)[1]
                       ELSE IF i = 1 THEN chunk[1]
                       ELSE parts'[i - 1].samples[U + 1 - Len(chunk)]
        BY <1>12 DEF Begins, U
    <3>1. CASE chunk = << >>
      <4>1. p(i)[1] = h.at + q[i - 1] + 1 - 1
          BY <1>1, <1>4, <2>4
      <4>2. O(i - 1) = h.at + ((i - 1) * U - c) /\ c = 0 /\ q[i - 1] = (i - 1) * U /\ q[i - 1] \in Nat
          BY <1>3, <1>8, <2>10, <3>1
      <4> HIDE DEF c
      <4>3. O(i - 1) = h.at + q[i - 1]
          BY <1>1, <4>2
      <4> QED BY <1>1, <3>0, <3>1, <4>1, <4>2, <4>3
    <3>2. CASE chunk # << >> /\ i = 1
      <4>1. i - 1 = 0
          BY <3>2
      <4> QED BY <1>11, <2>10, <3>0, <3>2, <4>1
    <3>3. CASE chunk # << >> /\ i # 1
      <4>1. i - 1 \in 1..P /\ i - 1 < P /\ i - 1 # 0 /\ i - 1 \in Nat
          BY <1>3, <3>3
      <4>2. Len(p(i - 1)) = U /\ \A k \in 1..U : p(i - 1)[k] = h.at + q[i - 1 - 1] + k - 1
          BY <1>4, <2>4, <4>1
      <4>3. q[i - 1] = q[i - 1 - 1] + U /\ q[i - 1] = (i - 1) * U /\ q[i - 1 - 1] \in Nat
          BY <1>3, <4>1
      <4>4. O(i - 1) = h.at + ((i - 1) * U - c)
          BY <1>8, <4>1
      <4>5. c # 0 /\ c = Len(chunk)
          BY <2>10, <3>3
      <4> HIDE DEF c
      <4>6. U + 1 - c \in 1..U
          BY <1>1, <1>9, <4>5
      <4>7. p(i - 1)[U + 1 - c] = h.at + q[i - 1 - 1] + (U + 1 - c) - 1
          BY <4>2, <4>6
      <4>8. parts'[i - 1].samples = p(i - 1)
          BY <1>12, <4>1
      <4>9. h.at + q[i - 1 - 1] + (U + 1 - c) - 1 = h.at + (q[i - 1] - c)
          BY <1>1, <1>9, <4>3
      <4>10. Begins(i)' = parts'[i - 1].samples[U + 1 - Len(chunk)]
          BY <3>0, <3>3
      <4> QED BY <4>3, <4>4, <4>5, <4>7, <4>8, <4>9, <4>10
    <3> QED BY <3>1, <3>2, <3>3
  <2>24. line'.origin # None =>
            line'.origin = IF c + Len(p(P)) >= U THEN p(P)[U + 1 - c] ELSE O(P - 1)
    <3> SUFFICES ASSUME line'.origin # None
                 PROVE  line'.origin = IF c + Len(p(P)) >= U THEN p(P)[U + 1 - c] ELSE O(P - 1)
        OBVIOUS
    <3>1. CASE c + n >= q[P]
      <4>1. line'.origin = O(P) /\ c + n > q[P]
          BY <1>17, <3>1
      <4>2. O(P) = h.at + (q[P] - c)
          BY <1>8, <1>16
      <4> HIDE DEF c
      <4>3. U + 1 - c \in 1..Len(p(P))
          BY <1>20, <4>1
      <4>4. p(P)[U + 1 - c] = h.at + q[P - 1] + (U + 1 - c) - 1
          BY <1>16, <2>4, <4>3
      <4>5. h.at + q[P - 1] + (U + 1 - c) - 1 = h.at + (q[P] - c)
          BY <1>20
      <4> QED BY <1>20, <3>1, <4>1, <4>2, <4>4, <4>5
    <3>2. CASE ~(c + n >= q[P])
        BY <1>16, <1>17, <2>15, <1>20, <3>2
    <3> QED BY <3>1, <3>2
  <2>25. PartsTimed'
    <3>1. c = Len(chunk')
        BY <2>10
    <3> HIDE DEF c
    <3>2. ASSUME NEW i \in 1..P PROVE PartTimed(i)'
      <4>1. parts'[i].samples = p(i) /\ parts'[i].named /\ parts'[i].starts = starts(i)
          BY <1>12
      <4>2. (i < P => Len(p(i)) = U) /\ (c + e(i) >= i * U <=> c + Len(p(i)) >= U)
          BY <1>4, <1>13
      <4>3. Begins(i)' = O(i - 1) /\ Len(parts') = P
          BY <1>12, <2>15
      <4>4. parts'[i].starts = IF Len(chunk') + Len(parts'[i].samples) >= U
                               THEN << Begins(i)' >> ELSE << >>
          BY <3>1, <4>1, <4>2, <4>3
      <4>5. i < Len(parts') => Len(parts'[i].samples) = U
          BY <4>1, <4>2, <4>3
      <4> QED BY <4>1, <4>4, <4>5 DEF PartTimed, Heard, U
    <3>3. ASSUME NEW m, m = P PROVE EndTimed(m)'
      <4>1. parts'[m].samples = p(P) /\ Begins(m)' = O(P - 1)
          BY <1>12, <1>16, <2>15, <3>3
      <4>2. line'.sample - line'.unitStart =
              IF Len(chunk') + Len(parts'[m].samples) >= U
              THEN Len(chunk') + Len(parts'[m].samples) - U
              ELSE Len(chunk') + Len(parts'[m].samples)
          BY <1>20, <3>1, <4>1
      <4>3. line'.origin # None =>
              line'.origin = IF Len(chunk') + Len(parts'[m].samples) >= U
                             THEN parts'[m].samples[U + 1 - Len(chunk')] ELSE Begins(m)'
          BY <2>24, <3>1, <4>1
      <4>4. /\ line'.sample \in Int /\ line'.unitStart \in Int /\ U \in Int
            /\ Len(chunk') \in Int /\ Len(parts'[m].samples) \in Int
        <5>1. line'.sample \in Int /\ line'.unitStart \in Int /\ U \in Int
            BY <1>1, <1>18 DEF Lines0
        <5>2. Len(p(P)) \in Int
            BY <1>4, <1>16
        <5>3. c \in Int
            BY <1>9
        <5> QED BY <3>1, <4>1, <5>1, <5>2, <5>3
      <4> QED BY <4>2, <4>3, <4>4 DEF EndTimed, Heard, U
    <3>4. DOMAIN parts' = 1..P /\ Len(parts') = P
        BY <1>12
    <3> QED BY <3>2, <3>3, <3>4 DEF PartsTimed
  <2> QED BY <2>25
<1>26. \A i \in DOMAIN parts' : Len(parts'[i].samples) \in 1..U
    BY <1>4, <1>12
<1> QED BY <1>12, <1>14, <1>17, <1>18, <1>21, <1>26, <1>32 DEF n, U

\* Each part knows where the unit that ends in it begins.
LEMMA NeverLost ==
    ASSUME MediaConstants, LineFits, line \in Lines0, NEW h \in Headers,
           h.start = line.sample, NEW s \in Samples, Len(s) = h.size
    PROVE  \A i \in DOMAIN Captured!Split(h, s).parts :
             Captured!Split(h, s).parts[i].starts # << None >>
<1> DEFINE n == h.size
           P == Captured!PartCount(n)
           r(i) == [samples |-> Captured!Part(s, i), named |-> TRUE,
                    starts |-> Captured!Lines(h, n)[i].starts]
           ps == Captured!Split(h, s).parts
<1>1. ps = [i \in 1..P |-> r(i)]
    BY DEF Captured!Split
<1>2. n \in Nat \ {0}
    BY DEF Headers
<1>3. PICK q : EndsAt(n, q)
    BY <1>2, PartEnds
<1>4. P \in Nat \ {0} /\ \A i \in 1..P : i \in 0..P /\ i # 0 /\ i - 1 \in Nat
  <2>1. P \in Nat \ {0}
      BY <1>3 DEF EndsAt
  <2> QED BY <2>1
<1> SUFFICES ASSUME NEW i \in DOMAIN ps PROVE ps[i].starts # << None >>
    OBVIOUS
<1>5. i \in 1..P /\ ps[i] = r(i)
  <2> HIDE DEF r, ps
  <2> QED BY <1>1
<1>6. Captured!Lines(h, n)[i] = Cut(h, n, i)
    BY <1>4, <1>5, LinesCut
<1>7. Opened(h, i - 1) # None
    BY <1>4, <1>5, OpenedAt
<1>8. Cut(h, n, i).starts \in {<< Opened(h, i - 1) >>, << >>}
    BY <1>4, <1>5 DEF Cut
<1>9. ps[i].starts = Cut(h, n, i).starts
  <2>1. r(i).starts = Captured!Lines(h, n)[i].starts
      OBVIOUS
  <2> QED BY <1>5, <1>6, <2>1
<1>10. \A x : x # None => << x >> # << None >> /\ << >> # << None >>
    OBVIOUS
<1> HIDE DEF ps
<1> QED BY <1>7, <1>8, <1>9, <1>10

\* A message without a header is cut into parts that nothing is known of.
LEMMA PlainCut ==
    ASSUME MediaConstants, NEW s \in Samples, s # << >>
    PROVE  LET ps == Captured!Unheaded(s) IN
           /\ ps \in Seq(FrameParts) /\ ps # << >>
           /\ \A i \in DOMAIN ps : /\ Len(ps[i].samples) \in 1..UnitSamples
                                   /\ ~ ps[i].named /\ ps[i].starts = << None >>
<1> DEFINE n == Len(s)
           P == Captured!PartCount(n)
           p(i) == Captured!Part(s, i)
           ps == Captured!Unheaded(s)
           r(i) == [samples |-> p(i), named |-> FALSE, starts |-> << None >>]
<1>1. n \in Nat \ {0}
    BY EmptySeq, LenProperties DEF Samples
<1>2. PICK q : EndsAt(n, q)
    BY <1>1, PartEnds
<1>3. P \in Nat \ {0}
    BY <1>2 DEF EndsAt
<1>4. \A i \in 1..P : p(i) \in Samples /\ Len(p(i)) \in 1..UnitSamples
    BY <1>1, <1>2, PartSamples
<1>5. ps = [i \in 1..P |-> r(i)]
    BY DEF Captured!Unheaded, None, Captured!None
<1> HIDE DEF p, P, n, ps
<1>6. \A i \in 1..P : r(i) \in FrameParts
  <2>1. << None >> \in Seq(Times)
    <3>1. None \in Times
        BY DEF Times
    <3> QED BY <3>1
  <2>2. \A x \in Samples, y \in Seq(Times) :
           [samples |-> x, named |-> FALSE, starts |-> y] \in FrameParts
      BY DEF FrameParts
  <2> QED BY <1>4, <2>1, <2>2
<1>7. \A i \in 1..P : r(i).samples = p(i) /\ r(i).starts = << None >> /\ ~ r(i).named
    OBVIOUS
<1> HIDE DEF r
<1>8. ps \in [1..P -> FrameParts]
    BY <1>5, <1>6
<1>9. ps \in Seq(FrameParts) /\ Len(ps) = P /\ DOMAIN ps = 1..P
    BY <1>3, <1>8, SeqDef, LenProperties
<1>10. ps # << >>
  <2>1. Len(ps) # 0
      BY <1>3, <1>9
  <2> QED BY <2>1
<1>11. \A i \in 1..P : /\ Len(ps[i].samples) \in 1..UnitSamples
                       /\ ~ ps[i].named /\ ps[i].starts = << None >>
  <2> SUFFICES ASSUME NEW i \in 1..P
               PROVE  /\ Len(ps[i].samples) \in 1..UnitSamples
                      /\ ~ ps[i].named /\ ps[i].starts = << None >>
      OBVIOUS
  <2>1. ps[i] = r(i)
      BY <1>5
  <2>2. Len(p(i)) \in 1..UnitSamples
      BY <1>4
  <2>3. ~ ps[i].named
      BY <1>7, <2>1
  <2> QED BY <1>7, <2>1, <2>2, <2>3
<1> QED BY <1>9, <1>10, <1>11 DEF ps

-----------------------------------------------------------------------------
(* The wire *)

\* Reading the first message.
LEMMA WireTail ==
    ASSUME wire \in Seq(Messages), wire # << >>, wire' = Tail(wire), client' = client,
           NEW e, WireNumbered(e), \A i \in DOMAIN wire : Placed(i),
           Expected' = IF wire[1].kind = "header" THEN After(wire[1].h) ELSE Expected,
           wire[1].kind = "header" => header' # Captured!NoHeader,
           HeaderFits'
    PROVE  WireFits'
<1>0. PICK n : n = Len(wire)
    OBVIOUS
<1> DEFINE d == [i \in 1..n |-> e[i + 1]]
<1>1. n \in Nat \ {0} /\ DOMAIN wire = 1..n
  <2>1. n \in Nat /\ DOMAIN wire = 1..n
      BY <1>0, Items
  <2>2. n # 0
      BY <1>0, EmptySeq
  <2> QED BY <2>1, <2>2
<1>2. /\ Len(wire') = n - 1 /\ DOMAIN wire' = 1..(n - 1)
      /\ \A i \in 1..(n - 1) : wire'[i] = wire[i + 1]
  <2>1. /\ Tail(wire) \in Seq(Messages) /\ Len(Tail(wire)) = n - 1
        /\ \A i \in 1..Len(Tail(wire)) : Tail(wire)[i] = wire[i + 1]
      BY <1>0, HeadTailProperties
  <2>2. DOMAIN Tail(wire) = 1..Len(Tail(wire))
      BY <2>1, Items
  <2> QED BY <2>1, <2>2
<1>3. \A i \in 1..n : Counted(e, i) /\ Placed(i)
    BY <1>1 DEF WireNumbered
<1>4. d[1] = Expected'
  <2>1. e[1] = Expected /\ Counted(e, 1) /\ d[1] = e[2]
      BY <1>1, <1>3 DEF WireNumbered
  <2> QED BY <2>1 DEF Counted
<1>5. ASSUME NEW i \in DOMAIN wire' PROVE Counted(d, i)'
  <2>1. i \in 1..(n - 1) /\ i + 1 \in 1..n /\ i \in 1..n /\ wire'[i] = wire[i + 1]
      BY <1>1, <1>2, <1>5
  <2>2. d[i] = e[i + 1] /\ d[i + 1] = e[i + 1 + 1] /\ Counted(e, i + 1)
      BY <1>3, <2>1
  <2> HIDE DEF d
  <2> QED BY <2>1, <2>2 DEF Counted
<1>6. ~ client'.paused => d[Len(wire') + 1] = [seq |-> client'.seq + 1, start |-> client'.cap]
  <2>1. n \in 1..n /\ Len(wire') + 1 = n
      BY <1>1, <1>2
  <2>2. d[Len(wire') + 1] = e[n + 1]
      BY <2>1
  <2> QED BY <1>0, <2>2 DEF WireNumbered
<1>7. ASSUME NEW i \in DOMAIN wire' PROVE Placed(i)'
  <2>1. i \in 1..(n - 1) /\ i + 1 \in 1..n /\ wire'[i] = wire[i + 1] /\ i \in Nat /\ n \in Nat
      BY <1>1, <1>2, <1>7
  <2>2. Placed(i + 1)
      BY <1>3, <2>1
  <2>3. wire'[i].kind = "header" => i < Len(wire') /\ Follows(wire'[i + 1], wire'[i].h)
    <3> SUFFICES ASSUME wire'[i].kind = "header"
                 PROVE  i < Len(wire') /\ Follows(wire'[i + 1], wire'[i].h)
        OBVIOUS
    <3>1. i + 1 < n /\ Follows(wire[i + 1 + 1], wire[i + 1].h)
        BY <1>0, <2>1, <2>2 DEF Placed
    <3>2. i + 1 \in 1..(n - 1)
        BY <2>1, <3>1
    <3>3. wire'[i + 1] = wire[i + 1 + 1]
        BY <1>2, <3>2
    <3>4. i < Len(wire')
        BY <1>2, <2>1, <3>1
    <3> QED BY <2>1, <3>1, <3>3, <3>4
  <2>4. wire'[i].kind = "pcm" => IF i = 1 THEN header' # Captured!NoHeader
                                          ELSE wire'[i - 1].kind = "header"
    <3> SUFFICES ASSUME wire'[i].kind = "pcm"
                 PROVE  IF i = 1 THEN header' # Captured!NoHeader
                                 ELSE wire'[i - 1].kind = "header"
        OBVIOUS
    <3>1. i + 1 # 1 /\ i + 1 - 1 = i
        BY <2>1
    <3>2. wire[i + 1 - 1].kind = "header"
        BY <2>1, <2>2, <3>1 DEF Placed
    <3>3. wire[i].kind = "header"
        BY <3>1, <3>2
    <3>4. CASE i = 1
        BY <3>3, <3>4
    <3>5. CASE i # 1
      <4>1. i - 1 \in 1..(n - 1) /\ i - 1 + 1 = i
          BY <2>1, <3>5
      <4> QED BY <1>2, <3>3, <3>5, <4>1
    <3> QED BY <3>4, <3>5
  <2>5. wire'[i].kind \in {"reset", "stop", "gone"} => i = Len(wire') /\ client'.paused
    <3> SUFFICES ASSUME wire'[i].kind \in {"reset", "stop", "gone"}
                 PROVE  i = Len(wire') /\ client'.paused
        OBVIOUS
    <3>1. i + 1 = n /\ client.paused
        BY <1>0, <2>1, <2>2 DEF Placed
    <3> QED BY <1>2, <2>1, <3>1
  <2> QED BY <2>3, <2>4, <2>5 DEF Placed
<1> HIDE DEF d
<1>8. WireNumbered(d)'
    BY <1>4, <1>5, <1>6 DEF WireNumbered
<1>9. (\E x : WireNumbered(x))'
    BY <1>8
<1> QED BY <1>7, <1>9 DEF WireFits

\* Sending a message that is no sound, or losing all from one on.
LEMMA WireEnds ==
    ASSUME wire \in Seq(Messages), wire' \in Seq(Messages), WireFits, ~ client.paused,
           NEW k \in 0..Len(wire), NEW m,
           Len(wire') = k + 1, \A i \in 1..k : wire'[i] = wire[i], wire'[k + 1] = m,
           m.kind \in {"mode", "reset", "stop", "gone"}, k = Len(wire) \/ m.kind = "gone",
           client' = [client EXCEPT !.paused = client'.paused],
           client \in Clients,
           client'.paused <=> m.kind # "mode",
           header' = header, line' = line
    PROVE  WireFits'
<1> DEFINE n == Len(wire)
<1>1. PICK e : WireNumbered(e)
    BY DEF WireFits
<1> DEFINE d == [i \in 1..(k + 2) |-> IF i <= k + 1 THEN e[i] ELSE e[k + 1]]
<1>2. /\ n \in Nat /\ DOMAIN wire = 1..n /\ DOMAIN wire' = 1..(k + 1) /\ k \in Nat /\ k <= n
  <2>1. n \in Nat /\ DOMAIN wire = 1..n /\ DOMAIN wire' = 1..Len(wire')
      BY Items
  <2> QED BY <2>1
<1> HIDE DEF n
<1>3. \A i \in 1..n : Counted(e, i) /\ Placed(i)
    BY <1>1, <1>2 DEF WireNumbered, WireFits
<1>4. client'.seq = client.seq /\ client'.cap = client.cap
    BY DEF Clients
<1>5. d[1] = Expected'
  <2>1. d[1] = e[1]
      BY <1>2
  <2> QED BY <1>1, <2>1 DEF WireNumbered, Expected
<1>6. ASSUME NEW i \in DOMAIN wire' PROVE Counted(d, i)'
  <2>1. CASE i = k + 1
    <3>1. d[i] = e[k + 1] /\ d[i + 1] = e[k + 1]
        BY <1>2, <2>1
    <3> QED BY <2>1, <3>1 DEF Counted
  <2>2. CASE i # k + 1
    <3>1. i \in 1..k /\ i \in 1..n /\ i + 1 <= k + 1 /\ i <= k + 1 /\ i \in 1..(k + 2)
          /\ i + 1 \in 1..(k + 2)
        BY <1>2, <1>6, <2>2
    <3>2. d[i] = e[i] /\ d[i + 1] = e[i + 1] /\ wire'[i] = wire[i] /\ Counted(e, i)
        BY <1>3, <3>1
    <3> QED BY <3>2 DEF Counted
  <2> QED BY <2>1, <2>2
<1>7. ~ client'.paused => d[Len(wire') + 1] = [seq |-> client'.seq + 1, start |-> client'.cap]
  <2> SUFFICES ASSUME ~ client'.paused
               PROVE  d[Len(wire') + 1] = [seq |-> client'.seq + 1, start |-> client'.cap]
      OBVIOUS
  <2>1. m.kind # "gone"
      BY DEF Messages
  <2>2. k = n
      BY <2>1 DEF n
  <2>3. d[Len(wire') + 1] = e[n + 1]
      BY <1>2, <2>2
  <2>4. e[n + 1] = [seq |-> client.seq + 1, start |-> client.cap]
      BY <1>1 DEF WireNumbered, n
  <2> QED BY <1>4, <2>3, <2>4
<1> HIDE DEF d
<1>8. WireNumbered(d)'
    BY <1>5, <1>6, <1>7 DEF WireNumbered
<1>9. (\E x : WireNumbered(x))'
    BY <1>8
<1>10. ASSUME NEW i \in DOMAIN wire' PROVE Placed(i)'
  <2>1. CASE i = k + 1
    <3>1. wire'[i] = m
        BY <2>1
    <3> QED BY <2>1, <3>1 DEF Placed
  <2>2. CASE i # k + 1
    <3>1. i \in 1..k /\ i \in 1..n /\ i <= k /\ i \in Nat
        BY <1>2, <1>10, <2>2
    <3>2. wire'[i] = wire[i] /\ Placed(i)
        BY <1>3, <3>1
    <3>3. wire'[i].kind = "header" => i < Len(wire') /\ Follows(wire'[i + 1], wire'[i].h)
      <4> SUFFICES ASSUME wire'[i].kind = "header"
                   PROVE  i < Len(wire') /\ Follows(wire'[i + 1], wire'[i].h)
          OBVIOUS
      <4>1. i < n /\ Follows(wire[i + 1], wire[i].h)
          BY <3>2 DEF Placed, n
      <4>2. CASE i = k
        <5>1. m.kind = "gone"
            BY <4>1, <4>2 DEF n
        <5> QED BY <1>2, <3>1, <4>2, <5>1 DEF Follows
      <4>3. CASE i # k
        <5>1. i + 1 \in 1..k
            BY <1>2, <3>1, <4>3
        <5> QED BY <1>2, <3>1, <3>2, <4>1, <5>1
      <4> QED BY <4>2, <4>3
    <3>4. wire'[i].kind = "pcm" => IF i = 1 THEN header' # Captured!NoHeader
                                            ELSE wire'[i - 1].kind = "header"
      <4> SUFFICES ASSUME wire'[i].kind = "pcm", i # 1 PROVE wire'[i - 1].kind = "header"
          BY <3>2 DEF Placed
      <4>1. i - 1 \in 1..k
          BY <3>1
      <4> QED BY <3>2, <4>1 DEF Placed
    <3>5. ~ (wire'[i].kind \in {"reset", "stop", "gone"})
        BY <3>2 DEF Placed
    <3> QED BY <3>3, <3>4, <3>5 DEF Placed
  <2> QED BY <2>1, <2>2
<1>11. HeaderFits'
  <2> SUFFICES ASSUME header' # Captured!NoHeader
               PROVE  /\ header'.seq = line'.seq /\ header'.start = line'.sample
                      /\ wire' # << >> /\ Follows(wire'[1], header')
      BY DEF HeaderFits
  <2>1. /\ header.seq = line.seq /\ header.start = line.sample
        /\ wire # << >> /\ Follows(wire[1], header)
      BY DEF HeaderFits, WireFits
  <2>2. Len(wire') # 0
      BY <1>2
  <2>3. Follows(wire'[1], header')
    <3>1. CASE k = 0
      <4>1. n # 0
          BY <2>1, EmptySeq DEF n
      <4>2. m.kind = "gone" /\ wire'[1] = m
          BY <3>1, <4>1 DEF n
      <4> QED BY <4>2 DEF Follows
    <3>2. CASE k # 0
      <4>1. 1 \in 1..k
          BY <1>2, <3>2
      <4> QED BY <2>1, <4>1
    <3> QED BY <3>1, <3>2
  <2>4. wire' # << >>
      BY <2>2
  <2> QED BY <2>1, <2>3, <2>4
<1> QED BY <1>9, <1>10, <1>11 DEF WireFits

\* Sending a frame and its header.
LEMMA WireSpeaks ==
    ASSUME wire \in Seq(Messages), wire' \in Seq(Messages), WireFits, ~ client.paused,
           NEW h \in Headers, NEW s,
           LET head == [kind |-> "header", h |-> h]
               pcm == [kind |-> "pcm", samples |-> s]
           IN /\ Len(wire') = Len(wire) + 2
              /\ \A i \in 1..Len(wire) : wire'[i] = wire[i]
              /\ wire'[Len(wire) + 1] = head /\ wire'[Len(wire) + 2] = pcm
              /\ Bears(pcm, h),
           h.seq = client.seq + 1, h.start = client.cap,
           client'.seq = client.seq + 1, client'.cap = client.cap + h.size,
           client \in Clients,
           header' = header, line' = line
    PROVE  WireFits'
<1>0. PICK n : n = Len(wire)
    OBVIOUS
<1> DEFINE head == [kind |-> "header", h |-> h]
           pcm == [kind |-> "pcm", samples |-> s]
<1>1. PICK e : WireNumbered(e)
    BY DEF WireFits
<1> DEFINE d == [i \in 1..(n + 3) |-> IF i <= n + 1 THEN e[i] ELSE After(h)]
<1>2. /\ n \in Nat /\ DOMAIN wire = 1..n /\ DOMAIN wire' = 1..(n + 2) /\ Len(wire') = n + 2
      /\ \A i \in 1..n : wire'[i] = wire[i]
      /\ wire'[n + 1] = head /\ wire'[n + 2] = pcm
  <2>1. n \in Nat /\ DOMAIN wire = 1..n /\ DOMAIN wire' = 1..Len(wire')
      BY <1>0, Items
  <2> QED BY <1>0, <2>1
<1>3. \A i \in 1..n : Counted(e, i) /\ Placed(i)
    BY <1>1, <1>2 DEF WireNumbered, WireFits
<1>4. e[n + 1] = [seq |-> h.seq, start |-> h.start]
    BY <1>0, <1>1 DEF WireNumbered
<1>5. d[1] = Expected'
  <2>1. d[1] = e[1]
      BY <1>2
  <2> QED BY <1>1, <2>1 DEF WireNumbered, Expected
<1>6. d[n + 1] = e[n + 1] /\ d[n + 1 + 1] = After(h) /\ d[n + 2 + 1] = After(h) /\ d[n + 2] = After(h)
    BY <1>2
<1>7. head.kind = "header" /\ head.h = h /\ pcm.kind = "pcm"
    OBVIOUS
<1>8. ASSUME NEW i \in DOMAIN wire' PROVE Counted(d, i)'
  <2>1. CASE i = n + 1
    <3>1. wire'[i] = head /\ d[i] = e[n + 1] /\ d[i + 1] = After(h)
        BY <1>2, <1>6, <2>1
    <3> HIDE DEF d, head, pcm
    <3> QED BY <1>4, <1>7, <3>1 DEF Counted
  <2>2. CASE i = n + 2
    <3>1. wire'[i] = pcm /\ d[i] = After(h) /\ d[i + 1] = After(h)
        BY <1>2, <1>6, <2>2
    <3> HIDE DEF d, head, pcm
    <3> QED BY <1>7, <3>1 DEF Counted
  <2>3. CASE i # n + 1 /\ i # n + 2
    <3>1. i \in 1..n /\ i + 1 <= n + 1 /\ i <= n + 1 /\ i \in 1..(n + 3) /\ i + 1 \in 1..(n + 3)
        BY <1>2, <1>8, <2>3
    <3>2. d[i] = e[i] /\ d[i + 1] = e[i + 1] /\ wire'[i] = wire[i] /\ Counted(e, i)
        BY <1>2, <1>3, <3>1
    <3> HIDE DEF d, head, pcm
    <3> QED BY <3>2 DEF Counted
  <2> QED BY <2>1, <2>2, <2>3
<1>9. d[Len(wire') + 1] = [seq |-> client'.seq + 1, start |-> client'.cap]
  <2>1. d[Len(wire') + 1] = After(h)
      BY <1>2, <1>6
  <2> QED BY <2>1 DEF After
<1> HIDE DEF d
<1>10. WireNumbered(d)'
    BY <1>5, <1>8, <1>9 DEF WireNumbered
<1>11. (\E x : WireNumbered(x))'
    BY <1>10
<1>12. Follows(wire'[n + 2], h)
    BY <1>2 DEF Follows
<1> HIDE DEF head, pcm
<1>13. ASSUME NEW i \in DOMAIN wire' PROVE Placed(i)'
  <2>1. CASE i = n + 1
    <3>1. i < Len(wire') /\ i + 1 = n + 2 /\ wire'[i] = head
        BY <1>2, <2>1
    <3>2. Follows(wire'[i + 1], wire'[i].h)
        BY <1>7, <1>12, <3>1
    <3> QED BY <1>7, <3>1, <3>2 DEF Placed
  <2>2. CASE i = n + 2
    <3>1. i # 1 /\ i - 1 = n + 1 /\ wire'[i] = pcm
        BY <1>2, <2>2
    <3>2. wire'[i - 1].kind = "header"
        BY <1>2, <1>7, <3>1
    <3> QED BY <1>7, <3>1, <3>2 DEF Placed
  <2>3. CASE i # n + 1 /\ i # n + 2
    <3>1. i \in 1..n /\ i <= n /\ i \in Nat
        BY <1>2, <1>13, <2>3
    <3>2. wire'[i] = wire[i] /\ Placed(i)
        BY <1>2, <1>3, <3>1
    <3>3. wire'[i].kind = "header" => i < Len(wire') /\ Follows(wire'[i + 1], wire'[i].h)
      <4> SUFFICES ASSUME wire'[i].kind = "header"
                   PROVE  i < Len(wire') /\ Follows(wire'[i + 1], wire'[i].h)
          OBVIOUS
      <4>1. i < n /\ Follows(wire[i + 1], wire[i].h)
          BY <1>0, <3>2 DEF Placed
      <4>2. i + 1 \in 1..n /\ i < Len(wire')
          BY <1>2, <3>1, <4>1
      <4> QED BY <1>2, <3>2, <4>1, <4>2
    <3>4. wire'[i].kind = "pcm" => IF i = 1 THEN header' # Captured!NoHeader
                                            ELSE wire'[i - 1].kind = "header"
      <4> SUFFICES ASSUME wire'[i].kind = "pcm", i # 1 PROVE wire'[i - 1].kind = "header"
          BY <3>2 DEF Placed
      <4>1. i - 1 \in 1..n
          BY <1>2, <3>1
      <4> QED BY <1>2, <3>2, <4>1 DEF Placed
    <3>5. ~ (wire'[i].kind \in {"reset", "stop", "gone"})
        BY <3>2 DEF Placed
    <3> QED BY <3>3, <3>4, <3>5 DEF Placed
  <2> QED BY <2>1, <2>2, <2>3
<1>14. HeaderFits'
  <2> SUFFICES ASSUME header' # Captured!NoHeader
               PROVE  /\ header'.seq = line'.seq /\ header'.start = line'.sample
                      /\ wire' # << >> /\ Follows(wire'[1], header')
      BY DEF HeaderFits
  <2>1. /\ header.seq = line.seq /\ header.start = line.sample
        /\ wire # << >> /\ Follows(wire[1], header)
      BY DEF HeaderFits, WireFits
  <2>2. n # 0
      BY <1>0, <2>1, EmptySeq
  <2>3. Len(wire') # 0 /\ 1 \in 1..n
      BY <1>2, <2>2
  <2>4. wire' # << >>
      BY <2>3
  <2> QED BY <1>2, <2>1, <2>3, <2>4
<1> QED BY <1>11, <1>13, <1>14 DEF WireFits

-----------------------------------------------------------------------------
(* The pictures *)

\* The newest picture captured by then is one, and was captured by then.
LEMMA CandidateAt ==
    ASSUME NEW start \in Times, pending \in Seq(Nat)
    PROVE  LET p == Captured!Candidate(start) IN
           p \in Times /\ (start # None /\ p # None => p <= start)
<1> DEFINE p == Captured!Candidate(start)
           eligible == {i \in DOMAIN pending : pending[i] <= start}
           T == {pending[i] : i \in eligible}
<1>1. DOMAIN pending = 1..Len(pending) /\ Len(pending) \in Nat
      /\ \A i \in 1..Len(pending) : pending[i] \in Nat
    BY Items
<1>2. CASE start = None /\ pending # << >>
  <2>1. Len(pending) # 0
      BY <1>2, EmptySeq
  <2>2. p = pending[Len(pending)]
      BY <1>2 DEF Captured!Candidate, Captured!Last, None, Captured!None
  <2>3. Len(pending) \in 1..Len(pending)
      BY <1>1, <2>1
  <2> QED BY <1>1, <1>2, <2>2, <2>3 DEF Times
<1>3. CASE start # None /\ eligible # {}
  <2>1. p = Captured!Max(T)
      BY <1>3 DEF Captured!Candidate, None, Captured!None
  <2>2. start \in Nat /\ T # {} /\ \A x \in T : x \in Nat /\ x <= start
      BY <1>1, <1>3 DEF Times
  <2> HIDE DEF T, eligible
  <2> DEFINE B == {b \in Nat : \A x \in T : x <= b}
  <2>3. start \in B
      BY <2>2
  <2>4. PICK b \in B : \A y \in B : b <= y
      BY <2>3, Least
  <2>5. b \in T
    <3> SUFFICES ASSUME b \notin T PROVE FALSE
        OBVIOUS
    <3>1. \A x \in T : x \in Nat /\ x <= b - 1
        BY <2>2, <2>4
    <3>2. b - 1 \in Nat
        BY <2>2, <2>4, <3>1
    <3>3. b - 1 \in B
        BY <3>1, <3>2
    <3> QED BY <2>4, <3>2, <3>3
  <2>6. \E x \in T : \A y \in T : x >= y
      BY <2>2, <2>4, <2>5
  <2>7. Captured!Max(T) \in T
      BY <2>6 DEF Captured!Max
  <2> QED BY <2>1, <2>2, <2>7 DEF Times
<1>4. CASE ~(start = None /\ pending # << >>) /\ ~(start # None /\ eligible # {})
  <2>1. p = None
      BY <1>4 DEF Captured!Candidate, None, Captured!None
  <2> QED BY <2>1 DEF Times
<1> QED BY <1>2, <1>3, <1>4

\* What is left of the published pictures.
LEMMA LeftAre ==
    ASSUME NEW start \in Times, pending \in Seq(Nat)
    PROVE  Captured!Left(start) \in Seq(Nat)
<1> DEFINE S == {p \in Captured!ToSet(pending) : p > start}
<1>1. << >> \in Seq(Nat)
    OBVIOUS
<1>2. Only(pending, S) \in Seq(Nat)
    BY OnlyIn
<1>3. Captured!Only(pending, S) = Only(pending, S)
  <2> HIDE DEF S
  <2> QED BY DEF Captured!Only, Only, Captured!Cardinality, Cardinality
<1>4. Captured!Left(start) \in {<< >>, pending, Captured!Only(pending, S)}
  <2> HIDE DEF S
  <2>1. CASE start = None
      BY <2>1 DEF Captured!Left, None, Captured!None
  <2>2. CASE start # None /\ Captured!Candidate(start) = None
      BY <2>2 DEF Captured!Left, None, Captured!None
  <2>3. CASE start # None /\ Captured!Candidate(start) # None
    <3>1. Captured!Left(start) = Captured!Only(pending, {p \in Captured!ToSet(pending) : p > start})
        BY <2>3 DEF Captured!Left, None, Captured!None
    <3> QED BY <3>1 DEF S
  <2> QED BY <2>1, <2>2, <2>3
<1> QED BY <1>1, <1>2, <1>3, <1>4

\* The picture shown with a unit is not older than the last, nor younger than
\* the unit.
LEMMA ChosenAt ==
    ASSUME NEW start \in Times, ShownAre
    PROVE  LET p == Captured!Chosen(start) IN
           /\ p \in Times
           /\ p # None => p >= last /\ (start = None \/ p <= start)
<1> DEFINE p == Captured!Chosen(start)
           new == Captured!Candidate(start)
<1>1. new \in Times /\ (start # None /\ new # None => new <= start)
    BY CandidateAt DEF ShownAre
<1>2. last \in Nat \cup {None} /\ start \in Nat \cup {None}
    BY DEF ShownAre, Times
<1> HIDE DEF new
<1>3. CASE new # None /\ new >= last
  <2>1. p = new
      BY <1>3 DEF Captured!Chosen, Captured!Again, None, Captured!None, new
  <2> QED BY <1>1, <1>3, <2>1
<1>4. CASE ~(new # None /\ new >= last) /\ mode = "omni" /\ (start = None \/ last <= start)
  <2>1. p = last
      BY <1>4 DEF Captured!Chosen, Captured!Again, None, Captured!None, new
  <2> QED BY <1>2, <1>4, <2>1 DEF Times, None
<1>5. CASE ~(new # None /\ new >= last) /\ ~(mode = "omni" /\ (start = None \/ last <= start))
  <2>1. p = None
      BY <1>5 DEF Captured!Chosen, Captured!Again, None, Captured!None, new
  <2> QED BY <2>1 DEF Times
<1> QED BY <1>3, <1>4, <1>5

\* A unit given to the model keeps the pictures in order.
LEMMA StepShows ==
    ASSUME NEW samples, NEW start \in Times, ShownAre, ShownFits,
           Captured!Step(samples, start)
    PROVE  /\ unit' = [first |-> samples[1], start |-> start]
           /\ ShownAre' /\ ShownFits'
<1> DEFINE p == Captured!Chosen(start)
           n == Len(shown)
           R == [picture : Nat, start : Times]
           r == [picture |-> p, start |-> start]
<1>1. unit' = [first |-> samples[1], start |-> start]
    BY DEF Captured!Step
<1>2. p \in Times /\ (p # None => p >= last /\ (start = None \/ p <= start))
    BY ChosenAt
<1>3. CASE mode = "voice"
  <2>1. pending' = pending /\ last' = last /\ shown' = shown
      BY <1>3 DEF Captured!Step, Captured!bufferVars
  <2> QED BY <1>1, <2>1 DEF ShownAre, ShownFits, FramesInOrder
<1>4. CASE mode # "voice"
  <2>1. /\ pending' = Captured!Left(start)
        /\ last' = IF p = None THEN last ELSE p
        /\ shown' = IF p = None THEN shown ELSE Append(shown, r)
      BY <1>4 DEF Captured!Step, None, Captured!None
  <2>2. pending' \in Seq(Nat)
      BY <2>1, LeftAre DEF ShownAre
  <2> HIDE DEF p
  <2>3. CASE p = None
      BY <1>1, <2>1, <2>2, <2>3 DEF ShownAre, ShownFits, FramesInOrder
  <2>4. CASE p # None
    <3>1. p \in Nat
        BY <1>2, <2>4 DEF Times
    <3>2. r \in R /\ r.picture = p /\ r.start = start
        BY <3>1
    <3>3. shown \in Seq(R) /\ n \in Nat /\ DOMAIN shown = 1..n /\ \A i \in 1..n : shown[i] \in R
        BY Items DEF ShownAre
    <3> HIDE DEF r, R
    <3>4. /\ shown' \in Seq(R) /\ Len(shown') = n + 1 /\ shown'[n + 1] = r
          /\ \A i \in 1..n : shown'[i] = shown[i]
        BY <2>1, <2>4, <3>2, <3>3, AppendProperties
    <3>5. DOMAIN shown' = 1..(n + 1)
        BY <3>4, Items
    <3>6. last' = p
        BY <2>1, <2>4
    <3>7. \A i \in 1..n : shown[i].picture <= p /\ shown[i].picture \in Nat /\ shown[i].start \in Times
      <4> SUFFICES ASSUME NEW i \in 1..n
                   PROVE  shown[i].picture <= p /\ shown[i].picture \in Nat /\ shown[i].start \in Times
          OBVIOUS
      <4>1. shown[i].picture \in Nat /\ shown[i].start \in Times
          BY <3>3 DEF R
      <4>2. shown[i].picture <= last
          BY <3>3 DEF ShownFits
      <4>3. last \in Int /\ last <= p
          BY <1>2, <2>4, <3>1 DEF ShownAre, Times, None
      <4> QED BY <3>1, <4>1, <4>2, <4>3
    <3> HIDE DEF n
    <3>8. \A i \in 1..(n + 1) : shown'[i].start = None \/ shown'[i].picture <= shown'[i].start
      <4> SUFFICES ASSUME NEW i \in 1..(n + 1)
                   PROVE  shown'[i].start = None \/ shown'[i].picture <= shown'[i].start
          OBVIOUS
      <4>1. CASE i = n + 1
          BY <1>2, <2>4, <3>2, <3>4, <4>1
      <4>2. CASE i # n + 1
        <5>1. i \in 1..n
            BY <3>3, <4>2
        <5> QED BY <3>3, <3>4, <5>1 DEF ShownFits, FramesInOrder
      <4> QED BY <4>1, <4>2
    <3>9. \A i \in 1..(n + 1) : shown'[i].picture <= p
      <4> SUFFICES ASSUME NEW i \in 1..(n + 1) PROVE shown'[i].picture <= p
          OBVIOUS
      <4>1. CASE i = n + 1
          BY <3>1, <3>2, <3>4, <4>1
      <4>2. CASE i # n + 1
        <5>1. i \in 1..n
            BY <3>3, <4>2
        <5> QED BY <3>4, <3>7, <5>1
      <4> QED BY <4>1, <4>2
    <3>10. \A i, j \in 1..(n + 1) : i < j => shown'[i].picture <= shown'[j].picture
      <4> SUFFICES ASSUME NEW i \in 1..(n + 1), NEW j \in 1..(n + 1), i < j
                   PROVE  shown'[i].picture <= shown'[j].picture
          OBVIOUS
      <4>1. CASE j = n + 1
          BY <3>2, <3>4, <3>9, <4>1
      <4>2. CASE j # n + 1
        <5>1. i \in 1..n /\ j \in 1..n
            BY <3>3, <4>2
        <5> QED BY <3>3, <3>4, <5>1 DEF ShownFits, FramesInOrder
      <4> QED BY <4>1, <4>2
    <3>11. ShownAre'
      <4>1. last' \in Times
          BY <1>2, <3>6
      <4> QED BY <2>2, <3>4, <4>1 DEF ShownAre, R
    <3>12. ShownFits'
        BY <3>5, <3>6, <3>8, <3>9, <3>10 DEF ShownFits, FramesInOrder
    <3> QED BY <1>1, <3>11, <3>12
  <2> QED BY <2>3, <2>4
<1> QED BY <1>3, <1>4

-----------------------------------------------------------------------------
(* What each step does *)

\* The instance says the same of its terms.
LEMMA MediaTerms ==
    /\ Captured!None = None /\ Captured!NoUnit = NoUnit
    /\ Captured!NoHeader = [seq |-> 0, start |-> 0, size |-> 0, at |-> None]
    /\ Captured!NoHeader \notin Headers
    /\ Captured!NewLine = [seq |-> 1, sample |-> 0, unitStart |-> 0, origin |-> None]
    /\ Captured!NewLine \in Lines0
    /\ NoUnit = [first |-> None, start |-> None]
<1>1. Captured!None = None
    BY DEF None, Captured!None
<1>2. Captured!NoUnit = NoUnit /\ NoUnit = [first |-> None, start |-> None]
    BY <1>1 DEF NoUnit, Captured!NoUnit
<1>3. Captured!NoHeader = [seq |-> 0, start |-> 0, size |-> 0, at |-> None]
    BY <1>1 DEF Captured!NoHeader
<1>4. Captured!NoHeader \notin Headers
    BY <1>3 DEF Headers
<1>5. /\ Captured!NewLine = [seq |-> 1, sample |-> 0, unitStart |-> 0, origin |-> None]
      /\ Captured!NewLine \in Lines0
    BY <1>1 DEF Captured!NewLine, Lines0, Times
<1> QED BY <1>1, <1>2, <1>3, <1>4, <1>5

\* What a message of a kind carries.
LEMMA MessageKinds ==
    ASSUME NEW m \in Messages
    PROVE  /\ m.kind \in {"header", "pcm", "reset", "stop", "gone", "mode"}
           /\ m.kind = "header" => m.h \in Headers
           /\ m.kind = "pcm" => m.samples \in Samples
    BY DEF Messages

\* What is on the wire fits as long as nobody sends or reads.
LEMMA WireStays ==
    ASSUME client' = client, wire' = wire, header' = header, line' = line
    PROVE  WireFits <=> WireFits'
<1>1. \A e : WireNumbered(e) <=> WireNumbered(e)'
    BY DEF WireNumbered, Counted, Expected
<1>2. \A i : Placed(i) <=> Placed(i)'
    BY DEF Placed
<1>3. HeaderFits <=> HeaderFits'
    BY DEF HeaderFits
<1> QED BY <1>1, <1>2, <1>3 DEF WireFits

\* A step that sends, reads and hears nothing.
LEMMA Stands ==
    ASSUME MediaInv, client' = client, wire' = wire, at' = at, header' = header,
           line' = line, parts' = parts, chunk' = chunk, unit' = unit,
           resumes' = resumes, now' \in Nat, taken' \in Nat, shots' \subseteq Shots,
           ShownAre', ShownFits'
    PROVE  MediaInv'
<1>1. MediaTypes'
    BY DEF MediaInv, MediaTypes
<1>2. LineFits' /\ PartsFit' /\ Audible'
    BY DEF MediaInv, LineFits, PartsFit, Audible
<1>3. Paced <=> Paced'
  <2>1. \A i : PartTimed(i) <=> PartTimed(i)'
      BY DEF PartTimed, Heard, Begins
  <2>2. \A i : EndTimed(i) <=> EndTimed(i)'
      BY DEF EndTimed, Heard, Begins
  <2>3. PartsTimed <=> PartsTimed'
      BY <2>1, <2>2 DEF PartsTimed
  <2>4. ChunkTimed <=> ChunkTimed'
      BY DEF ChunkTimed
  <2> QED BY <2>3, <2>4 DEF Paced
<1>4. WireFits <=> WireFits'
    BY WireStays
<1>5. Untimed <=> Untimed'
    BY DEF Untimed
<1>6. InTime'
    BY <1>3, <1>4, <1>5 DEF MediaInv, InTime, Timed
<1> QED BY <1>1, <1>2, <1>6 DEF MediaInv

\* A step that only sends, and perhaps has the page wait.
LEMMA Sends ==
    ASSUME MediaInv, at' = at, header' = header, line' = line, parts' = parts,
           chunk' = chunk, unit' = unit, resumes' = resumes, pending' = pending,
           last' = last, shown' = shown, shots' = shots, taken' = taken, now' \in Nat,
           client' \in Clients, client'.timed = client.timed, wire' \in Seq(Messages),
           Audible', ~ client.paused,
           at \notin {"failed", "done", "parked"},
           client.timed /\ WireFits => WireFits',
           (\A i \in DOMAIN wire : wire[i].kind # "header") /\ ~ client.timed =>
             \A i \in DOMAIN wire' : wire'[i].kind # "header"
    PROVE  MediaInv'
<1>1. MediaTypes'
    BY DEF MediaInv, MediaTypes, ShownAre
<1>2. LineFits' /\ PartsFit' /\ ShownFits'
    BY DEF MediaInv, LineFits, PartsFit, ShownFits, FramesInOrder
<1>3. ASSUME resumes = 0, client.timed PROVE Timed'
  <2>1. Timed
      BY <1>3 DEF MediaInv, InTime
  <2>2. at \in {"loop", "parts", "mode"}
      BY <2>1 DEF Timed, Paced, MediaInv, MediaTypes
  <2>3. \A i : PartTimed(i) <=> PartTimed(i)'
      BY DEF PartTimed, Heard, Begins
  <2>4. \A i : EndTimed(i) <=> EndTimed(i)'
      BY DEF EndTimed, Heard, Begins
  <2>5. PartsTimed <=> PartsTimed'
      BY <2>3, <2>4 DEF PartsTimed
  <2>6. ChunkTimed <=> ChunkTimed'
      BY DEF ChunkTimed
  <2>7. Paced'
      BY <2>1, <2>2, <2>5, <2>6 DEF Timed, Paced
  <2> QED BY <1>3, <2>1, <2>2, <2>7 DEF Timed
<1>4. ASSUME resumes = 0, ~ client.timed PROVE Untimed'
    BY <1>4 DEF MediaInv, InTime, Untimed
<1>5. InTime'
    BY <1>3, <1>4 DEF InTime
<1> QED BY <1>1, <1>2, <1>5 DEF MediaInv

LEMMA MediaSpeak ==
    ASSUME MediaConstants, MediaInv, NEW n \in FrameSizes, Captured!Speak(n)
    PROVE  MediaInv'
<1> DEFINE s == [i \in 1..n |-> now + i - 1]
           h == [seq |-> client.seq + 1, start |-> client.cap, size |-> n, at |-> now]
           pcm == [kind |-> "pcm", samples |-> s]
           head == [kind |-> "header", h |-> h]
           ms == IF client.timed THEN << head, pcm >> ELSE << pcm >>
           w == Len(wire)
<1>1. /\ n \in Nat \ {0} /\ now \in Nat /\ client \in Clients /\ wire \in Seq(Messages)
      /\ w \in Nat /\ DOMAIN wire = 1..w /\ \A i \in 1..w : wire[i] \in Messages
  <2>1. n \in Nat \ {0} /\ now \in Nat /\ client \in Clients /\ wire \in Seq(Messages)
      BY DEF MediaConstants, MediaInv, MediaTypes
  <2> QED BY <2>1, Items
<1>2. /\ at \notin {"failed", "done", "parked"} /\ ~ client.paused
      /\ now' = now + n /\ wire' = wire \o ms
      /\ client' = [client EXCEPT !.cap = @ + n,
                                  !.seq = IF client.timed THEN @ + 1 ELSE @]
      /\ at' = at /\ header' = header /\ line' = line /\ parts' = parts
      /\ chunk' = chunk /\ unit' = unit /\ resumes' = resumes /\ pending' = pending
      /\ last' = last /\ shown' = shown /\ shots' = shots /\ taken' = taken
    BY DEF Captured!Speak, Captured!Send, Captured!Connected, Captured!Ended,
           Captured!audioVars, Captured!bufferVars, Captured!screenVars
<1>3. s \in Samples /\ Len(s) = n
  <2>1. \A i \in 1..n : now + i - 1 \in Nat
      BY <1>1
  <2>2. s \in [1..n -> Nat]
      BY <2>1
  <2> QED BY <1>1, <2>2, SeqDef, LenProperties DEF Samples
<1>4. s # << >>
  <2> HIDE DEF s
  <2>1. Len(s) # 0
      BY <1>1, <1>3
  <2> QED BY <2>1
<1>5. \A k \in 1..n : s[k] = now + k - 1
    OBVIOUS
<1> HIDE DEF s
<1>6. h \in Headers
    BY <1>1 DEF Headers, Clients
<1>7. h.seq = client.seq + 1 /\ h.start = client.cap /\ h.size = n /\ h.at = now
    OBVIOUS
<1> HIDE DEF h
<1>8. /\ head \in Messages /\ head.kind = "header" /\ head.h = h
      /\ pcm \in Messages /\ pcm.kind = "pcm" /\ pcm.samples = s
    BY <1>3, <1>6 DEF Messages
<1>9. Bears(pcm, h)
    BY <1>3, <1>5, <1>7, <1>8 DEF Bears
<1>10. client' \in Clients /\ client'.timed = client.timed /\ client'.cap = client.cap + n
       /\ client'.seq = IF client.timed THEN client.seq + 1 ELSE client.seq
  <2> DEFINE q == IF client.timed THEN client.seq + 1 ELSE client.seq
  <2>1. client' = [client EXCEPT !.cap = client.cap + n, !.seq = q]
      BY <1>2
  <2>2. q \in Nat /\ client.cap + n \in Nat
      BY <1>1 DEF Clients
  <2> HIDE DEF q
  <2>3. client' \in Clients /\ client'.timed = client.timed /\ client'.cap = client.cap + n
        /\ client'.seq = q
      BY <1>1, <2>1, <2>2 DEF Clients
  <2> QED BY <2>3 DEF q
<1>11. /\ wire' \in Seq(Messages)
       /\ \A i \in 1..w : wire'[i] = wire[i]
       /\ client.timed => /\ Len(wire') = w + 2 /\ wire'[w + 1] = head /\ wire'[w + 2] = pcm
       /\ ~ client.timed => Len(wire') = w + 1 /\ wire'[w + 1] = pcm
  <2> HIDE DEF head, pcm
  <2>1. ms \in Seq(Messages)
      BY <1>8
  <2>2. IF client.timed THEN Len(ms) = 2 /\ ms[1] = head /\ ms[2] = pcm
                        ELSE Len(ms) = 1 /\ ms[1] = pcm
      OBVIOUS
  <2> HIDE DEF ms
  <2>3. /\ wire \o ms \in Seq(Messages) /\ Len(wire \o ms) = w + Len(ms)
        /\ \A i \in 1..(w + Len(ms)) :
             (wire \o ms)[i] = IF i <= w THEN wire[i] ELSE ms[i - w]
      BY <1>1, <2>1, ConcatProperties
  <2> HIDE DEF w
  <2>4. Len(ms) \in Nat
      BY <2>2
  <2>5. \A i \in 1..w : i \in 1..(w + Len(ms)) /\ i <= w
      BY <1>1, <2>4
  <2>6. \A i \in 1..w : wire'[i] = wire[i]
      BY <1>2, <2>3, <2>5
  <2>7. \A j \in 1..Len(ms) : wire'[w + j] = ms[j]
    <3> SUFFICES ASSUME NEW j \in 1..Len(ms) PROVE wire'[w + j] = ms[j]
        OBVIOUS
    <3>1. PICK x : x = w + j
        OBVIOUS
    <3>2. x \in 1..(w + Len(ms)) /\ ~ (x <= w) /\ x - w = j
        BY <1>1, <2>4, <3>1
    <3>3. (wire \o ms)[x] = ms[j]
        BY <2>3, <3>2
    <3> QED BY <1>2, <3>1, <3>3
  <2>8. CASE client.timed
    <3>1. Len(ms) = 2 /\ ms[1] = head /\ ms[2] = pcm /\ 1 \in 1..2 /\ 2 \in 1..2
        BY <2>2, <2>8
    <3> QED BY <1>2, <2>3, <2>6, <2>7, <2>8, <3>1
  <2>9. CASE ~ client.timed
    <3>1. Len(ms) = 1 /\ ms[1] = pcm /\ 1 \in 1..1
        BY <2>2, <2>9
    <3> QED BY <1>2, <2>3, <2>6, <2>7, <2>9, <3>1
  <2> QED BY <2>8, <2>9
<1>12. DOMAIN wire' = 1..Len(wire')
    BY <1>11, Items
<1>13. Audible'
  <2> SUFFICES ASSUME NEW i \in DOMAIN wire', wire'[i].kind = "pcm"
               PROVE  wire'[i].samples # << >>
      BY DEF Audible
  <2>1. CASE i \in 1..w
      BY <1>1, <1>11, <2>1 DEF MediaInv, Audible
  <2>2. CASE i \notin 1..w
    <3> HIDE DEF head, pcm, w
    <3>1. ASSUME client.timed PROVE wire'[i] = head \/ wire'[i] = pcm
      <4>1. Len(wire') = w + 2 /\ wire'[w + 1] = head /\ wire'[w + 2] = pcm
          BY <1>11, <3>1
      <4>2. i \in 1..(w + 2)
          BY <1>12, <4>1
      <4>3. i = w + 1 \/ i = w + 2
          BY <1>1, <2>2, <4>2
      <4> QED BY <4>1, <4>3
    <3>3. ASSUME ~ client.timed PROVE wire'[i] = head \/ wire'[i] = pcm
      <4>1. Len(wire') = w + 1 /\ wire'[w + 1] = pcm
          BY <1>11, <3>3
      <4>2. i \in 1..(w + 1)
          BY <1>12, <4>1
      <4>3. i = w + 1
          BY <1>1, <2>2, <4>2
      <4> QED BY <4>1, <4>3
    <3>2. wire'[i] = head \/ wire'[i] = pcm
        BY <3>1, <3>3
    <3> QED BY <1>4, <1>8, <3>2
  <2> QED BY <2>1, <2>2
<1>14. client.timed /\ WireFits => WireFits'
  <2> SUFFICES ASSUME client.timed, WireFits PROVE WireFits'
      OBVIOUS
  <2>1. client'.seq = client.seq + 1 /\ client'.cap = client.cap + h.size
      BY <1>7, <1>10
  <2>2. /\ Len(wire') = Len(wire) + 2
        /\ wire'[Len(wire) + 1] = head /\ wire'[Len(wire) + 2] = pcm
        /\ \A i \in 1..Len(wire) : wire'[i] = wire[i]
      BY <1>11
  <2> HIDE DEF w
  <2> QED BY <1>1, <1>2, <1>6, <1>7, <1>9, <1>11, <2>1, <2>2, WireSpeaks
<1>15. (\A i \in DOMAIN wire : wire[i].kind # "header") /\ ~ client.timed =>
         \A i \in DOMAIN wire' : wire'[i].kind # "header"
  <2> SUFFICES ASSUME \A i \in DOMAIN wire : wire[i].kind # "header", ~ client.timed,
                      NEW i \in DOMAIN wire'
               PROVE  wire'[i].kind # "header"
      OBVIOUS
  <2>1. CASE i \in 1..w
      BY <1>1, <1>11, <2>1
  <2>2. CASE i \notin 1..w
    <3> HIDE DEF head, pcm, w
    <3>1. Len(wire') = w + 1 /\ wire'[w + 1] = pcm
        BY <1>11
    <3>2. i \in 1..(w + 1)
        BY <1>12, <3>1
    <3>3. i = w + 1
        BY <1>1, <2>2, <3>2
    <3> QED BY <1>8, <3>1, <3>3
  <2> QED BY <2>1, <2>2
<1>16. now' \in Nat
    BY <1>1, <1>2
<1> QED BY <1>2, <1>10, <1>11, <1>13, <1>14, <1>15, <1>16, Sends

\* The first k entries.
LEMMA Beginning ==
    ASSUME NEW T, NEW s \in Seq(T), NEW k \in 0..Len(s)
    PROVE  /\ SubSeq(s, 1, k) \in Seq(T) /\ Len(SubSeq(s, 1, k)) = k
           /\ \A i \in 1..k : SubSeq(s, 1, k)[i] = s[i]
<1>1. PICK o \in Int : o = 1
    OBVIOUS
<1>2. k \in Int /\ k \in Nat /\ Len(s) \in Nat /\ k <= Len(s)
    OBVIOUS
<1>3. \A i \in o..k : s[i] \in T
  <2>1. \A i \in o..k : i \in 1..Len(s)
      BY <1>1, <1>2
  <2> QED BY <2>1, Items
<1> DEFINE p == SubSeq(s, o, k)
<1>4. /\ p \in Seq(T) /\ Len(p) = IF o <= k THEN k - o + 1 ELSE 0
      /\ \A i \in 1..(k - o + 1) : p[i] = s[o + i - 1]
    BY <1>2, <1>3, SubSeqProperties
<1> HIDE DEF p
<1>5. k - o + 1 = k /\ (o <= k \/ k = 0) /\ \A i \in Int : o + i - 1 = i
    BY <1>1, <1>2
<1>6. p \in Seq(T) /\ Len(p) = k /\ \A i \in 1..k : p[i] = s[i]
  <2>1. \A i \in 1..k : i \in Int
      OBVIOUS
  <2> QED BY <1>4, <1>5, <2>1
<1> QED BY <1>1, <1>6 DEF p

\* A message that carries no sound, after what is left of those sent before.
LEMMA MediaSent ==
    ASSUME MediaInv, NEW k \in 0..Len(wire), NEW m \in Messages,
           m.kind \in {"mode", "reset", "stop", "gone"}, k = Len(wire) \/ m.kind = "gone",
           wire' = Append(SubSeq(wire, 1, k), m),
           client' = [client EXCEPT !.paused = (m.kind # "mode")],
           ~ client.paused, at \notin {"failed", "done", "parked"},
           at' = at, header' = header, line' = line, parts' = parts,
           chunk' = chunk, unit' = unit, resumes' = resumes, pending' = pending,
           last' = last, shown' = shown, shots' = shots, taken' = taken, now' = now
    PROVE  MediaInv'
<1> DEFINE w == Len(wire)
<1>1. /\ now \in Nat /\ client \in Clients /\ wire \in Seq(Messages)
      /\ w \in Nat /\ DOMAIN wire = 1..w /\ \A i \in 1..w : wire[i] \in Messages
      /\ k \in Nat /\ k <= w
  <2>1. now \in Nat /\ client \in Clients /\ wire \in Seq(Messages)
      BY DEF MediaInv, MediaTypes
  <2> QED BY <2>1, Items
<1>2. /\ SubSeq(wire, 1, k) \in Seq(Messages) /\ Len(SubSeq(wire, 1, k)) = k
      /\ \A i \in 1..k : SubSeq(wire, 1, k)[i] = wire[i]
    BY <1>1, Beginning
<1>3. /\ wire' \in Seq(Messages) /\ Len(wire') = k + 1 /\ wire'[k + 1] = m
      /\ \A i \in 1..k : wire'[i] = wire[i]
  <2>1. /\ wire' \in Seq(Messages) /\ Len(wire') = k + 1 /\ wire'[k + 1] = m
        /\ \A i \in 1..k : wire'[i] = SubSeq(wire, 1, k)[i]
    <3> DEFINE cut == SubSeq(wire, 1, k)
    <3>1. cut \in Seq(Messages) /\ Len(cut) = k /\ wire' = Append(cut, m)
        BY <1>2
    <3> HIDE DEF cut
    <3>3. /\ Append(cut, m) \in Seq(Messages) /\ Len(Append(cut, m)) = Len(cut) + 1
          /\ \A i \in 1..Len(cut) : Append(cut, m)[i] = cut[i]
          /\ Append(cut, m)[Len(cut) + 1] = m
        BY <3>1, AppendProperties
    <3>2. /\ wire' \in Seq(Messages) /\ Len(wire') = k + 1 /\ wire'[k + 1] = m
          /\ \A i \in 1..k : wire'[i] = cut[i]
        BY <3>1, <3>3
    <3> QED BY <3>2 DEF cut
  <2> QED BY <1>2, <2>1
<1>4. client' \in Clients /\ client'.timed = client.timed /\ (client'.paused <=> m.kind # "mode")
    BY <1>1 DEF Clients
<1>5. client' = [client EXCEPT !.paused = client'.paused]
    BY <1>1 DEF Clients
<1>6. DOMAIN wire' = 1..(k + 1)
    BY <1>3, Items
<1>7. \A i \in 1..(k + 1) : i = k + 1 \/ (i \in 1..k /\ i \in 1..w)
    BY <1>1
<1>8. Audible'
    BY <1>1, <1>3, <1>6, <1>7 DEF Audible, MediaInv
<1>9. client.timed /\ WireFits => WireFits'
    BY <1>1, <1>3, <1>4, <1>5, WireEnds
<1>10. (\A i \in DOMAIN wire : wire[i].kind # "header") /\ ~ client.timed =>
         \A i \in DOMAIN wire' : wire'[i].kind # "header"
    BY <1>1, <1>3, <1>6, <1>7
<1>11. now' \in Nat
    BY <1>1
<1> QED BY <1>3, <1>4, <1>8, <1>9, <1>10, <1>11, Sends

LEMMA MediaPress ==
    ASSUME MediaInv, NEW m \in Captured!Buttons, Captured!Press(m) PROVE MediaInv'
<1>1. /\ wire' = wire \o << m >>
      /\ client' = [client EXCEPT !.paused = m.kind \in {"reset", "stop"}]
      /\ ~ client.paused /\ at \notin {"failed", "done", "parked"}
      /\ at' = at /\ header' = header /\ line' = line /\ parts' = parts
      /\ chunk' = chunk /\ unit' = unit /\ resumes' = resumes /\ pending' = pending
      /\ last' = last /\ shown' = shown /\ shots' = shots /\ taken' = taken /\ now' = now
    BY DEF Captured!Press, Captured!Send, Captured!Connected, Captured!Ended,
           Captured!audioVars, Captured!bufferVars, Captured!screenVars
<1>2. m \in Messages /\ m.kind \in {"mode", "reset", "stop"}
    BY DEF Captured!Buttons, Messages
<1>3. (m.kind \in {"reset", "stop"}) = (m.kind # "mode")
    BY <1>2
<1>4. wire \in Seq(Messages) /\ Len(wire) \in Nat /\ Len(wire) \in 0..Len(wire)
  <2>1. wire \in Seq(Messages)
      BY DEF MediaInv, MediaTypes
  <2>2. Len(wire) \in Nat
      BY <2>1
  <2> QED BY <2>1, <2>2
<1>5. wire' = Append(SubSeq(wire, 1, Len(wire)), m)
  <2>1. SubSeq(wire, 1, Len(wire)) = wire
      BY <1>4
  <2>2. Append(wire, m) = wire \o << m >>
      BY <1>2, <1>4, AppendIsConcat
  <2> QED BY <1>1, <2>1, <2>2
<1>6. client' = [client EXCEPT !.paused = (m.kind # "mode")]
    BY <1>1, <1>3
<1> QED BY <1>1, <1>2, <1>4, <1>5, <1>6, MediaSent

LEMMA MediaBreak ==
    ASSUME MediaInv, NEW k, Captured!Break(k) PROVE MediaInv'
<1> DEFINE m == [kind |-> "gone"]
<1>1. /\ k \in 0..Len(wire)
      /\ wire' = SubSeq(wire, 1, k) \o << m >>
      /\ client' = [client EXCEPT !.paused = TRUE]
      /\ ~ client.paused /\ at \notin {"failed", "done", "parked"}
      /\ at' = at /\ header' = header /\ line' = line /\ parts' = parts
      /\ chunk' = chunk /\ unit' = unit /\ resumes' = resumes /\ pending' = pending
      /\ last' = last /\ shown' = shown /\ shots' = shots /\ taken' = taken /\ now' = now
    BY DEF Captured!Break, Captured!Connected, Captured!Ended,
           Captured!audioVars, Captured!bufferVars, Captured!screenVars
<1>2. m \in Messages /\ m.kind = "gone" /\ (m.kind # "mode") = TRUE
    BY DEF Messages
<1>3. wire \in Seq(Messages) /\ Len(wire) \in Nat
    BY DEF MediaInv, MediaTypes
<1> HIDE DEF m
<1>4. wire' = Append(SubSeq(wire, 1, k), m)
  <2>1. SubSeq(wire, 1, k) \in Seq(Messages)
    <3>1. \A i \in 1..k : wire[i] \in Messages
      <4>1. \A i \in 1..Len(wire) : wire[i] \in Messages
          BY <1>3, Items
      <4>2. \A i \in 1..k : i \in 1..Len(wire)
          BY <1>1, <1>3
      <4> QED BY <4>1, <4>2
    <3>2. 1 \in Int /\ k \in Int
        BY <1>1
    <3> QED BY <3>1, <3>2, SubSeqProperties
  <2> QED BY <1>1, <1>2, <2>1, AppendIsConcat
<1>5. client' = [client EXCEPT !.paused = (m.kind # "mode")]
    BY <1>1, <1>2
<1> QED BY <1>1, <1>2, <1>4, <1>5, MediaSent

\* A new connection: what was said of times ends here.
LEMMA MediaResume ==
    ASSUME MediaConstants, MediaInv, Captured!Resume PROVE MediaInv'
<1>1. /\ at = "parked" /\ at' = "loop" /\ header' = Captured!NoHeader
      /\ line' = Captured!NewLine /\ parts' = << >> /\ wire' = << >>
      /\ client' = [client EXCEPT !.paused = FALSE] /\ resumes' = resumes + 1
      /\ now' = now /\ chunk' = chunk /\ unit' = unit /\ pending' = pending
      /\ last' = last /\ shown' = shown /\ shots' = shots /\ taken' = taken
    BY DEF Captured!Resume, Captured!bufferVars, Captured!screenVars
<1>2. client' \in Clients
    BY <1>1 DEF MediaInv, MediaTypes, Clients
<1>3. << >> \in Seq(FrameParts) /\ << >> \in Seq(Messages) /\ DOMAIN << >> = {}
    OBVIOUS
<1>4. MediaTypes'
    BY <1>1, <1>2, <1>3, MediaTerms DEF MediaInv, MediaTypes, ShownAre
<1>5. LineFits'
    BY <1>1, MediaTerms DEF LineFits, MediaConstants
<1>6. PartsFit' /\ Audible' /\ ShownFits'
  <2>1. PartsFit'
      BY <1>1, <1>3 DEF MediaInv, PartsFit
  <2>2. Audible'
      BY <1>1, <1>3 DEF Audible
  <2>3. ShownFits'
      BY <1>1 DEF MediaInv, ShownFits, FramesInOrder
  <2> QED BY <2>1, <2>2, <2>3
<1>7. resumes' # 0
    BY <1>1 DEF MediaInv, MediaTypes
<1>8. InTime'
    BY <1>7 DEF InTime
<1> QED BY <1>4, <1>5, <1>6, <1>8 DEF MediaInv

LEMMA MediaGap ==
    ASSUME MediaInv, Captured!Gap PROVE MediaInv'
<1>1. /\ client' = client /\ wire' = wire /\ at' = at /\ header' = header
      /\ line' = line /\ parts' = parts /\ chunk' = chunk /\ unit' = unit
      /\ resumes' = resumes /\ now' = now + 1 /\ taken' = taken /\ shots' = shots
      /\ pending' = pending /\ last' = last /\ shown' = shown
    BY DEF Captured!Gap, Captured!audioVars, Captured!bufferVars, Captured!screenVars
<1>2. now' \in Nat /\ taken' \in Nat /\ shots' \subseteq Shots
    BY <1>1 DEF MediaInv, MediaTypes
<1>3. ShownAre' /\ ShownFits'
    BY <1>1 DEF MediaInv, MediaTypes, ShownAre, ShownFits, FramesInOrder
<1> QED BY <1>1, <1>2, <1>3, Stands

LEMMA MediaShare ==
    ASSUME MediaInv, Captured!Share PROVE MediaInv'
<1>1. /\ client' = client /\ wire' = wire /\ at' = at /\ header' = header
      /\ line' = line /\ parts' = parts /\ chunk' = chunk /\ unit' = unit
      /\ resumes' = resumes /\ now' = now /\ taken' = taken + 1
      /\ shots' = shots \cup {[id |-> taken + 1, at |-> now, step |-> "decode"]}
      /\ pending' = pending /\ last' = last /\ shown' = shown
    BY DEF Captured!Share, Captured!audioVars, Captured!bufferVars
<1>2. now' \in Nat /\ taken' \in Nat /\ shots' \subseteq Shots
    BY <1>1 DEF MediaInv, MediaTypes, Shots
<1>3. ShownAre' /\ ShownFits'
    BY <1>1 DEF MediaInv, MediaTypes, ShownAre, ShownFits, FramesInOrder
<1> QED BY <1>1, <1>2, <1>3, Stands

\* A picture on its way.
LEMMA MediaScreen ==
    ASSUME MediaInv, NEW s \in shots,
           Captured!Decoded(s) \/ Captured!Undecodable(s) \/ Captured!Persisted(s)
    PROVE  MediaInv'
<1>0. s \in Shots /\ now \in Nat /\ taken \in Nat /\ shots \subseteq Shots /\ ShownAre
    BY DEF MediaInv, MediaTypes
<1>1. /\ client' = client /\ wire' = wire /\ at' = at /\ header' = header
      /\ line' = line /\ parts' = parts /\ chunk' = chunk /\ unit' = unit
      /\ resumes' = resumes /\ now' = now /\ taken' = taken
      /\ last' = last /\ shown' = shown
    BY DEF Captured!Decoded, Captured!Undecodable, Captured!Persisted, Captured!OnlyScreen,
           Captured!audioVars, Captured!bufferVars
<1>2. shots' \subseteq Shots
  <2> DEFINE t == [s EXCEPT !.step = "persist"]
  <2>1. t \in Shots
      BY <1>0 DEF Shots
  <2>2. shots' \subseteq shots \cup {t}
      BY DEF Captured!Decoded, Captured!Undecodable, Captured!Persisted
  <2> HIDE DEF t
  <2> QED BY <1>0, <2>1, <2>2
<1>3. pending' \in Seq(Nat)
  <2> DEFINE a == Append(pending, s.at)
  <2>1. pending' \in {pending, a, Tail(a)}
      BY DEF Captured!Decoded, Captured!Undecodable, Captured!Persisted, Captured!Publish,
             Captured!bufferVars
  <2>2. pending \in Seq(Nat) /\ s.at \in Nat
      BY <1>0 DEF ShownAre, Shots
  <2>3. a \in Seq(Nat) /\ Len(a) = Len(pending) + 1
      BY <2>2, AppendProperties
  <2> HIDE DEF a
  <2>4. a # << >>
    <3>1. Len(a) # 0
        BY <2>2, <2>3
    <3> QED BY <3>1
  <2>5. Tail(a) \in Seq(Nat)
      BY <2>3, <2>4, HeadTailProperties
  <2> QED BY <2>1, <2>2, <2>3, <2>5
<1>4. ShownAre' /\ ShownFits'
    BY <1>0, <1>1, <1>3 DEF MediaInv, ShownAre, ShownFits, FramesInOrder
<1> QED BY <1>0, <1>1, <1>2, <1>4, Stands

-----------------------------------------------------------------------------
(* The handler *)

\* What reading a message leaves.
LEMMA Reads ==
    ASSUME MediaInv, wire # << >>, wire' = Tail(wire)
    PROVE  /\ wire \in Seq(Messages) /\ wire' \in Seq(Messages) /\ Audible'
           /\ Head(wire) = wire[1] /\ wire[1] \in Messages /\ 1 \in DOMAIN wire
           /\ Len(wire) \in Nat \ {0} /\ Len(wire') = Len(wire) - 1
           /\ \A i \in DOMAIN wire' : i + 1 \in DOMAIN wire /\ wire'[i] = wire[i + 1]
           /\ (\A i \in DOMAIN wire : wire[i].kind # "header") =>
                 \A i \in DOMAIN wire' : wire'[i].kind # "header"
<1>0. PICK n : n = Len(wire)
    OBVIOUS
<1>1. wire \in Seq(Messages)
    BY DEF MediaInv, MediaTypes
<1>2. n \in Nat \ {0} /\ DOMAIN wire = 1..n
  <2>1. n \in Nat /\ DOMAIN wire = 1..n
      BY <1>0, <1>1, Items
  <2>2. n # 0
      BY <1>0, <1>1, EmptySeq
  <2> QED BY <2>1, <2>2
<1>3. /\ wire' \in Seq(Messages) /\ Len(wire') = n - 1 /\ DOMAIN wire' = 1..(n - 1)
      /\ \A i \in 1..(n - 1) : wire'[i] = wire[i + 1]
      /\ Head(wire) = wire[1]
  <2>1. /\ Tail(wire) \in Seq(Messages) /\ Len(Tail(wire)) = n - 1
        /\ \A i \in 1..Len(Tail(wire)) : Tail(wire)[i] = wire[i + 1]
      BY <1>0, <1>1, HeadTailProperties
  <2>2. DOMAIN Tail(wire) = 1..Len(Tail(wire))
      BY <2>1, Items
  <2> QED BY <1>1, <2>1, <2>2
<1>4. \A i \in 1..(n - 1) : i + 1 \in 1..n
    BY <1>2
<1>5. wire[1] \in Messages /\ 1 \in 1..n
  <2>1. 1 \in 1..n
      BY <1>2
  <2> QED BY <1>0, <1>1, <2>1, Items
<1>6. Audible'
    BY <1>2, <1>3, <1>4 DEF MediaInv, Audible
<1> QED BY <1>0, <1>1, <1>2, <1>3, <1>4, <1>5, <1>6

\* Nothing but the end or its frame is read after a header.
LEMMA Unheard ==
    ASSUME WireFits, wire # << >>, wire[1].kind \notin {"pcm", "gone"}
    PROVE  header = Captured!NoHeader
BY DEF WireFits, HeaderFits, Follows, Bears

LEMMA MediaTakeHeader ==
    ASSUME MediaInv, Captured!TakeHeader PROVE MediaInv'
<1>1. /\ at = "loop" /\ wire # << >> /\ Head(wire).kind = "header" /\ wire' = Tail(wire)
      /\ header' = IF header = Captured!NoHeader THEN Head(wire).h ELSE header
      /\ client' = client /\ at' = at
      /\ line' = line /\ parts' = parts /\ chunk' = chunk /\ unit' = unit
      /\ resumes' = resumes /\ now' = now /\ taken' = taken /\ shots' = shots
      /\ pending' = pending /\ last' = last /\ shown' = shown
    BY DEF Captured!TakeHeader, Captured!Take, Captured!KeepScreen, Captured!screenVars,
           Captured!bufferVars
<1>2. /\ wire \in Seq(Messages) /\ wire' \in Seq(Messages) /\ Audible'
      /\ Head(wire) = wire[1] /\ wire[1] \in Messages /\ 1 \in DOMAIN wire
      /\ Len(wire) \in Nat \ {0} /\ Len(wire') = Len(wire) - 1
      /\ \A i \in DOMAIN wire' : i + 1 \in DOMAIN wire /\ wire'[i] = wire[i + 1]
    BY <1>1, Reads
<1>3. wire[1].h \in Headers
    BY <1>1, <1>2, MessageKinds
<1>4. header' \in Headers \cup {Captured!NoHeader}
    BY <1>1, <1>2, <1>3 DEF MediaInv, MediaTypes
<1>5. MediaTypes'
    BY <1>1, <1>2, <1>4 DEF MediaInv, MediaTypes, ShownAre
<1>6. LineFits' /\ PartsFit' /\ ShownFits'
    BY <1>1 DEF MediaInv, LineFits, PartsFit, ShownFits, FramesInOrder
<1>7. ASSUME resumes = 0, client.timed PROVE Timed'
  <2>1. Timed /\ WireFits
      BY <1>1, <1>7 DEF MediaInv, InTime, Timed
  <2>2. header = Captured!NoHeader
      BY <1>1, <1>2, <2>1, Unheard
  <2>3. header' = wire[1].h /\ header' # Captured!NoHeader
      BY <1>1, <1>2, <1>3, <2>2, MediaTerms
  <2>4. PICK e : WireNumbered(e)
      BY <2>1 DEF WireFits
  <2>5. /\ e[1] = [seq |-> line.seq, start |-> line.sample]
        /\ e[1] = [seq |-> wire[1].h.seq, start |-> wire[1].h.start]
      BY <1>1, <1>2, <2>2, <2>4 DEF WireNumbered, Expected, Counted
  <2>6. header'.seq = line.seq /\ header'.start = line.sample
      BY <2>3, <2>5
  <2>7. 1 < Len(wire) /\ Follows(wire[2], wire[1].h)
      BY <1>1, <1>2, <2>1 DEF WireFits, Placed
  <2>8. wire' # << >> /\ wire'[1] = wire[2]
    <3>1. Len(wire') # 0
        BY <1>2, <2>7
    <3>2. DOMAIN wire' = 1..Len(wire')
        BY <1>2, Items
    <3>3. 1 \in DOMAIN wire'
        BY <1>2, <2>7, <3>2
    <3> QED BY <1>2, <3>1, <3>3
  <2>9. HeaderFits'
      BY <1>1, <2>3, <2>6, <2>7, <2>8 DEF HeaderFits
  <2>10. Expected' = After(wire[1].h)
      BY <2>3 DEF Expected
  <2>11. WireFits'
      BY <1>1, <1>2, <2>1, <2>3, <2>4, <2>9, <2>10, WireTail DEF WireFits
  <2>12. Paced'
      BY <1>1, <2>1 DEF Timed, Paced, ChunkTimed
  <2> QED BY <2>11, <2>12 DEF Timed
<1>8. ASSUME resumes = 0, ~ client.timed PROVE Untimed'
    BY <1>1, <1>2, <1>8 DEF MediaInv, InTime, Untimed
<1>9. InTime'
    BY <1>1, <1>7, <1>8 DEF InTime
<1> QED BY <1>2, <1>5, <1>6, <1>9 DEF MediaInv

\* What is refused ends the session.
LEMMA MediaFail ==
    ASSUME MediaConstants, MediaInv, at' = "failed", parts' = << >>, chunk' = << >>, Captured!ClearBuffer,
           header' = header, line' = line, unit' = unit, client' = client,
           wire' \in Seq(Messages), Audible', Captured!KeepScreen, resumes # 0
    PROVE  MediaInv'
<1>1. /\ resumes' = resumes /\ now' = now /\ taken' = taken /\ shots' = shots
      /\ pending' = << >> /\ last' = None /\ shown' = << >>
    BY DEF Captured!KeepScreen, Captured!screenVars, Captured!ClearBuffer, None, Captured!None
<1>2. /\ << >> \in Seq(FrameParts) /\ << >> \in Samples /\ DOMAIN << >> = {} /\ << >> \in Seq(Nat)
      /\ << >> \in Seq([picture : Nat, start : Times]) /\ Len(<< >>) = 0 /\ None \in Times
    BY DEF Samples, Times
<1>3. ShownAre'
    BY <1>1, <1>2 DEF ShownAre
<1>4. MediaTypes'
    BY <1>1, <1>2, <1>3 DEF MediaInv, MediaTypes
<1>5. LineFits' /\ ShownFits'
    BY <1>1, <1>2 DEF MediaInv, LineFits, ShownFits, FramesInOrder
<1>6. PartsFit'
  <2>2. parts' = << >> /\ DOMAIN parts' = {} /\ at' # "parts"
      BY <1>2
  <2>3. Len(chunk') < UnitSamples
      BY <1>2 DEF MediaConstants
  <2> QED BY <2>2, <2>3 DEF PartsFit
<1>7. InTime'
    BY <1>1 DEF InTime
<1> QED BY <1>4, <1>5, <1>6, <1>7 DEF MediaInv

LEMMA MediaTakePcm ==
    ASSUME MediaConstants, MediaInv, Captured!TakePcm PROVE MediaInv'
<1> DEFINE s == Head(wire).samples
           h == header
           cut == Captured!Split(header, s)
           lost == \E i \in DOMAIN cut.parts : cut.parts[i].starts = << None >>
<1>1. /\ at = "loop" /\ wire # << >> /\ Head(wire).kind = "pcm" /\ wire' = Tail(wire)
      /\ client' = client /\ Captured!KeepScreen
    BY DEF Captured!TakePcm, Captured!Take
<1>2. /\ wire \in Seq(Messages) /\ wire' \in Seq(Messages) /\ Audible'
      /\ Head(wire) = wire[1] /\ wire[1] \in Messages /\ 1 \in DOMAIN wire
      /\ (\A i \in DOMAIN wire : wire[i].kind # "header") =>
            \A i \in DOMAIN wire' : wire'[i].kind # "header"
    BY <1>1, Reads
<1>3. s \in Samples /\ s # << >>
  <2>1. s \in Samples
      BY <1>1, <1>2, MessageKinds
  <2> QED BY <1>1, <1>2, <2>1 DEF MediaInv, Audible
<1>4. /\ resumes' = resumes /\ now' = now /\ taken' = taken /\ shots' = shots
    BY <1>1 DEF Captured!KeepScreen, Captured!screenVars
<1>5. /\ LineFits /\ line \in Lines0 /\ chunk \in Samples /\ Len(chunk) < UnitSamples
      /\ header \in Headers \cup {Captured!NoHeader}
    BY DEF MediaInv, MediaTypes, PartsFit
<1>6. CASE header = Captured!NoHeader
  <2>1. /\ parts' = Captured!Unheaded(s) /\ at' = "parts" /\ header' = header /\ line' = line
        /\ chunk' = chunk /\ unit' = unit /\ pending' = pending /\ last' = last /\ shown' = shown
      BY <1>6 DEF Captured!TakePcm, Captured!bufferVars
  <2>2. /\ parts' \in Seq(FrameParts) /\ parts' # << >>
        /\ \A i \in DOMAIN parts' : /\ Len(parts'[i].samples) \in 1..UnitSamples
                                    /\ ~ parts'[i].named /\ parts'[i].starts = << None >>
      BY <1>3, <2>1, PlainCut
  <2>3. MediaTypes'
      BY <1>1, <1>2, <1>4, <2>1, <2>2 DEF MediaInv, MediaTypes, ShownAre
  <2>4. PartsFit'
      BY <1>5, <2>1, <2>2 DEF PartsFit
  <2>5. LineFits' /\ ShownFits'
      BY <2>1 DEF MediaInv, LineFits, ShownFits, FramesInOrder
  <2>6. ASSUME resumes = 0 PROVE ~ client.timed
    <3> SUFFICES ASSUME client.timed PROVE FALSE
        OBVIOUS
    <3>1. WireFits
        BY <1>1, <2>6 DEF MediaInv, InTime, Timed
    <3> QED BY <1>1, <1>2, <1>6, <3>1 DEF WireFits, Placed
  <2>7. ASSUME resumes = 0 PROVE Untimed'
    <3>1. Untimed
        BY <2>6, <2>7 DEF MediaInv, InTime
    <3> QED BY <1>2, <2>1, <2>2, <3>1 DEF Untimed
  <2>8. InTime'
      BY <1>1, <1>4, <2>6, <2>7 DEF InTime
  <2> QED BY <1>2, <2>3, <2>4, <2>5, <2>8 DEF MediaInv
<1>7. CASE header # Captured!NoHeader /\ ~ Captured!InOrder(header, s)
  <2>1. Captured!Fail
      BY <1>7 DEF Captured!TakePcm
  <2>2. resumes # 0
    <3> SUFFICES ASSUME resumes = 0 PROVE FALSE
        OBVIOUS
    <3>1. client.timed
        BY <1>7 DEF MediaInv, InTime, Untimed
    <3>2. WireFits
        BY <1>1, <3>1 DEF MediaInv, InTime, Timed
    <3>3. header.seq = line.seq /\ header.start = line.sample /\ Bears(wire[1], header)
        BY <1>1, <1>2, <1>7, <3>2 DEF WireFits, HeaderFits, Follows
    <3>4. Captured!InOrder(header, s)
        BY <1>2, <3>3 DEF Captured!InOrder, Bears
    <3> QED BY <1>7, <3>4
  <2>3. /\ at' = "failed" /\ parts' = << >> /\ chunk' = << >> /\ Captured!ClearBuffer
        /\ header' = header /\ line' = line /\ unit' = unit
      BY <2>1 DEF Captured!Fail
  <2> QED BY <1>1, <1>2, <2>2, <2>3, MediaFail
<1>8. CASE header # Captured!NoHeader /\ Captured!InOrder(header, s)
  <2>1. h \in Headers /\ h.start = line.sample /\ h.size = Len(s) /\ h.seq = line.seq
      BY <1>5, <1>8 DEF Captured!InOrder
  <2>2. IF lost THEN Captured!Fail
        ELSE /\ line' = cut.line /\ parts' = cut.parts /\ at' = "parts"
             /\ header' = Captured!NoHeader
             /\ chunk' = chunk /\ unit' = unit
             /\ pending' = pending /\ last' = last /\ shown' = shown
      BY <1>8 DEF Captured!TakePcm, Captured!bufferVars, None, Captured!None
  <2>3. ~ lost
      BY <1>3, <1>5, <2>1, NeverLost
  <2>4. /\ line' = cut.line /\ parts' = cut.parts /\ at' = "parts"
        /\ header' = Captured!NoHeader /\ chunk' = chunk /\ unit' = unit
        /\ pending' = pending /\ last' = last /\ shown' = shown
      BY <2>2, <2>3
  <2> HIDE DEF lost
  <2>5. /\ line' \in Lines0 /\ line'.seq = line.seq + 1
        /\ line'.sample = line.sample + h.size
        /\ parts' \in Seq(FrameParts) /\ parts' # << >>
        /\ \A i \in DOMAIN parts' : Len(parts'[i].samples) \in 1..UnitSamples
        /\ \A i \in DOMAIN parts' : parts'[i].named
        /\ LineFits'
        /\ ChunkTimed /\ (\A k \in 1..h.size : s[k] = h.at + k - 1) => PartsTimed'
      BY <1>3, <1>5, <2>1, <2>4, FrameCut
  <2> HIDE DEF cut, s, h
  <2>6. MediaTypes'
      BY <1>1, <1>2, <1>4, <2>4, <2>5 DEF MediaInv, MediaTypes, ShownAre
  <2>7. PartsFit'
      BY <1>5, <2>4, <2>5 DEF PartsFit
  <2>8. ShownFits'
      BY <2>4 DEF MediaInv, ShownFits, FramesInOrder
  <2>9. ASSUME resumes = 0 PROVE client.timed
      BY <1>8, <2>9 DEF MediaInv, InTime, Untimed
  <2>10. ASSUME resumes = 0 PROVE Timed'
    <3>1. Timed /\ WireFits /\ ChunkTimed
        BY <1>1, <2>9, <2>10 DEF MediaInv, InTime, Timed, Paced
    <3>2. Bears(wire[1], h)
        BY <1>1, <1>2, <1>8, <3>1 DEF WireFits, HeaderFits, Follows, h
    <3>3. \A k \in 1..h.size : s[k] = h.at + k - 1
        BY <1>2, <3>2 DEF Bears, s
    <3>4. PartsTimed'
        BY <2>5, <3>1, <3>3
    <3>5. Paced'
        BY <2>4, <3>1, <3>4 DEF Timed, Paced
    <3>6. Expected' = Expected
      <4>1. Expected' = [seq |-> line'.seq, start |-> line'.sample]
          BY <2>4 DEF Expected
      <4>2. Expected = After(header)
          BY <1>8 DEF Expected
      <4> QED BY <2>1, <2>5, <4>1, <4>2 DEF After, h
    <3>7. HeaderFits'
        BY <2>4 DEF HeaderFits
    <3>8. wire[1].kind # "header"
        BY <1>1, <1>2
    <3>9. PICK e : WireNumbered(e)
        BY <3>1 DEF WireFits
    <3>10. WireFits'
        BY <1>1, <1>2, <3>1, <3>6, <3>7, <3>8, <3>9, WireTail DEF WireFits
    <3> QED BY <3>5, <3>10 DEF Timed
  <2>11. InTime'
      BY <1>1, <1>4, <2>9, <2>10 DEF InTime
  <2> QED BY <1>2, <2>5, <2>6, <2>7, <2>8, <2>11 DEF MediaInv
<1> QED BY <1>6, <1>7, <1>8

\* The chunker joins a part to what it holds.
LEMMA Joined ==
    ASSUME MediaConstants, NEW c \in Samples, Len(c) < UnitSamples,
           NEW s \in Samples, Len(s) \in 1..UnitSamples
    PROVE  LET all == c \o s
               U == UnitSamples
               rest == SubSeq(all, U + 1, Len(all))
           IN /\ all \in Samples /\ Len(all) = Len(c) + Len(s)
              /\ all[1] = IF c = << >> THEN s[1] ELSE c[1]
              /\ all[1] \in Nat
              /\ Len(all) >= U =>
                   /\ SubSeq(all, 1, U)[1] = all[1]
                   /\ rest \in Samples /\ Len(rest) = Len(c) + Len(s) - U
                   /\ rest # << >> => rest[1] = s[U + 1 - Len(c)]
<1> DEFINE all == c \o s
           rest == SubSeq(all, UnitSamples + 1, Len(all))
<1>0. PICK w : w = Len(c)
    OBVIOUS
<1>a. PICK n : n = Len(s)
    OBVIOUS
<1>b. PICK U : U = UnitSamples
    OBVIOUS
<1>1. /\ w \in Nat /\ n \in 1..U /\ U \in Nat \ {0} /\ w < U
      /\ c \in Seq(Nat) /\ s \in Seq(Nat)
    BY <1>0, <1>a, <1>b DEF MediaConstants, Samples
<1>2. /\ all \in Seq(Nat) /\ Len(all) = w + n
      /\ \A i \in 1..(w + n) : all[i] = IF i <= w THEN c[i] ELSE s[i - w]
    BY <1>0, <1>a, <1>1, ConcatProperties
<1> HIDE DEF all
<1>3. \A i \in 1..(w + n) : all[i] \in Nat
    BY <1>2, Items
<1>4. all[1] = IF c = << >> THEN s[1] ELSE c[1]
  <2>1. 1 \in 1..(w + n)
      BY <1>1
  <2>2. CASE c = << >>
    <3>1. w = 0 /\ ~(1 <= w) /\ 1 - w = 1
        BY <1>0, <2>2
    <3> QED BY <1>2, <2>1, <2>2, <3>1
  <2>3. CASE c # << >>
    <3>1. w # 0
        BY <1>0, <1>1, <2>3, EmptySeq
    <3>2. 1 <= w
        BY <1>1, <3>1
    <3> QED BY <1>2, <2>1, <2>3, <3>2
  <2> QED BY <2>2, <2>3
<1>5. all[1] \in Nat
  <2>1. 1 \in 1..(w + n)
      BY <1>1
  <2> QED BY <1>3, <2>1
<1>6. ASSUME w + n >= U
      PROVE  /\ SubSeq(all, 1, U)[1] = all[1]
             /\ rest \in Samples /\ Len(rest) = w + n - U
             /\ rest # << >> => rest[1] = s[U + 1 - w]
  <2>1. U \in 0..Len(all) /\ 1 \in 1..U
      BY <1>1, <1>2, <1>6
  <2>2. SubSeq(all, 1, U)[1] = all[1]
      BY <1>2, <2>1, Beginning
  <2>3. PICK a \in Int : a = U + 1
      BY <1>1
  <2>4. PICK b \in Int : b = w + n
      BY <1>1
  <2>5. \A i \in a..b : all[i] \in Nat
    <3>1. \A i \in a..b : i \in 1..(w + n)
        BY <1>1, <2>3, <2>4
    <3> QED BY <1>3, <3>1
  <2> DEFINE r == SubSeq(all, a, b)
  <2>6. /\ r \in Seq(Nat) /\ Len(r) = IF a <= b THEN b - a + 1 ELSE 0
        /\ \A i \in 1..(b - a + 1) : r[i] = all[a + i - 1]
      BY <2>5, SubSeqProperties
  <2>7. rest = r
      BY <1>2, <1>b, <2>3, <2>4
  <2> HIDE DEF r, rest
  <2>8. Len(r) = w + n - U
      BY <1>1, <1>6, <2>3, <2>4, <2>6
  <2>9. ASSUME r # << >> PROVE r[1] = s[U + 1 - w]
    <3>1. w + n - U # 0
        BY <2>6, <2>8, <2>9, EmptySeq
    <3>2. 1 \in 1..(b - a + 1) /\ a + 1 - 1 = a
        BY <1>1, <1>6, <2>3, <2>4, <3>1
    <3>3. r[1] = all[a]
        BY <2>6, <3>2
    <3>4. a \in 1..(w + n) /\ ~(a <= w) /\ a - w = U + 1 - w
        BY <1>1, <1>6, <2>3, <3>1
    <3>5. all[a] = s[a - w]
        BY <1>2, <3>4
    <3> QED BY <3>3, <3>4, <3>5
  <2> QED BY <2>2, <2>6, <2>7, <2>8, <2>9 DEF Samples
<1> QED BY <1>0, <1>a, <1>b, <1>2, <1>4, <1>5, <1>6 DEF all, rest, Samples

\* What is left of the parts when the first is fed.
LEMMA PartsTail ==
    ASSUME parts \in Seq(FrameParts), parts # << >>
    PROVE  /\ Tail(parts) \in Seq(FrameParts) /\ Len(Tail(parts)) = Len(parts) - 1
           /\ Len(parts) \in Nat \ {0} /\ DOMAIN parts = 1..Len(parts)
           /\ DOMAIN Tail(parts) = 1..(Len(parts) - 1)
           /\ \A i \in DOMAIN Tail(parts) : i + 1 \in DOMAIN parts /\ Tail(parts)[i] = parts[i + 1]
           /\ Head(parts) = parts[1] /\ parts[1] \in FrameParts /\ 1 \in DOMAIN parts
           /\ Len(parts) = 1 <=> Tail(parts) = << >>
<1>0. PICK n : n = Len(parts)
    OBVIOUS
<1>1. n \in Nat \ {0} /\ DOMAIN parts = 1..n /\ \A i \in 1..n : parts[i] \in FrameParts
  <2>1. n \in Nat /\ DOMAIN parts = 1..n /\ \A i \in 1..n : parts[i] \in FrameParts
      BY <1>0, Items
  <2>2. n # 0
      BY <1>0, EmptySeq
  <2> QED BY <2>1, <2>2
<1>2. /\ Tail(parts) \in Seq(FrameParts) /\ Len(Tail(parts)) = n - 1
      /\ \A i \in 1..Len(Tail(parts)) : Tail(parts)[i] = parts[i + 1]
      /\ Head(parts) = parts[1]
    BY <1>0, HeadTailProperties
<1>3. DOMAIN Tail(parts) = 1..(n - 1)
    BY <1>2, Items
<1>4. 1 \in 1..n /\ \A i \in 1..(n - 1) : i + 1 \in 1..n
    BY <1>1
<1>5. n = 1 <=> Tail(parts) = << >>
  <2>1. Len(Tail(parts)) = 0 <=> Tail(parts) = << >>
      BY <1>2, EmptySeq
  <2>2. n - 1 = 0 <=> n = 1
      BY <1>1
  <2> QED BY <1>2, <2>1, <2>2
<1> QED BY <1>0, <1>1, <1>2, <1>3, <1>4, <1>5

\* The chunker and the timeline agree on the part that is fed, and on those
\* that are left.
LEMMA PartFed ==
    ASSUME MediaConstants, parts \in Seq(FrameParts), parts # << >>, chunk \in Samples,
           LineFits, line \in Lines0, PartsFit, PartsTimed, parts' = Tail(parts), line' = line,
           chunk' = IF Heard(1) >= UnitSamples
                    THEN SubSeq(chunk \o parts[1].samples, UnitSamples + 1,
                                Len(chunk \o parts[1].samples))
                    ELSE chunk \o parts[1].samples
    PROVE  /\ Len(parts) = 1 => ChunkTimed'
           /\ Len(parts) # 1 => PartsTimed'
<1> DEFINE s == parts[1].samples
           all == chunk \o s
           c == Len(chunk)
           n == Len(parts)
           U == UnitSamples
<1>1. /\ parts' \in Seq(FrameParts) /\ Len(parts') = n - 1
      /\ n \in Nat \ {0} /\ DOMAIN parts = 1..n /\ DOMAIN parts' = 1..(n - 1)
      /\ \A i \in 1..(n - 1) : i + 1 \in 1..n /\ parts'[i] = parts[i + 1]
      /\ 1 \in 1..n /\ parts[1] \in FrameParts
    BY PartsTail
<1>2. s \in Samples /\ Len(s) \in 1..U /\ c \in Nat /\ c < U /\ U \in Nat \ {0}
      /\ \A i \in 1..n : Len(parts[i].samples) \in 1..U
  <2>1. U \in Nat \ {0}
      BY DEF MediaConstants
  <2>2. \A i \in 1..n : Len(parts[i].samples) \in 1..U
      BY <1>1 DEF PartsFit
  <2>3. s \in Samples
      BY <1>1 DEF FrameParts
  <2>4. c \in Nat /\ c < U
      BY DEF PartsFit, Samples
  <2> QED BY <1>1, <2>1, <2>2, <2>3, <2>4
<1>3. /\ Heard(1) = c + Len(s) /\ (chunk = << >> <=> c = 0)
      /\ all[1] = IF chunk = << >> THEN s[1] ELSE chunk[1]
      /\ chunk' \in Samples
      /\ Heard(1) >= U => /\ Len(chunk') = c + Len(s) - U
                          /\ chunk' # << >> => chunk'[1] = s[U + 1 - c]
      /\ ~ (Heard(1) >= U) => /\ Len(chunk') = c + Len(s) /\ chunk'[1] = all[1]
  <2>1. Heard(1) = c + Len(s) /\ (chunk = << >> <=> c = 0)
      BY EmptySeq DEF Heard, Samples
  <2> QED BY <1>2, <2>1, Joined
<1>4. \A i \in 1..n : PartTimed(i)
    BY <1>1 DEF PartsTimed
<1>5. EndTimed(n)
    BY <1>1 DEF PartsTimed
<1>6. Begins(1) = all[1]
    BY <1>3 DEF Begins
<1>7. ASSUME n = 1 PROVE ChunkTimed'
  <2>1. /\ line.sample - line.unitStart = IF Heard(1) >= U THEN Heard(1) - U ELSE Heard(1)
        /\ line.origin # None =>
             line.origin = IF Heard(1) >= U THEN s[U + 1 - c] ELSE Begins(1)
      BY <1>5, <1>7 DEF EndTimed
  <2> HIDE DEF s, all, c
  <2>2. line.sample - line.unitStart = Len(chunk')
    <3>1. CASE Heard(1) >= U
      <4>1. Len(chunk') = c + Len(s) - U /\ Heard(1) = c + Len(s)
          BY <1>3, <3>1
      <4>2. line.sample - line.unitStart = Heard(1) - U
          BY <2>1, <3>1
      <4>3. c \in Nat /\ Len(s) \in Nat /\ U \in Nat
          BY <1>2
      <4>4. Heard(1) - U = c + Len(s) - U
          BY <4>1, <4>3
      <4> QED BY <4>1, <4>2, <4>4
    <3>2. CASE ~ (Heard(1) >= U)
      <4>1. Len(chunk') = c + Len(s) /\ Heard(1) = c + Len(s)
          BY <1>3, <3>2
      <4>2. line.sample - line.unitStart = Heard(1)
          BY <2>1, <3>2
      <4> QED BY <4>1, <4>2
    <3> QED BY <3>1, <3>2
  <2>3. ASSUME chunk' # << >> PROVE line'.origin = chunk'[1]
    <3>1. Len(chunk') # 0
        BY <1>3, <2>3, EmptySeq DEF Samples
    <3>2. line.sample # line.unitStart
      <4>1. line.sample \in Nat /\ line.unitStart \in Nat
          BY DEF Lines0
      <4>2. line.sample - line.unitStart # 0
          BY <2>2, <3>1
      <4> QED BY <4>1, <4>2
    <3>3. line.origin # None
        BY <3>2 DEF LineFits
    <3> QED BY <1>3, <1>6, <2>1, <2>3, <3>3
  <2> QED BY <2>2, <2>3 DEF ChunkTimed
<1>8. ASSUME n # 1 PROVE PartsTimed'
  <2>1. 1 < n /\ n \in Nat
      BY <1>1, <1>8
  <2>2. Len(s) = U
      BY <1>1, <1>4, <2>1 DEF PartTimed
  <2> HIDE DEF s, all
  <2>3. Heard(1) >= U /\ Len(chunk') = c
      BY <1>2, <1>3, <2>2
  <2>4. chunk' = << >> <=> chunk = << >>
      BY <1>3, <2>3, EmptySeq DEF Samples
  <2> HIDE DEF c, n
  <2>5. ASSUME NEW i \in 1..(n - 1) PROVE Begins(i)' = Begins(i + 1) /\ Heard(i)' = Heard(i + 1)
    <3>1. parts'[i] = parts[i + 1] /\ i \in Nat
        BY <1>1
    <3>2. Heard(i)' = Heard(i + 1)
        BY <2>3, <3>1 DEF Heard, c
    <3>3. Begins(i)' = IF chunk' = << >> THEN parts'[i].samples[1]
                       ELSE IF i = 1 THEN chunk'[1]
                       ELSE parts'[i - 1].samples[UnitSamples + 1 - c]
        BY <2>3 DEF Begins
    <3>4. Begins(i + 1) = IF chunk = << >> THEN parts[i + 1].samples[1]
                          ELSE parts[i].samples[UnitSamples + 1 - c]
      <4>1. i + 1 # 1 /\ i + 1 - 1 = i
          BY <3>1
      <4> QED BY <4>1 DEF Begins, c
    <3>5. Begins(i)' = Begins(i + 1)
      <4>1. CASE chunk = << >>
          BY <2>4, <3>1, <3>3, <3>4, <4>1
      <4>2. CASE chunk # << >> /\ i = 1
          BY <1>3, <2>3, <2>4, <3>3, <3>4, <4>2 DEF s
      <4>3. CASE chunk # << >> /\ i # 1
        <5>1. i - 1 \in 1..(n - 1) /\ i - 1 + 1 = i
            BY <2>1, <4>3
        <5>2. parts'[i - 1] = parts[i]
            BY <1>1, <5>1
        <5> QED BY <2>4, <3>3, <3>4, <4>3, <5>2
      <4> QED BY <4>1, <4>2, <4>3
    <3> QED BY <3>2, <3>5
  <2>6. ASSUME NEW i \in 1..(n - 1) PROVE PartTimed(i)'
    <3>1. parts'[i] = parts[i + 1] /\ i + 1 \in 1..n /\ i \in Nat /\ (i + 1 < n <=> i < n - 1)
        BY <1>1, <2>1
    <3>2. PartTimed(i + 1)
        BY <1>4, <3>1
    <3>3. Begins(i)' = Begins(i + 1) /\ Heard(i)' = Heard(i + 1)
        BY <2>5
    <3>4. Len(parts') = n - 1 /\ n = Len(parts)
        BY <1>1 DEF n
    <3> QED BY <3>1, <3>2, <3>3, <3>4 DEF PartTimed
  <2>7. ASSUME NEW m, m = n - 1 PROVE EndTimed(m)'
    <3>1. m \in 1..(n - 1) /\ m + 1 = n
        BY <2>1, <2>7
    <3>2. EndTimed(m + 1)
        BY <1>5, <3>1
    <3>3. Begins(m)' = Begins(m + 1) /\ Heard(m)' = Heard(m + 1) /\ parts'[m] = parts[m + 1]
        BY <1>1, <2>5, <3>1
    <3>4. Len(chunk') = Len(chunk)
        BY <2>3 DEF c
    <3> QED BY <3>2, <3>3, <3>4 DEF EndTimed
  <2>8. DOMAIN parts' = 1..(n - 1) /\ Len(parts') = n - 1
      BY <1>1
  <2> QED BY <2>6, <2>7, <2>8 DEF PartsTimed
<1> QED BY <1>7, <1>8

LEMMA MediaFeedPart ==
    ASSUME MediaConstants, MediaInv, Captured!FeedPart PROVE MediaInv'
<1> DEFINE part == parts[1]
           s == part.samples
           all == chunk \o s
           U == UnitSamples
           full == Heard(1) >= U
<1>1. at = "parts" /\ parts # << >> /\ client' = client /\ wire' = wire /\ Captured!KeepScreen
    BY DEF Captured!FeedPart
<1>2. /\ parts \in Seq(FrameParts) /\ chunk \in Samples /\ LineFits /\ line \in Lines0
      /\ PartsFit /\ ShownAre /\ ShownFits
    BY DEF MediaInv, MediaTypes
<1>3. /\ Tail(parts) \in Seq(FrameParts) /\ Head(parts) = part /\ part \in FrameParts
      /\ 1 \in DOMAIN parts /\ Len(parts) \in Nat \ {0}
      /\ \A i \in DOMAIN Tail(parts) : i + 1 \in DOMAIN parts /\ Tail(parts)[i] = parts[i + 1]
      /\ Len(parts) = 1 <=> Tail(parts) = << >>
    BY <1>1, <1>2, PartsTail
<1>4. /\ s \in Samples /\ Len(s) \in 1..U /\ Len(chunk) < U /\ Len(chunk) \in Nat
      /\ part.starts \in Seq(Times)
      /\ ~ part.named => part.starts = << None >>
  <2>1. s \in Samples /\ part.starts \in Seq(Times)
      BY <1>3 DEF FrameParts
  <2>2. Len(s) \in 1..U /\ Len(chunk) < U /\ (~ part.named => part.starts = << None >>)
      BY <1>2, <1>3 DEF PartsFit
  <2>3. Len(chunk) \in Nat
      BY <1>2 DEF Samples
  <2> QED BY <2>1, <2>2, <2>3
<1>5. /\ Heard(1) = Len(all) /\ Heard(1) = Len(chunk) + Len(s)
      /\ all \in Samples /\ all[1] \in Nat
      /\ all[1] = IF chunk = << >> THEN s[1] ELSE chunk[1]
      /\ full => /\ SubSeq(all, 1, U)[1] = all[1]
                 /\ SubSeq(all, U + 1, Len(all)) \in Samples
                 /\ Len(SubSeq(all, U + 1, Len(all))) = Len(chunk) + Len(s) - U
  <2>1. Heard(1) = Len(chunk) + Len(s)
      BY DEF Heard
  <2>2. /\ all \in Samples /\ Len(all) = Len(chunk) + Len(s)
        /\ all[1] = IF chunk = << >> THEN s[1] ELSE chunk[1]
        /\ all[1] \in Nat
        /\ Len(all) >= U =>
             /\ SubSeq(all, 1, U)[1] = all[1]
             /\ SubSeq(all, U + 1, Len(all)) \in Samples
             /\ Len(SubSeq(all, U + 1, Len(all))) = Len(chunk) + Len(s) - U
    <3> HIDE DEF s
    <3> QED BY <1>2, <1>4, Joined
  <2> HIDE DEF all
  <2> QED BY <2>1, <2>2
<1>6. Begins(1) = all[1]
    BY <1>5 DEF Begins
<1>7. resumes' = resumes /\ now' = now /\ taken' = taken /\ shots' = shots
    BY <1>1 DEF Captured!KeepScreen, Captured!screenVars
<1>8. IF part.named /\ (Len(part.starts) = 1) # full
      THEN Captured!Fail
      ELSE /\ chunk' = IF full THEN SubSeq(all, U + 1, Len(all)) ELSE all
           /\ parts' = Tail(parts)
           /\ IF full THEN Captured!Step(SubSeq(all, 1, U), part.starts[1])
                      ELSE unit' = unit /\ pending' = pending /\ last' = last /\ shown' = shown
           /\ at' = IF Len(parts) = 1 THEN "loop" ELSE "parts"
           /\ header' = header /\ line' = line
    BY <1>3, <1>5 DEF Captured!FeedPart, Captured!bufferVars
<1>9. ASSUME resumes = 0 PROVE IF client.timed THEN Timed ELSE Untimed
    BY <1>9 DEF MediaInv, InTime
<1>10. ASSUME resumes = 0, client.timed
       PROVE  /\ part.named = TRUE /\ part.starts = IF full THEN << all[1] >> ELSE << >>
              /\ Paced /\ PartsTimed /\ WireFits /\ header = Captured!NoHeader
  <2>1. Paced /\ PartsTimed /\ WireFits /\ header = Captured!NoHeader
      BY <1>1, <1>9, <1>10 DEF Timed, Paced
  <2>2. PartTimed(1)
      BY <1>3, <2>1 DEF PartsTimed
  <2>3. part.named \in BOOLEAN
      BY <1>3 DEF FrameParts
  <2>4. part.named
      BY <2>2 DEF PartTimed
  <2>5. part.named = TRUE
      BY <2>3, <2>4
  <2>6. part.starts = IF full THEN << all[1] >> ELSE << >>
      BY <1>6, <2>2 DEF PartTimed
  <2> QED BY <2>1, <2>5, <2>6
<1>11. ASSUME resumes = 0, ~ client.timed PROVE Untimed /\ ~ part.named /\ part.starts = << None >>
  <2>1. Untimed
      BY <1>9, <1>11
  <2> QED BY <1>3, <1>4, <2>1 DEF Untimed
<1> HIDE DEF all, part, s
<1>12. CASE part.named /\ (Len(part.starts) = 1) # full
  <2>1. Captured!Fail
      BY <1>8, <1>12
  <2>2. /\ at' = "failed" /\ parts' = << >> /\ chunk' = << >> /\ Captured!ClearBuffer
        /\ header' = header /\ line' = line /\ unit' = unit
      BY <2>1 DEF Captured!Fail
  <2>3. resumes # 0
    <3> SUFFICES ASSUME resumes = 0 PROVE FALSE
        OBVIOUS
    <3>1. client.timed
        BY <1>11, <1>12
    <3>2. part.starts = IF full THEN << all[1] >> ELSE << >>
        BY <1>10, <3>1
    <3>3. Len(<< all[1] >>) = 1 /\ Len(<< >>) = 0
        OBVIOUS
    <3>4. (Len(part.starts) = 1) = full
      <4>1. CASE full
        <5>1. Len(part.starts) = 1
            BY <3>2, <3>3, <4>1
        <5> QED BY <4>1, <5>1
      <4>2. CASE ~ full
        <5>1. ~ (Len(part.starts) = 1)
            BY <3>2, <3>3, <4>2
        <5> QED BY <4>2, <5>1
      <4> QED BY <4>1, <4>2
    <3> QED BY <1>12, <3>4
  <2>4. wire' \in Seq(Messages) /\ Audible'
      BY <1>1 DEF MediaInv, MediaTypes, Audible
  <2> QED BY <1>1, <2>2, <2>3, <2>4, MediaFail
<1>13. CASE ~ (part.named /\ (Len(part.starts) = 1) # full)
  <2>1. /\ chunk' = (IF full THEN SubSeq(all, U + 1, Len(all)) ELSE all)
        /\ parts' = Tail(parts)
        /\ at' = (IF Len(parts) = 1 THEN "loop" ELSE "parts")
        /\ header' = header /\ line' = line
      BY <1>8, <1>13
  <2>2. IF full THEN Captured!Step(SubSeq(all, 1, U), part.starts[1])
                ELSE unit' = unit /\ pending' = pending /\ last' = last /\ shown' = shown
      BY <1>8, <1>13
  <2>3. full => part.starts[1] \in Times
    <3> SUFFICES ASSUME full PROVE part.starts[1] \in Times
        OBVIOUS
    <3>1. CASE part.named
      <4>1. Len(part.starts) = 1
          BY <1>13, <3>1
      <4> QED BY <1>4, <4>1, Items
    <3>2. CASE ~ part.named
      <4>1. part.starts[1] = None
          BY <1>4, <3>2
      <4> QED BY <4>1 DEF Times
    <3> QED BY <3>1, <3>2
  <2>4. /\ ShownAre' /\ ShownFits'
        /\ unit' = IF full THEN [first |-> all[1], start |-> part.starts[1]] ELSE unit
    <3>1. CASE full
      <4>1. Captured!Step(SubSeq(all, 1, U), part.starts[1])
          BY <2>2, <3>1
      <4>2. /\ unit' = [first |-> SubSeq(all, 1, U)[1], start |-> part.starts[1]]
            /\ ShownAre' /\ ShownFits'
          BY <1>2, <2>3, <3>1, <4>1, StepShows
      <4>3. SubSeq(all, 1, U)[1] = all[1]
          BY <1>5, <3>1
      <4> QED BY <3>1, <4>2, <4>3
    <3>2. CASE ~ full
      <4>1. unit' = unit /\ pending' = pending /\ last' = last /\ shown' = shown
          BY <2>2, <3>2
      <4> QED BY <1>2, <3>2, <4>1 DEF ShownAre, ShownFits, FramesInOrder
    <3> QED BY <3>1, <3>2
  <2>5. unit' \in [first : Times, start : Times]
    <3>1. unit \in [first : Times, start : Times]
        BY DEF MediaInv, MediaTypes
    <3>2. all[1] \in Times
        BY <1>5 DEF Times
    <3> QED BY <2>3, <2>4, <3>1, <3>2
  <2>6. chunk' \in Samples /\ Len(chunk') < U
    <3>1. U \in Nat
        BY DEF MediaConstants
    <3>2. CASE full
      <4>1. chunk' \in Samples /\ Len(chunk') = Len(chunk) + Len(s) - U
          BY <1>5, <2>1, <3>2
      <4>2. Len(chunk) + Len(s) - U < U
          BY <1>4, <3>1
      <4> QED BY <4>1, <4>2
    <3>3. CASE ~ full
      <4>1. chunk' = all /\ Len(chunk') = Heard(1)
          BY <1>5, <2>1, <3>3
      <4>2. Heard(1) \in Nat
          BY <1>4, <1>5
      <4> QED BY <1>5, <3>1, <3>3, <4>1, <4>2
    <3> QED BY <3>2, <3>3
  <2>7. MediaTypes'
    <3>1. wire \in Seq(Messages) /\ client \in Clients /\ {now, taken, resumes} \subseteq Nat
          /\ header \in Headers \cup {Captured!NoHeader} /\ shots \subseteq Shots
        BY DEF MediaInv, MediaTypes
    <3> HIDE DEF full
    <3> QED BY <1>1, <1>2, <1>3, <1>7, <2>1, <2>4, <2>5, <2>6, <3>1 DEF MediaTypes
  <2>8. LineFits' /\ Audible'
      BY <1>1, <2>1 DEF MediaInv, LineFits, Audible
  <2>9. PartsFit'
    <3>1. at' = "parts" <=> parts' # << >>
        BY <1>3, <2>1
    <3>2. ASSUME NEW i \in DOMAIN parts'
          PROVE  /\ Len(parts'[i].samples) \in 1..UnitSamples
                 /\ ~ parts'[i].named => parts'[i].starts = << None >>
        BY <1>2, <1>3, <2>1 DEF PartsFit
    <3>3. Len(chunk') < UnitSamples
        BY <2>6
    <3> QED BY <3>1, <3>2, <3>3 DEF PartsFit
  <2>10. ASSUME resumes = 0, client.timed PROVE Timed'
    <3>1. /\ Paced /\ PartsTimed /\ WireFits /\ header = Captured!NoHeader
          /\ part.starts = (IF full THEN << all[1] >> ELSE << >>)
        BY <1>10, <2>10
    <3>2. /\ Len(parts) = 1 => ChunkTimed'
          /\ Len(parts) # 1 => PartsTimed'
        BY <1>1, <1>2, <2>1, <3>1, PartFed DEF all, part, s
    <3>3. unit' # NoUnit => unit'.start = unit'.first /\ unit'.start # None
      <4>1. CASE full
        <5>1. part.starts[1] = all[1]
            BY <3>1, <4>1
        <5>2. unit'.start = all[1] /\ unit'.first = all[1]
            BY <2>4, <4>1, <5>1
        <5> QED BY <1>5, <5>2 DEF None
      <4>2. CASE ~ full
          BY <2>4, <3>1, <4>2 DEF Paced
      <4> QED BY <4>1, <4>2
    <3>4. Paced'
      <4>1. at' = "loop" \/ at' = "parts"
          BY <2>1
      <4>2. at' = "loop" => ChunkTimed'
          BY <2>1, <3>2
      <4>3. at' = "parts" => PartsTimed' /\ header' = Captured!NoHeader
          BY <2>1, <3>1, <3>2
      <4> HIDE <2>1
      <4> QED BY <3>3, <4>1, <4>2, <4>3 DEF Paced
    <3>5. WireFits'
        BY <1>1, <2>1, <3>1, WireStays
    <3> QED BY <3>4, <3>5 DEF Timed
  <2>11. ASSUME resumes = 0, ~ client.timed PROVE Untimed'
    <3>1. Untimed /\ part.starts[1] = None
        BY <1>11, <2>11
    <3>2. unit'.start = None
        BY <2>4, <3>1 DEF Untimed
    <3>3. \A i \in DOMAIN parts' : ~ parts'[i].named
        BY <1>3, <2>1, <3>1 DEF Untimed
    <3>4. at' # "failed" /\ header' = header /\ line' = line
        BY <2>1
    <3> QED BY <1>1, <3>1, <3>2, <3>3, <3>4 DEF Untimed
  <2>12. InTime'
      BY <1>1, <1>7, <2>10, <2>11 DEF InTime
  <2> QED BY <2>4, <2>7, <2>8, <2>9, <2>12 DEF MediaInv
<1> QED BY <1>12, <1>13

\* A step of the handler that only takes a message which is no sound, and
\* may forget what it showed.
LEMMA Notes ==
    ASSUME MediaInv, at \in {"loop", "mode"}, at' \in {"loop", "mode"},
           client' = client, header' = header, line' = line, parts' = parts,
           chunk' = chunk, unit' = unit, resumes' = resumes, now' = now,
           taken' = taken, shots' = shots, ShownAre', ShownFits',
           wire' \in Seq(Messages), Audible',
           client.timed /\ WireFits => WireFits',
           (\A i \in DOMAIN wire : wire[i].kind # "header") =>
              \A i \in DOMAIN wire' : wire'[i].kind # "header"
    PROVE  MediaInv'
<1>1. MediaTypes'
    BY DEF MediaInv, MediaTypes
<1>2. LineFits' /\ PartsFit'
    BY DEF MediaInv, LineFits, PartsFit
<1>3. ASSUME resumes = 0, client.timed PROVE Timed'
  <2>1. Timed /\ WireFits
      BY <1>3 DEF MediaInv, InTime, Timed
  <2>2. ChunkTimed <=> ChunkTimed'
      BY DEF ChunkTimed
  <2>3. Paced'
      BY <2>1, <2>2 DEF Timed, Paced
  <2> QED BY <1>3, <2>1, <2>3 DEF Timed
<1>4. ASSUME resumes = 0, ~ client.timed PROVE Untimed'
    BY <1>4 DEF MediaInv, InTime, Untimed
<1>5. InTime'
    BY <1>3, <1>4 DEF InTime
<1> QED BY <1>1, <1>2, <1>5 DEF MediaInv

\* A message that is no sound leaves the rest of the wire as it was.
LEMMA WireReads ==
    ASSUME MediaInv, wire # << >>, wire' = Tail(wire), client' = client,
           wire[1].kind \in {"mode", "reset", "stop"}, WireFits,
           header' = header, line' = line
    PROVE  WireFits'
<1>1. header = Captured!NoHeader
    BY Unheard
<1>2. PICK e : WireNumbered(e)
    BY DEF WireFits
<1>3. HeaderFits' /\ Expected' = Expected
    BY <1>1 DEF HeaderFits, Expected
<1>4. wire \in Seq(Messages) /\ wire[1].kind # "header"
    BY DEF MediaInv, MediaTypes
<1> QED BY <1>2, <1>3, <1>4, WireTail DEF WireFits

\* A cleared buffer.
LEMMA Cleared ==
    ASSUME Captured!ClearBuffer PROVE ShownAre' /\ ShownFits'
<1>1. pending' = << >> /\ last' = None /\ shown' = << >>
    BY DEF Captured!ClearBuffer, None, Captured!None
<1>2. << >> \in Seq(Nat) /\ << >> \in Seq([picture : Nat, start : Times]) /\ DOMAIN << >> = {}
      /\ None \in Times
    BY DEF Times
<1> QED BY <1>1, <1>2 DEF ShownAre, ShownFits, FramesInOrder

LEMMA MediaTakeMode ==
    ASSUME MediaInv, Captured!TakeMode PROVE MediaInv'
<1>1. /\ at = "loop" /\ at' \in {"loop", "mode"}
      /\ wire # << >> /\ Head(wire).kind = "mode" /\ wire' = Tail(wire)
      /\ client' = client /\ header' = header /\ line' = line /\ parts' = parts
      /\ chunk' = chunk /\ unit' = unit /\ Captured!KeepScreen
    BY DEF Captured!TakeMode, Captured!Take, Captured!audioVars
<1>2. \/ pending' = pending /\ last' = last /\ shown' = shown
      \/ Captured!ClearBuffer
    BY DEF Captured!TakeMode, Captured!bufferVars
<1>3. ShownAre' /\ ShownFits'
  <2>1. CASE pending' = pending /\ last' = last /\ shown' = shown
      BY <2>1 DEF MediaInv, MediaTypes, ShownAre, ShownFits, FramesInOrder
  <2>2. CASE Captured!ClearBuffer
      BY <2>2, Cleared
  <2> QED BY <1>2, <2>1, <2>2
<1>4. /\ Head(wire) = wire[1] /\ wire' \in Seq(Messages) /\ Audible'
      /\ (\A i \in DOMAIN wire : wire[i].kind # "header") =>
            \A i \in DOMAIN wire' : wire'[i].kind # "header"
    BY <1>1, Reads
<1>5. WireFits => WireFits'
    BY <1>1, <1>4, WireReads
<1>6. resumes' = resumes /\ now' = now /\ taken' = taken /\ shots' = shots
    BY <1>1 DEF Captured!KeepScreen, Captured!screenVars
<1> QED BY <1>1, <1>3, <1>4, <1>5, <1>6, Notes

LEMMA MediaModeDone ==
    ASSUME MediaInv, Captured!ModeDone PROVE MediaInv'
<1>1. /\ at = "mode" /\ at' = "loop" /\ client' = client /\ wire' = wire
      /\ header' = header /\ line' = line /\ parts' = parts
      /\ chunk' = chunk /\ unit' = unit
      /\ pending' = pending /\ last' = last /\ shown' = shown
      /\ resumes' = resumes /\ now' = now /\ taken' = taken /\ shots' = shots
    BY DEF Captured!ModeDone, Captured!audioVars, Captured!bufferVars, Captured!KeepScreen,
           Captured!screenVars
<1>2. ShownAre' /\ ShownFits'
    BY <1>1 DEF MediaInv, MediaTypes, ShownAre, ShownFits, FramesInOrder
<1>3. wire' \in Seq(Messages) /\ Audible'
    BY <1>1 DEF MediaInv, MediaTypes, Audible
<1>4. WireFits => WireFits'
    BY <1>1, WireStays
<1> QED BY <1>1, <1>2, <1>3, <1>4, Notes

LEMMA MediaTakeReset ==
    ASSUME MediaConstants, MediaInv, Captured!TakeReset PROVE MediaInv'
<1>1. /\ at = "loop" /\ at' = "resetting"
      /\ wire # << >> /\ Head(wire).kind = "reset" /\ wire' = Tail(wire)
      /\ client' = client /\ header' = Captured!NoHeader /\ line' = Captured!NewLine
      /\ parts' = parts /\ chunk' = chunk /\ unit' = unit /\ Captured!ClearBuffer
      /\ resumes' = resumes /\ now' = now /\ taken' = taken /\ shots' = shots
    BY DEF Captured!TakeReset, Captured!Take
<1>2. ShownAre' /\ ShownFits'
    BY <1>1, Cleared
<1>3. /\ Head(wire) = wire[1] /\ wire' \in Seq(Messages) /\ Audible' /\ 1 \in DOMAIN wire
      /\ Len(wire') = Len(wire) - 1
      /\ (\A i \in DOMAIN wire : wire[i].kind # "header") =>
            \A i \in DOMAIN wire' : wire'[i].kind # "header"
    BY <1>1, Reads
<1>4. MediaTypes'
    BY <1>1, <1>2, <1>3, MediaTerms DEF MediaInv, MediaTypes
<1>5. LineFits'
    BY <1>1, MediaTerms DEF LineFits, MediaConstants
<1>6. PartsFit'
    BY <1>1 DEF MediaInv, PartsFit
<1>7. ASSUME resumes = 0, client.timed PROVE Timed'
  <2>1. Paced /\ WireFits
      BY <1>1, <1>7 DEF MediaInv, InTime, Timed
  <2>2. 1 = Len(wire) /\ client.paused
      BY <1>1, <1>3, <2>1 DEF WireFits, Placed
  <2>3. wire' = << >>
    <3>1. Len(wire') = Len(wire) - 1 /\ Len(wire) = 1
        BY <1>3, <2>2
    <3>2. Len(wire') = 0
        BY <3>1
    <3> QED BY <1>3, <3>2, EmptySeq
  <2>4. Paced'
      BY <1>1, <2>1, <2>2, <2>3 DEF Paced
  <2> QED BY <1>1, <2>4 DEF Timed
<1>8. ASSUME resumes = 0, ~ client.timed PROVE Untimed'
  <2>1. Untimed
      BY <1>8 DEF MediaInv, InTime
  <2> QED BY <1>1, <1>3, <2>1 DEF Untimed
<1>9. InTime'
    BY <1>1, <1>7, <1>8 DEF InTime
<1> QED BY <1>2, <1>3, <1>4, <1>5, <1>6, <1>9 DEF MediaInv

LEMMA MediaResetDone ==
    ASSUME MediaConstants, MediaInv, Captured!ResetDone PROVE MediaInv'
<1>1. /\ at = "resetting" /\ at' = "loop" /\ chunk' = << >> /\ unit' = NoUnit
      /\ client' = [client EXCEPT !.seq = 0, !.cap = 0, !.paused = FALSE]
      /\ wire' = wire /\ header' = header /\ line' = line /\ parts' = parts
      /\ pending' = pending /\ last' = last /\ shown' = shown
      /\ resumes' = resumes /\ now' = now /\ taken' = taken /\ shots' = shots
    BY MediaTerms DEF Captured!ResetDone, Captured!bufferVars, Captured!KeepScreen,
           Captured!screenVars
<1>2. client' \in Clients /\ client'.timed = client.timed /\ client'.seq = 0 /\ client'.cap = 0
  <2>1. client \in Clients
      BY DEF MediaInv, MediaTypes
  <2> QED BY <1>1, <2>1 DEF Clients
<1>3. << >> \in Samples /\ Len(<< >>) = 0 /\ DOMAIN << >> = {}
    BY DEF Samples
<1>4. MediaTypes'
  <2>1. NoUnit \in [first : Times, start : Times]
      BY MediaTerms DEF Times
  <2> QED BY <1>1, <1>2, <1>3, <2>1 DEF MediaInv, MediaTypes, ShownAre
<1>5. LineFits' /\ Audible' /\ ShownFits'
    BY <1>1 DEF MediaInv, LineFits, Audible, ShownFits, FramesInOrder
<1>6. PartsFit'
  <2>1. Len(chunk') < UnitSamples
      BY <1>1, <1>3 DEF MediaConstants
  <2> QED BY <1>1, <2>1 DEF MediaInv, PartsFit
<1>7. ASSUME resumes = 0, client.timed PROVE Timed'
  <2>1. Paced
      BY <1>7 DEF MediaInv, InTime, Timed
  <2>2. wire = << >> /\ line = Captured!NewLine /\ header = Captured!NoHeader
      BY <1>1, <2>1 DEF Paced
  <2>3. line'.sample = 0 /\ line'.unitStart = 0 /\ line'.seq = 1
      BY <1>1, <2>2, MediaTerms
  <2>4. ChunkTimed'
      BY <1>1, <1>3, <2>3 DEF ChunkTimed
  <2>5. Paced'
      BY <1>1, <2>4 DEF Paced
  <2> DEFINE e == [i \in 1..1 |-> [seq |-> 1, start |-> 0]]
  <2>6. WireNumbered(e)'
    <3>1. e[1] = [seq |-> 1, start |-> 0]
        OBVIOUS
    <3> HIDE DEF e
    <3>2. e[1] = Expected'
        BY <1>1, <2>2, <2>3, <3>1 DEF Expected
    <3>3. DOMAIN wire' = {} /\ Len(wire') + 1 = 1
        BY <1>1, <1>3, <2>2
    <3>4. client'.seq + 1 = 1
        BY <1>2
    <3> QED BY <1>2, <3>1, <3>2, <3>3, <3>4 DEF WireNumbered
  <2> HIDE DEF e
  <2>7. (\E x : WireNumbered(x))'
      BY <2>6
  <2>8. HeaderFits' /\ DOMAIN wire' = {}
      BY <1>1, <1>3, <2>2 DEF HeaderFits
  <2>9. WireFits'
      BY <2>7, <2>8 DEF WireFits
  <2> QED BY <2>5, <2>9 DEF Timed
<1>8. ASSUME resumes = 0, ~ client.timed PROVE Untimed'
  <2>1. Untimed
      BY <1>8 DEF MediaInv, InTime
  <2>2. unit'.start = None
      BY <1>1, MediaTerms
  <2> QED BY <1>1, <2>1, <2>2 DEF Untimed
<1>9. InTime'
    BY <1>1, <1>2, <1>7, <1>8 DEF InTime
<1> QED BY <1>4, <1>5, <1>6, <1>9 DEF MediaInv

LEMMA MediaTakeStop ==
    ASSUME MediaConstants, MediaInv, Captured!TakeStop PROVE MediaInv'
<1>1. /\ at = "loop" /\ at' = "done" /\ chunk' = << >>
      /\ wire # << >> /\ Head(wire).kind = "stop" /\ wire' = Tail(wire)
      /\ client' = client /\ header' = header /\ line' = line /\ parts' = parts
      /\ resumes' = resumes /\ now' = now /\ taken' = taken /\ shots' = shots
      /\ IF chunk = << >>
           THEN unit' = unit /\ pending' = pending /\ last' = last /\ shown' = shown
           ELSE Captured!Step(chunk, line.origin)
    BY DEF Captured!TakeStop, Captured!Take, Captured!KeepScreen, Captured!screenVars,
           Captured!bufferVars
<1>2. /\ line \in Lines0 /\ line.origin \in Times /\ chunk \in Samples /\ ShownAre /\ ShownFits
      /\ unit \in [first : Times, start : Times]
    BY DEF MediaInv, MediaTypes, Lines0
<1>3. /\ ShownAre' /\ ShownFits'
      /\ unit' = IF chunk = << >> THEN unit ELSE [first |-> chunk[1], start |-> line.origin]
  <2>1. CASE chunk = << >>
      BY <1>1, <1>2, <2>1 DEF ShownAre, ShownFits, FramesInOrder
  <2>2. CASE chunk # << >>
    <3>1. Captured!Step(chunk, line.origin)
        BY <1>1, <2>2
    <3> QED BY <1>2, <2>2, <3>1, StepShows
  <2> QED BY <2>1, <2>2
<1>4. chunk # << >> => chunk[1] \in Nat
  <2> SUFFICES ASSUME chunk # << >> PROVE chunk[1] \in Nat
      OBVIOUS
  <2>1. Len(chunk) \in Nat /\ Len(chunk) # 0
      BY <1>2, EmptySeq DEF Samples
  <2>2. 1 \in 1..Len(chunk)
      BY <2>1
  <2> QED BY <1>2, <2>2, Items DEF Samples
<1>5. unit' \in [first : Times, start : Times]
  <2>1. chunk # << >> => chunk[1] \in Times
      BY <1>4 DEF Times
  <2> QED BY <1>2, <1>3, <2>1
<1>6. /\ Head(wire) = wire[1] /\ wire' \in Seq(Messages) /\ Audible'
      /\ (\A i \in DOMAIN wire : wire[i].kind # "header") =>
            \A i \in DOMAIN wire' : wire'[i].kind # "header"
    BY <1>1, Reads
<1>7. << >> \in Samples /\ Len(<< >>) = 0
    BY DEF Samples
<1>8. MediaTypes'
    BY <1>1, <1>3, <1>5, <1>6, <1>7 DEF MediaInv, MediaTypes
<1>9. LineFits'
    BY <1>1 DEF MediaInv, LineFits
<1>10. PartsFit'
  <2>1. Len(chunk') < UnitSamples
      BY <1>1, <1>7 DEF MediaConstants
  <2> QED BY <1>1, <2>1 DEF MediaInv, PartsFit
<1>11. ASSUME resumes = 0, client.timed PROVE Timed'
  <2>1. Paced /\ ChunkTimed
      BY <1>1, <1>11 DEF MediaInv, InTime, Timed, Paced
  <2>2. unit' # NoUnit => unit'.start = unit'.first /\ unit'.start # None
    <3>1. CASE chunk = << >>
        BY <1>3, <2>1, <3>1 DEF Paced
    <3>2. CASE chunk # << >>
      <4>1. line.origin = chunk[1]
          BY <2>1, <3>2 DEF ChunkTimed
      <4>2. unit'.first = chunk[1] /\ unit'.start = chunk[1]
          BY <1>3, <3>2, <4>1
      <4> QED BY <1>4, <3>2, <4>2 DEF None
    <3> QED BY <3>1, <3>2
  <2>3. Paced'
      BY <1>1, <2>2 DEF Paced
  <2> QED BY <1>1, <2>3 DEF Timed
<1>12. ASSUME resumes = 0, ~ client.timed PROVE Untimed'
  <2>1. Untimed
      BY <1>12 DEF MediaInv, InTime
  <2>2. line.origin = None
      BY <2>1, MediaTerms DEF Untimed
  <2>3. unit'.start = None
      BY <1>3, <2>1, <2>2 DEF Untimed
  <2> QED BY <1>1, <1>6, <2>1, <2>3 DEF Untimed
<1>13. InTime'
    BY <1>1, <1>11, <1>12 DEF InTime
<1> QED BY <1>3, <1>6, <1>8, <1>9, <1>10, <1>13 DEF MediaInv

LEMMA MediaTakeGone ==
    ASSUME MediaInv, Captured!TakeGone PROVE MediaInv'
<1>1. /\ at' = "parked" /\ parts' = << >> /\ client' = client /\ header' = header
      /\ line' = line /\ chunk' = chunk /\ unit' = unit
      /\ pending' = pending /\ last' = last /\ shown' = shown
      /\ resumes' = resumes /\ now' = now /\ taken' = taken /\ shots' = shots
      /\ wire # << >> /\ (wire' = Tail(wire) \/ wire' = << >>)
    BY DEF Captured!TakeGone, Captured!Take, Captured!KeepScreen, Captured!screenVars,
           Captured!bufferVars
<1>2. << >> \in Seq(FrameParts) /\ << >> \in Seq(Messages) /\ DOMAIN << >> = {}
    OBVIOUS
<1>3. /\ wire' \in Seq(Messages) /\ Audible'
      /\ (\A i \in DOMAIN wire : wire[i].kind # "header") =>
            \A i \in DOMAIN wire' : wire'[i].kind # "header"
  <2>1. CASE wire' = Tail(wire)
      BY <1>1, <2>1, Reads
  <2>2. CASE wire' = << >>
      BY <1>2, <2>2 DEF Audible
  <2> QED BY <1>1, <2>1, <2>2
<1>4. MediaTypes'
    BY <1>1, <1>2, <1>3 DEF MediaInv, MediaTypes, ShownAre
<1>5. LineFits' /\ ShownFits'
    BY <1>1 DEF MediaInv, LineFits, ShownFits, FramesInOrder
<1>6. PartsFit'
    BY <1>1, <1>2 DEF MediaInv, PartsFit
<1>7. ASSUME resumes = 0, client.timed PROVE Timed'
    BY <1>1, <1>7 DEF MediaInv, InTime, Timed, Paced
<1>8. ASSUME resumes = 0, ~ client.timed PROVE Untimed'
  <2>1. Untimed
      BY <1>8 DEF MediaInv, InTime
  <2> QED BY <1>1, <1>2, <1>3, <2>1 DEF Untimed
<1>9. InTime'
    BY <1>1, <1>7, <1>8 DEF InTime
<1> QED BY <1>3, <1>4, <1>5, <1>6, <1>9 DEF MediaInv

-----------------------------------------------------------------------------
(* Every behaviour *)

LEMMA MediaInit ==
    ASSUME MediaConstants, Captured!Init PROVE MediaInv
<1>1. /\ now = 0 /\ wire = << >> /\ at = "loop"
      /\ client \in [timed : BOOLEAN, seq : {0}, cap : {0}, paused : {FALSE}]
      /\ header = Captured!NoHeader /\ line = Captured!NewLine /\ parts = << >> /\ chunk = << >>
      /\ pending = << >> /\ last = None /\ shown = << >>
      /\ shots = {} /\ taken = 0 /\ unit = NoUnit /\ resumes = 0
    BY MediaTerms DEF Captured!Init
<1>2. /\ << >> \in Seq(FrameParts) /\ << >> \in Seq(Messages) /\ DOMAIN << >> = {}
      /\ << >> \in Samples /\ Len(<< >>) = 0 /\ << >> \in Seq(Nat)
      /\ << >> \in Seq([picture : Nat, start : Times]) /\ None \in Times
    BY DEF Samples, Times
<1>3. client \in Clients /\ client.seq = 0 /\ client.cap = 0
  <2>1. client \in [timed : BOOLEAN, seq : {0}, cap : {0}, paused : {FALSE}]
      BY <1>1
  <2>2. client.timed \in BOOLEAN /\ client.paused \in BOOLEAN
        /\ client.seq = 0 /\ client.cap = 0
      BY <2>1
  <2>3. client = [timed |-> client.timed, seq |-> client.seq, cap |-> client.cap,
                  paused |-> client.paused]
      BY <2>1
  <2>4. \A t, p \in BOOLEAN, a, b \in Nat :
           [timed |-> t, seq |-> a, cap |-> b, paused |-> p] \in Clients
      BY DEF Clients
  <2>5. client.seq \in Nat /\ client.cap \in Nat
      BY <2>2
  <2>6. [timed |-> client.timed, seq |-> client.seq, cap |-> client.cap,
         paused |-> client.paused] \in Clients
      BY <2>2, <2>4, <2>5
  <2> QED BY <2>2, <2>3, <2>6
<1>4. MediaTypes
  <2>1. NoUnit \in [first : Times, start : Times]
      BY <1>2, MediaTerms
  <2> QED BY <1>1, <1>2, <1>3, <2>1, MediaTerms DEF MediaTypes, ShownAre
<1>5. LineFits
    BY <1>1, MediaTerms DEF LineFits, MediaConstants
<1>6. PartsFit /\ Audible /\ ShownFits
  <2>1. Len(chunk) < UnitSamples
      BY <1>1, <1>2 DEF MediaConstants
  <2> QED BY <1>1, <1>2, <2>1 DEF PartsFit, Audible, ShownFits, FramesInOrder
<1>7. ChunkTimed
  <2>1. line.sample = 0 /\ line.unitStart = 0
      BY <1>1, MediaTerms
  <2> QED BY <1>1, <1>2, <2>1 DEF ChunkTimed
<1>8. WireFits
  <2> DEFINE e == [i \in 1..1 |-> [seq |-> 1, start |-> 0]]
  <2>1. WireNumbered(e)
    <3>1. e[1] = [seq |-> 1, start |-> 0]
        OBVIOUS
    <3> HIDE DEF e
    <3>2. e[1] = Expected
        BY <1>1, <3>1, MediaTerms DEF Expected
    <3>3. DOMAIN wire = {} /\ Len(wire) + 1 = 1
        BY <1>1, <1>2
    <3>4. client.seq + 1 = 1
        BY <1>3
    <3> QED BY <1>3, <3>1, <3>2, <3>3, <3>4 DEF WireNumbered
  <2> HIDE DEF e
  <2>2. HeaderFits /\ DOMAIN wire = {}
      BY <1>1, <1>2 DEF HeaderFits
  <2> QED BY <2>1, <2>2 DEF WireFits
<1>9. Timed
    BY <1>1, <1>7, <1>8 DEF Timed, Paced
<1>10. Untimed
  <2>1. unit.start = None
      BY <1>1, MediaTerms
  <2> QED BY <1>1, <1>2, <2>1 DEF Untimed
<1>11. InTime
    BY <1>9, <1>10 DEF InTime
<1> QED BY <1>4, <1>5, <1>6, <1>11 DEF MediaInv

LEMMA MediaStep ==
    ASSUME MediaConstants, MediaInv, [Captured!Next]_Captured!mediaVars PROVE MediaInv'
<1>1. CASE UNCHANGED Captured!mediaVars
  <2>1. /\ client' = client /\ wire' = wire /\ at' = at /\ header' = header
        /\ line' = line /\ parts' = parts /\ chunk' = chunk /\ unit' = unit
        /\ resumes' = resumes /\ now' = now /\ taken' = taken /\ shots' = shots
        /\ pending' = pending /\ last' = last /\ shown' = shown
      BY <1>1 DEF Captured!mediaVars
  <2>2. now' \in Nat /\ taken' \in Nat /\ shots' \subseteq Shots
      BY <2>1 DEF MediaInv, MediaTypes
  <2>3. ShownAre' /\ ShownFits'
      BY <2>1 DEF MediaInv, MediaTypes, ShownAre, ShownFits, FramesInOrder
  <2> QED BY <2>1, <2>2, <2>3, Stands
<1>2. ASSUME NEW n \in FrameSizes, Captured!Speak(n) PROVE MediaInv'
    BY <1>2, MediaSpeak
<1>3. CASE Captured!Gap
    BY <1>3, MediaGap
<1>4. ASSUME NEW m \in Captured!Buttons, Captured!Press(m) PROVE MediaInv'
    BY <1>4, MediaPress
<1>5. ASSUME NEW k \in 0..MaxWire, Captured!Break(k) PROVE MediaInv'
    BY <1>5, MediaBreak
<1>6. CASE Captured!Resume
    BY <1>6, MediaResume
<1>7. CASE Captured!Share
    BY <1>7, MediaShare
<1>8. CASE Captured!TakeHeader
    BY <1>8, MediaTakeHeader
<1>9. CASE Captured!TakePcm
    BY <1>9, MediaTakePcm
<1>10. CASE Captured!FeedPart
    BY <1>10, MediaFeedPart
<1>11. CASE Captured!TakeMode
    BY <1>11, MediaTakeMode
<1>12. CASE Captured!ModeDone
    BY <1>12, MediaModeDone
<1>13. CASE Captured!TakeReset
    BY <1>13, MediaTakeReset
<1>14. CASE Captured!ResetDone
    BY <1>14, MediaResetDone
<1>15. CASE Captured!TakeStop
    BY <1>15, MediaTakeStop
<1>16. CASE Captured!TakeGone
    BY <1>16, MediaTakeGone
<1>17. ASSUME NEW s \in shots,
              Captured!Decoded(s) \/ Captured!Undecodable(s) \/ Captured!Persisted(s)
       PROVE  MediaInv'
    BY <1>17, MediaScreen
<1> QED BY <1>1, <1>2, <1>3, <1>4, <1>5, <1>6, <1>7, <1>8, <1>9, <1>10, <1>11, <1>12,
           <1>13, <1>14, <1>15, <1>16, <1>17 DEF Captured!Next

\* The handler's timeline and the session's chunker stay in step with the
\* page's clock (media_timeline.py:78-136, realtime.py:241-272): MediaInv is
\* an invariant of every instance.
THEOREM MediaInvariance ==
    ASSUME Captured!MediaAssumption
    PROVE  Captured!Spec => []MediaInv
<1>1. MediaConstants
    BY DEF Captured!MediaAssumption, MediaConstants
<1>2. Captured!Init => MediaInv
    BY <1>1, MediaInit
<1>3. MediaInv /\ [Captured!Next]_Captured!mediaVars => MediaInv'
    BY <1>1, MediaStep
<1> QED BY <1>2, <1>3, PTL DEF Captured!Spec

\* A unit is said to begin when its first sample was captured, however the
\* frames, the pauses, the lost ends and the resets fall, and the pictures
\* the model sees never run ahead of what it hears nor back in time.
THEOREM SeenInTimeAlways ==
    ASSUME Captured!MediaAssumption
    PROVE  Captured!Spec => []SeenInTime
<1>1. ASSUME MediaInv PROVE SeenInTime
  <2>1. FramesInOrder
      BY <1>1 DEF MediaInv, ShownFits
  <2>2. UnitsTimed
    <3> SUFFICES ASSUME resumes = 0
                 PROVE  /\ at # "failed"
                        /\ unit.start \in {None, unit.first}
                        /\ (client.timed /\ unit # NoUnit) => (unit.start # None)
        BY DEF UnitsTimed
    <3>1. CASE client.timed
      <4>1. Paced
          BY <1>1, <3>1 DEF MediaInv, InTime, Timed
      <4>2. unit = NoUnit => unit.start = None
          BY MediaTerms
      <4> QED BY <4>1, <4>2 DEF Paced
    <3>2. CASE ~ client.timed
        BY <1>1, <3>2 DEF MediaInv, InTime, Untimed
    <3> QED BY <3>1, <3>2
  <2> QED BY <2>1, <2>2 DEF SeenInTime
<1>2. MediaInv => SeenInTime
    BY <1>1
<1>3. Captured!Spec => []MediaInv
    BY MediaInvariance
<1> QED BY <1>2, <1>3, PTL
=============================================================================
