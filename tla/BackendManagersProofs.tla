----------------------- MODULE BackendManagersProofs ------------------------
(***************************************************************************)
(* Proofs about BackendManagers, for any number of connections, agents and *)
(* hosts, and every list of strategies.                                    *)
(***************************************************************************)
EXTENDS BackendManagers, SequenceTheorems, TLAPS

(* The inductive invariant. *)

(* Who a storage holds: connections at most once under an identifier, only *)
(* under identifiers of their own, and in step with their connect.  While  *)
(* they are being added or removed, the calls that are left make up for    *)
(* the difference.                                                         *)
HeldInv ==
  /\ \A m \in Manager, id \in Ident : IsInjective(backends[m][id])
  /\ \A b \in Backend, m \in Manager, id \in Ident :
       LET held == b \in Range(backends[m][id])
           mine == id \in Range(IdentsOf(m, b))
           left == <<m, id>> \in Range(calls[b])
       IN  /\ held => mine /\ conn[b] \in {"adding", "up", "removing"}
           /\ left => mine
           /\ conn[b] = "adding" /\ mine => held \/ left
           /\ conn[b] = "up" /\ mine => held
           /\ conn[b] = "removing" /\ held => left

(* The index up, down of a manager with connections bk, draining flags flag *)
(* and notifications told.  The last two conjuncts are how stale it may be.*)
IndexAt(m, bk, up, down, flag, told) ==
  /\ IsInjective(up) /\ IsInjective(down)
  /\ Range(up) \cap Range(down) = {}
  /\ Range(up) \cup Range(down) =
       IF maintainRandomRoutingIndex(m) THEN {id \in Ident : bk[id] # <<>>} ELSE {}
  /\ \A id \in Range(down) : flag[bk[id][1]]
  /\ \A id \in Range(up) : told[bk[id][1]] <= m

IndexInv ==
  \A m \in Manager : IndexAt(m, backends[m], nonDrainingAgentIDs[m],
                             drainingAgentIDs[m], draining, notify)

(* A connection whose DRAIN is being announced has its flag set. *)
NotifyInv == \A b \in Backend : notify[b] # 0 => draining[b]

(* The redraw loop holds the lock of a storage that is not empty, and its  *)
(* first candidate stays listed.                                           *)
SelInv ==
  /\ sel.pc # "idle" => sel.host \in Ident
  /\ sel.pc \in {"draw", "second"} =>
       /\ sel.m \in Manager /\ maintainRandomRoutingIndex(sel.m)
       /\ Registered(sel.m) # {}
  /\ sel.pc = "second" => sel.first \in Range(nonDrainingAgentIDs[sel.m])

Inv == TypeOK /\ HeldInv /\ IndexInv /\ NotifyInv /\ SelInv

-----------------------------------------------------------------------------
(* Sequences as sets *)

(* The elements of a sequence. *)
LEMMA ElementsLemma ==
  ASSUME NEW S, NEW s \in Seq(S)
  PROVE  /\ Range(s) \subseteq S
         /\ Range(s) = {s[i] : i \in 1..Len(s)}
         /\ s = <<>> => Range(s) = {}
         /\ s # <<>> => 1 \in DOMAIN s /\ s[1] \in Range(s)
<1>1. Len(s) \in Nat /\ DOMAIN s = 1..Len(s) /\ \A i \in 1..Len(s) : s[i] \in S
  OBVIOUS
<1>2. Range(s) \subseteq S /\ Range(s) = {s[i] : i \in 1..Len(s)}
  BY <1>1, Zenon DEF Range
<1>3. (s = <<>>) <=> (Len(s) = 0)
  OBVIOUS
<1>4. s # <<>> => 1 \in 1..Len(s)
  BY <1>1, <1>3
<1>5. s # <<>> => 1 \in DOMAIN s /\ s[1] \in Range(s)
  BY <1>1, <1>2, <1>4, Zenon
<1>6. s = <<>> => Range(s) = {}
  <2>1. Len(s) = 0 => 1..Len(s) = {}
    OBVIOUS
  <2>. QED  BY <1>2, <1>3, <2>1, Zenon
<1>7. QED  BY <1>2, <1>5, <1>6

(* Appending a new element. *)
LEMMA AppendLemma ==
  ASSUME NEW S, NEW s \in Seq(S), NEW x \in S, x \notin Range(s), IsInjective(s)
  PROVE  /\ Append(s, x) \in Seq(S) /\ Append(s, x) # <<>>
         /\ Range(Append(s, x)) = Range(s) \cup {x}
         /\ IsInjective(Append(s, x))
         /\ s = <<>> => Append(s, x)[1] = x
         /\ s # <<>> => Append(s, x)[1] = s[1]
<1> DEFINE t == Append(s, x)
<1>1. /\ t \in Seq(S) /\ Len(t) = Len(s) + 1 /\ DOMAIN t = 1..(Len(s) + 1)
      /\ \A i \in 1..Len(s) : t[i] = s[i]
      /\ t[Len(s) + 1] = x
      /\ Len(s) \in Nat /\ DOMAIN s = 1..Len(s)
  OBVIOUS
<1>2. Range(t) = Range(s) \cup {x}
  BY <1>1 DEF Range
<1>3. IsInjective(t)
  BY <1>1 DEF IsInjective, Range
<1>4. t # <<>>
  BY <1>1
<1>5. s = <<>> => t[1] = x
  BY <1>1
<1>6. s # <<>> => t[1] = s[1]
  <2>1. s # <<>> => 1 \in 1..Len(s)
    OBVIOUS
  <2>. QED  BY <1>1, <2>1
<1> HIDE DEF t
<1>7. t \in Seq(S) /\ t # <<>> /\ (s = <<>> => t[1] = x) /\ (s # <<>> => t[1] = s[1])
  BY <1>1, <1>4, <1>5, <1>6, Zenon
<1>. QED  BY <1>2, <1>3, <1>7, Zenon DEF t

(* removeIdentifier overwrites the entry with the last one and shortens    *)
(* the slice: exactly the one identifier goes.                             *)
LEMMA RemoveIdentifierLemma ==
  ASSUME NEW S, NEW ids \in Seq(S), NEW id, IsInjective(ids)
  PROVE  /\ removeIdentifier(ids, id) \in Seq(S)
         /\ Range(removeIdentifier(ids, id)) = Range(ids) \ {id}
         /\ IsInjective(removeIdentifier(ids, id))
<1>1. CASE id \notin Range(ids)
  BY <1>1 DEF removeIdentifier
<1>2. CASE id \in Range(ids)
  <2> DEFINE P(k) == ids[k] = id /\ \A j \in 1..(k-1) : ids[j] # id
             i == CHOOSE k \in DOMAIN ids : P(k)
             n == Len(ids)
             u == [ids EXCEPT ![i] = ids[n]]
             r == SubSeq(u, 1, n - 1)
  <2>1. n \in Nat /\ DOMAIN ids = 1..n /\ n = Len(ids)
    OBVIOUS
  <2>0. n \in Nat
    BY <2>1
  <2> HIDE DEF n
  <2>2. PICK k \in 1..n : ids[k] = id
    BY <1>2, <2>1 DEF Range
  <2>3. \A j \in 1..n : ids[j] = id => j = k
    BY <2>1, <2>2 DEF IsInjective
  <2>4. P(k)
    BY <2>1, <2>2, <2>3
  <2>5. i \in DOMAIN ids /\ P(i)
    BY Zenon, <2>1, <2>4
  <2>6. i = k /\ i \in 1..n /\ n >= 1
    BY <2>1, <2>2, <2>3, <2>5
  <2> HIDE DEF i
  <2>7. /\ u \in Seq(S) /\ Len(u) = n
        /\ \A j \in 1..n : u[j] = IF j = i THEN ids[n] ELSE ids[j]
    BY <2>1, <2>6
  <2>8. /\ r \in Seq(S) /\ Len(r) = n - 1 /\ DOMAIN r = 1..(n - 1)
        /\ \A j \in 1..(n - 1) : r[j] = IF j = i THEN ids[n] ELSE ids[j]
    <3>1. n - 1 \in 0..Len(u) /\ \A j \in 1..(n-1) : u[j] \in S
      BY <2>1, <2>6, <2>7
    <3>2. r \in Seq(S) /\ Len(r) = n - 1 /\ \A j \in 1..(n - 1) : r[j] = u[j]
      BY <2>1, <2>6, <2>7, <3>1
    <3>. QED  BY <2>1, <2>6, <2>7, <3>2
  <2> HIDE DEF r
  <2>9. IsInjective(r)
    BY SMTT(20), <2>1, <2>6, <2>8 DEF IsInjective
  <2>10. Range(r) = Range(ids) \ {id}
    <3>1. ASSUME NEW x \in Range(r) PROVE x \in Range(ids) /\ x # id
      <4>1. PICK j \in 1..(n - 1) : x = r[j]
        BY <2>8 DEF Range
      <4>2. PICK l \in 1..n : l # i /\ r[j] = ids[l]
        <5>1. CASE j = i
          BY <5>1, <2>1, <2>6, <2>8
        <5>2. CASE j # i
          BY <5>2, <2>1, <2>8
        <5>. QED  BY <5>1, <5>2
      <4>. QED  BY <4>1, <4>2, <2>1, <2>3, <2>6, Zenon DEF Range
    <3>2. ASSUME NEW x \in Range(ids), x # id PROVE x \in Range(r)
      <4>1. PICK j \in 1..n : x = ids[j]
        BY <2>1 DEF Range
      <4>2. j # i
        BY <3>2, <4>1, <2>2, <2>6
      <4>3. CASE j = n
        <5>1. i \in 1..(n - 1) /\ r[i] = x
          BY <4>1, <4>2, <4>3, <2>1, <2>6, <2>8
        <5>. QED  BY <5>1, <2>8, Zenon DEF Range
      <4>4. CASE j < n
        <5>0. j \in 1..(n - 1)
          BY <4>4, <2>1
        <5>1. j \in 1..(n - 1) /\ r[j] = x
          BY <4>1, <4>2, <5>0, <2>8
        <5>. QED  BY <5>1, <2>8, Zenon DEF Range
      <4>5. j = n \/ j < n
        BY <2>0
      <4>. QED  BY <4>3, <4>4, <4>5
    <3>. QED  BY <3>1, <3>2
  <2>11. removeIdentifier(ids, id) = r
    BY <1>2 DEF removeIdentifier, i, n, r
  <2>. QED  BY <2>8, <2>9, <2>10, <2>11
<1>. QED  BY <1>1, <1>2

(* The loop over a storage's connections that drops one of them. *)
LEMMA WithoutBackendLemma ==
  ASSUME NEW S, NEW bs \in Seq(S), NEW b, IsInjective(bs)
  PROVE  /\ WithoutBackend(bs, b) \in Seq(S)
         /\ Range(WithoutBackend(bs, b)) = Range(bs) \ {b}
         /\ IsInjective(WithoutBackend(bs, b))
<1>1. CASE b \notin Range(bs)
  BY <1>1 DEF WithoutBackend
<1>2. CASE b \in Range(bs)
  <2> DEFINE i == CHOOSE k \in DOMAIN bs : bs[k] = b
             n == Len(bs)
             p == SubSeq(bs, 1, i - 1)
             q == SubSeq(bs, i + 1, n)
             r == p \o q
  <2>1. n \in Nat /\ DOMAIN bs = 1..n /\ n = Len(bs)
    OBVIOUS
  <2>0. n \in Nat
    BY <2>1
  <2> HIDE DEF n
  <2>2. PICK k \in 1..n : bs[k] = b
    BY <1>2, <2>1 DEF Range
  <2>3. \A j \in 1..n : bs[j] = b => j = k
    BY <2>1, <2>2 DEF IsInjective
  <2>4. i \in DOMAIN bs /\ bs[i] = b
    BY <2>1, <2>2
  <2>5. i = k /\ i \in 1..n /\ n >= 1
    BY <2>1, <2>2, <2>3, <2>4
  <2> HIDE DEF i
  <2>6. /\ p \in Seq(S) /\ Len(p) = i - 1
        /\ \A j \in 1..(i - 1) : p[j] = bs[j]
    BY <2>1, <2>5
  <2>7. /\ q \in Seq(S) /\ Len(q) = n - i
        /\ \A j \in 1..(n - i) : q[j] = bs[i + j]
    <3>1. \A j \in (i+1)..n : bs[j] \in S
      BY <2>1, <2>5
    <3>2. i + 1 \in Int /\ n \in Int
      BY <2>1, <2>5
    <3>3. /\ q \in Seq(S) /\ Len(q) = IF i + 1 <= n THEN n - (i + 1) + 1 ELSE 0
          /\ \A j \in 1..(n - (i + 1) + 1) : q[j] = bs[(i + 1) + j - 1]
      BY SMTT(60), <3>1, <3>2, SubSeqProperties
    <3> HIDE DEF q
    <3>4. i + 1 <= n \/ i = n
      BY <2>0, <2>5
    <3>5. n - (i + 1) + 1 = n - i /\ (i = n => n - i = 0)
      BY <2>0, <2>5
    <3>6. Len(q) = n - i
      BY <3>3, <3>4, <3>5
    <3>7. ASSUME NEW j \in 1..(n - i) PROVE q[j] = bs[i + j]
      <4>1. (i + 1) + j - 1 = i + j
        BY <2>1, <2>5
      <4>. QED  BY <3>3, <3>5, <4>1
    <3>. QED  BY <3>3, <3>6, <3>7
  <2> HIDE DEF p, q
  <2>8. /\ r \in Seq(S) /\ Len(r) = n - 1 /\ DOMAIN r = 1..(n - 1)
        /\ \A j \in 1..(n - 1) : r[j] = IF j < i THEN bs[j] ELSE bs[j + 1]
    <3>1. /\ r \in Seq(S) /\ Len(r) = Len(p) + Len(q)
          /\ \A j \in 1..(Len(p) + Len(q)) :
               r[j] = IF j <= Len(p) THEN p[j] ELSE q[j - Len(p)]
      BY <2>6, <2>7, ConcatProperties, Zenon
    <3>2. Len(r) = n - 1 /\ DOMAIN r = 1..(n - 1)
      <4>1. Len(r) = n - 1
        BY <3>1, <2>1, <2>5, <2>6, <2>7
      <4>2. DOMAIN r = 1..Len(r)
        BY <3>1, LenProperties, Zenon
      <4>. QED  BY <4>1, <4>2
    <3>3. ASSUME NEW j \in 1..(n - 1)
          PROVE  r[j] = IF j < i THEN bs[j] ELSE bs[j + 1]
      <4>1. r[j] = IF j <= i - 1 THEN p[j] ELSE q[j - (i - 1)]
        BY SMTT(60), <3>1, <2>1, <2>5, <2>6, <2>7
      <4>2. CASE j < i
        BY <4>1, <4>2, <2>1, <2>5, <2>6
      <4>3. CASE ~(j < i)
        <5>1. j - (i - 1) \in 1..(n - i) /\ i + (j - (i - 1)) = j + 1
          BY <4>3, <2>1, <2>5
        <5>. QED  BY <4>1, <4>3, <5>1, <2>1, <2>5, <2>7
      <4>. QED  BY Zenon, <4>2, <4>3
    <3>. QED  BY <3>1, <3>2, <3>3
  <2> HIDE DEF r
  <2> DEFINE at(j) == IF j < i THEN j ELSE j + 1
  <2>12. \A j \in 1..(n - 1) : at(j) \in 1..n /\ at(j) # i /\ r[j] = bs[at(j)]
    BY <2>1, <2>5, <2>8
  <2>13. \A j, l \in 1..(n - 1) : at(j) = at(l) => j = l
    BY <2>1, <2>5
  <2> HIDE DEF at
  <2>9. IsInjective(r)
    <3>1. ASSUME NEW j \in 1..(n - 1), NEW l \in 1..(n - 1), r[j] = r[l]
          PROVE  j = l
      <4>1. at(j) = at(l)
        BY <2>1, <2>12, <3>1, Zenon DEF IsInjective
      <4>. QED  BY <2>13, <4>1, Zenon
    <3>. QED  BY <2>8, <3>1, Zenon DEF IsInjective
  <2>10. Range(r) = Range(bs) \ {b}
    <3>1. ASSUME NEW x \in Range(r) PROVE x \in Range(bs) /\ x # b
      <4>1. PICK j \in 1..(n - 1) : x = r[j]
        BY <2>8 DEF Range
      <4>. QED  BY <4>1, <2>1, <2>3, <2>5, <2>12, Zenon DEF Range
    <3>2. ASSUME NEW x \in Range(bs), x # b PROVE x \in Range(r)
      <4>1. PICK j \in 1..n : x = bs[j]
        BY <2>1 DEF Range
      <4>2. j # i
        BY <3>2, <4>1, <2>2, <2>5
      <4>3. CASE j < i
        BY SMTT(60), <4>1, <4>3, <2>1, <2>5, <2>8 DEF Range
      <4>4. CASE j > i
        <5>1. j - 1 \in 1..(n - 1) /\ ~(j - 1 < i) /\ (j - 1) + 1 = j
          BY <4>4, <2>1, <2>5
        <5>. QED  BY Zenon, <4>1, <5>1, <2>8 DEF Range
      <4>. QED  BY <4>2, <4>3, <4>4, <2>1, <2>5
    <3>. QED  BY <3>1, <3>2
  <2>11. WithoutBackend(bs, b) = r
    BY Zenon, <1>2 DEF WithoutBackend, i, n, p, q, r
  <2>. QED  BY <2>8, <2>9, <2>10, <2>11
<1>. QED  BY <1>1, <1>2

(* appendMissing adds the identifier once. *)
LEMMA AppendMissingLemma ==
  ASSUME NEW S, NEW ids \in Seq(S), NEW id \in S, IsInjective(ids)
  PROVE  /\ appendMissing(ids, id) \in Seq(S)
         /\ Range(appendMissing(ids, id)) = Range(ids) \cup {id}
         /\ IsInjective(appendMissing(ids, id))
<1>1. CASE id \in Range(ids)
  BY <1>1, Zenon DEF appendMissing
<1>2. CASE id \notin Range(ids)
  BY <1>2, AppendLemma DEF appendMissing
<1>. QED  BY <1>1, <1>2

-----------------------------------------------------------------------------
(* The index *)

(* Whether or not a manager routes at random, steps that touch neither its *)
(* index nor the primary of an agent keep the index sound.  Flags may be   *)
(* set, and notifications may come to this manager.                        *)
LEMMA PrimaryKeeps ==
  ASSUME NEW m \in Manager, NEW bk, NEW bk2, NEW up \in Seq(Ident), NEW down \in Seq(Ident),
         NEW flag, NEW flag2, NEW told, NEW told2,
         IndexAt(m, bk, up, down, flag, told),
         maintainRandomRoutingIndex(m) =>
           \A id \in Ident : /\ bk2[id] = <<>> <=> bk[id] = <<>>
                             /\ bk[id] # <<>> => bk2[id][1] = bk[id][1],
         maintainRandomRoutingIndex(m) =>
           \A id \in Ident : bk[id] # <<>> =>
             /\ flag[bk[id][1]] => flag2[bk[id][1]]
             /\ told[bk[id][1]] <= m /\ id \in Range(up) => told2[bk[id][1]] <= m
  PROVE  IndexAt(m, bk2, up, down, flag2, told2)
<1>1. CASE ~maintainRandomRoutingIndex(m)
  <2>1. Range(up) = {} /\ Range(down) = {}
    BY <1>1 DEF IndexAt
  <2>. QED  BY <1>1, <2>1 DEF IndexAt
<1>2. CASE maintainRandomRoutingIndex(m)
  <2>1. {id \in Ident : bk2[id] # <<>>} = {id \in Ident : bk[id] # <<>>}
    BY <1>2
  <2>2. \A id \in Range(up) \cup Range(down) : id \in Ident /\ bk[id] # <<>>
    BY <1>2 DEF IndexAt
  <2>3. \A id \in Range(up) \cup Range(down) : bk2[id][1] = bk[id][1]
    BY <1>2, <2>2
  <2>4. \A id \in Range(down) : flag2[bk2[id][1]]
    BY <1>2, <2>2, <2>3, Zenon DEF IndexAt
  <2>5. \A id \in Range(up) : told2[bk2[id][1]] <= m
    BY <1>2, <2>2, <2>3, Zenon DEF IndexAt
  <2>. QED  BY <1>2, <2>1, <2>4, <2>5, Zenon DEF IndexAt
<1>. QED  BY <1>1, <1>2

(* What refreshIdentifierState makes of the two slices. *)
RefreshedUp(up, id, bs, flag) ==
  IF bs = <<>> \/ flag[bs[1]] THEN removeIdentifier(up, id) ELSE appendMissing(up, id)
RefreshedDown(down, id, bs, flag) ==
  IF bs # <<>> /\ flag[bs[1]] THEN appendMissing(down, id) ELSE removeIdentifier(down, id)

(* It files an agent according to its primary. *)
LEMMA RefreshKeeps ==
  ASSUME NEW m \in Manager, NEW bk \in [Ident -> Seq(Backend)],
         NEW up \in Seq(Ident), NEW down \in Seq(Ident),
         NEW flag, NEW told \in [Backend -> Nat],
         IndexAt(m, bk, up, down, flag, told), maintainRandomRoutingIndex(m),
         \A x \in Backend : ~flag[x] => told[x] <= m,
         NEW id \in Ident, NEW bs \in Seq(Backend)
  PROVE  /\ RefreshedUp(up, id, bs, flag) \in Seq(Ident)
         /\ RefreshedDown(down, id, bs, flag) \in Seq(Ident)
         /\ IndexAt(m, [bk EXCEPT ![id] = bs], RefreshedUp(up, id, bs, flag),
                    RefreshedDown(down, id, bs, flag), flag, told)
         /\ bs # <<>> /\ flag[bs[1]] => id \notin Range(RefreshedUp(up, id, bs, flag))
<1> DEFINE up2 == RefreshedUp(up, id, bs, flag)
           down2 == RefreshedDown(down, id, bs, flag)
<1> DEFINE bk2 == [bk EXCEPT ![id] = bs]
           known == {j \in Ident : bk[j] # <<>>}
           known2 == {j \in Ident : bk2[j] # <<>>}
<1>1. bk2[id] = bs /\ \A j \in Ident \ {id} : bk2[j] = bk[j]
  BY Zenon
<1>2. /\ IsInjective(up) /\ IsInjective(down)
      /\ Range(up) \cap Range(down) = {} /\ Range(up) \cup Range(down) = known
  BY DEF IndexAt
<1>3. /\ \A j \in Range(down) : flag[bk[j][1]]
      /\ \A j \in Range(up) : told[bk[j][1]] <= m
  BY Zenon DEF IndexAt
<1>4. \A ids \in {up, down} :
        /\ removeIdentifier(ids, id) \in Seq(Ident)
        /\ Range(removeIdentifier(ids, id)) = Range(ids) \ {id}
        /\ IsInjective(removeIdentifier(ids, id))
  <2>1. \A ids \in {up, down} : ids \in Seq(Ident) /\ IsInjective(ids)
    BY <1>2, Zenon
  <2>. QED  BY <2>1, RemoveIdentifierLemma
<1>5. \A ids \in {up, down} :
        /\ appendMissing(ids, id) \in Seq(Ident)
        /\ Range(appendMissing(ids, id)) = Range(ids) \cup {id}
        /\ IsInjective(appendMissing(ids, id))
  BY SMTT(60), <1>2, AppendMissingLemma
<1>6. \A j \in Range(up) \cup Range(down) : j \in Ident
  BY <1>2, Zenon
<1>7. /\ bs # <<>> => known2 = known \cup {id}
      /\ bs = <<>> => known2 = known \ {id}
  BY <1>1, Zenon
<1> HIDE DEF bk2, up2, down2
<1>8. CASE bs = <<>>
  <2>1. up2 = removeIdentifier(up, id) /\ down2 = removeIdentifier(down, id)
    BY <1>8, Zenon DEF RefreshedUp, RefreshedDown, up2, down2
  <2>2. Range(up2) = Range(up) \ {id} /\ Range(down2) = Range(down) \ {id}
    BY <1>4, <2>1, Zenon
  <2>3. Range(up2) \cup Range(down2) = known2 /\ Range(up2) \cap Range(down2) = {}
    BY <1>2, <1>7, <1>8, <2>2, Zenon
  <2>4. \A j \in Range(down2) : flag[bk2[j][1]]
    BY <1>1, <1>3, <1>6, <2>2, Zenon
  <2>5. \A j \in Range(up2) : told[bk2[j][1]] <= m
    BY <1>1, <1>3, <1>6, <2>2
  <2>6. IndexAt(m, bk2, up2, down2, flag, told)
    BY <1>4, <2>1, <2>3, <2>4, <2>5, Zenon DEF IndexAt
  <2>. QED  BY <1>4, <1>8, <2>1, <2>6, Zenon DEF bk2, up2, down2
<1>9. CASE bs # <<>> /\ flag[bs[1]]
  <2>1. up2 = removeIdentifier(up, id) /\ down2 = appendMissing(down, id)
    BY <1>9, Zenon DEF RefreshedUp, RefreshedDown, up2, down2
  <2>2. Range(up2) = Range(up) \ {id} /\ Range(down2) = Range(down) \cup {id}
    BY <1>4, <1>5, <2>1, Zenon
  <2>3. Range(up2) \cup Range(down2) = known2 /\ Range(up2) \cap Range(down2) = {}
    BY <1>2, <1>7, <1>9, <2>2, Zenon
  <2>4. \A j \in Range(down2) : flag[bk2[j][1]]
    BY <1>1, <1>3, <1>6, <1>9, <2>2, Zenon
  <2>5. \A j \in Range(up2) : told[bk2[j][1]] <= m
    BY <1>1, <1>3, <1>6, <2>2
  <2>6. IndexAt(m, bk2, up2, down2, flag, told)
    BY <1>4, <1>5, <2>1, <2>3, <2>4, <2>5, Zenon DEF IndexAt
  <2>. QED  BY <1>4, <1>5, <2>1, <2>2, <2>6, Zenon DEF bk2, up2, down2
<1>10. CASE bs # <<>> /\ ~flag[bs[1]]
  <2>1. up2 = appendMissing(up, id) /\ down2 = removeIdentifier(down, id)
    BY <1>10, Zenon DEF RefreshedUp, RefreshedDown, up2, down2
  <2>2. Range(up2) = Range(up) \cup {id} /\ Range(down2) = Range(down) \ {id}
    BY <1>4, <1>5, <2>1, Zenon
  <2>3. Range(up2) \cup Range(down2) = known2 /\ Range(up2) \cap Range(down2) = {}
    BY <1>2, <1>7, <1>10, <2>2, Zenon
  <2>4. \A j \in Range(down2) : flag[bk2[j][1]]
    BY <1>1, <1>3, <1>6, <2>2, Zenon
  <2>5. told[bs[1]] <= m
    <3>1. bs[1] \in Backend
      BY <1>10, ElementsLemma
    <3>. QED  BY <1>10, <3>1, Zenon
  <2>6. \A j \in Range(up2) : told[bk2[j][1]] <= m
    BY <1>1, <1>3, <1>6, <2>2, <2>5, Zenon
  <2>7. IndexAt(m, bk2, up2, down2, flag, told)
    BY <1>4, <1>5, <2>1, <2>3, <2>4, <2>6, Zenon DEF IndexAt
  <2>. QED  BY <1>4, <1>5, <1>10, <2>1, <2>7, Zenon DEF bk2, up2, down2
<1>. QED  BY <1>8, <1>9, <1>10, Zenon DEF up2, down2

(* What addBackend makes of the connections of an identifier, and of the   *)
(* two slices.                                                             *)
Added(bs, b) == IF b \in Range(bs) THEN bs ELSE Append(bs, b)
AddedUp(m, up, id, bs, b, flag) ==
  IF (bs = <<>> /\ maintainRandomRoutingIndex(m)) /\ ~flag[b] THEN Append(up, id) ELSE up
AddedDown(m, down, id, bs, b, flag) ==
  IF (bs = <<>> /\ maintainRandomRoutingIndex(m)) /\ flag[b] THEN Append(down, id) ELSE down

(* It files an agent with its first connection like a refresh, and         *)
(* otherwise leaves the primary and the index alone.                       *)
LEMMA AddKeeps ==
  ASSUME NEW m \in Manager, NEW bk \in [Ident -> Seq(Backend)],
         NEW up \in Seq(Ident), NEW down \in Seq(Ident),
         NEW flag, NEW told \in [Backend -> Nat],
         IndexAt(m, bk, up, down, flag, told),
         \A x \in Backend : ~flag[x] => told[x] <= m,
         NEW id \in Ident, NEW b \in Backend, IsInjective(bk[id])
  PROVE  /\ AddedUp(m, up, id, bk[id], b, flag) \in Seq(Ident)
         /\ AddedDown(m, down, id, bk[id], b, flag) \in Seq(Ident)
         /\ IndexAt(m, [bk EXCEPT ![id] = Added(bk[id], b)],
                    AddedUp(m, up, id, bk[id], b, flag),
                    AddedDown(m, down, id, bk[id], b, flag), flag, told)
<1> DEFINE bs == Added(bk[id], b)
           new == bk[id] = <<>> /\ maintainRandomRoutingIndex(m)
           up2 == AddedUp(m, up, id, bk[id], b, flag)
           down2 == AddedDown(m, down, id, bk[id], b, flag)
<1> DEFINE old == bk[id]
<1>1. old \in Seq(Backend) /\ IsInjective(old)
  BY Zenon
<1> HIDE DEF old
<1>2. b \notin Range(old) =>
        /\ Append(old, b) \in Seq(Backend) /\ Append(old, b) # <<>>
        /\ old = <<>> => Append(old, b)[1] = b
        /\ old # <<>> => Append(old, b)[1] = old[1]
  <2>0. old \in Seq(Backend) /\ Len(old) \in Nat
    BY <1>1
  <2>1. Append(old, b) \in Seq(Backend) /\ Append(old, b) # <<>>
    <3>1. Append(old, b) \in Seq(Backend)
      BY <2>0
    <3>2. Len(Append(old, b)) = Len(old) + 1
      BY <2>0
    <3>3. Len(Append(old, b)) # 0
      BY <2>0, <3>2
    <3>4. Len(<<>>) = 0
      OBVIOUS
    <3>. QED  BY <3>1, <3>3, <3>4, Zenon
  <2>2. old = <<>> => Append(old, b)[1] = b
    BY <1>1
  <2>3. old # <<>> => Append(old, b)[1] = old[1]
    BY <1>1
  <2>. QED  BY <2>1, <2>2, <2>3, Zenon
<1>3. old = <<>> => b \notin Range(old)
  BY <1>1, ElementsLemma, Zenon
<1>4. /\ bs \in Seq(Backend)
      /\ bk[id] = <<>> => bs # <<>> /\ bs[1] = b
      /\ bk[id] # <<>> => bs # <<>> /\ bs[1] = bk[id][1]
  BY <1>1, <1>2, <1>3, Zenon DEF old, Added
<1>7. /\ up2 = IF new /\ ~flag[b] THEN Append(up, id) ELSE up
      /\ down2 = IF new /\ flag[b] THEN Append(down, id) ELSE down
  BY Zenon DEF AddedUp, AddedDown
<1> HIDE DEF bs, up2, down2
<1>5. CASE new
  <2>1. id \notin Range(up) /\ id \notin Range(down)
    BY <1>5, Zenon DEF IndexAt
  <2>2. /\ removeIdentifier(up, id) = up /\ removeIdentifier(down, id) = down
        /\ appendMissing(up, id) = Append(up, id)
        /\ appendMissing(down, id) = Append(down, id)
    BY <2>1, Zenon DEF removeIdentifier, appendMissing
  <2>3. bs # <<>> /\ bs[1] = b
    BY <1>4, <1>5, Zenon
  <2>4. up2 = RefreshedUp(up, id, bs, flag)
    BY <1>5, <1>7, <2>2, <2>3, Zenon DEF RefreshedUp
  <2>5. down2 = RefreshedDown(down, id, bs, flag)
    BY <1>5, <1>7, <2>2, <2>3, Zenon DEF RefreshedDown
  <2>6. maintainRandomRoutingIndex(m)
    BY <1>5, Zenon
  <2>7. /\ up2 \in Seq(Ident) /\ down2 \in Seq(Ident)
        /\ IndexAt(m, [bk EXCEPT ![id] = bs], up2, down2, flag, told)
    BY Zenon, <1>4, <2>4, <2>5, <2>6, RefreshKeeps
  <2>. QED  BY <2>7, Zenon DEF bs, up2, down2
<1>6. CASE ~new
  <2> DEFINE bk2 == [bk EXCEPT ![id] = bs]
  <2>1. up2 = up /\ down2 = down
    BY <1>6, <1>7, Zenon
  <2>2. bk2[id] = bs /\ \A j \in Ident \ {id} : bk2[j] = bk[j]
    BY Zenon
  <2> HIDE DEF bk2
  <2>3. maintainRandomRoutingIndex(m) => bk[id] # <<>>
    BY <1>6, Zenon
  <2>4. maintainRandomRoutingIndex(m) =>
          \A j \in Ident : /\ bk2[j] = <<>> <=> bk[j] = <<>>
                           /\ bk[j] # <<>> => bk2[j][1] = bk[j][1]
    BY <1>4, <2>2, <2>3, Zenon
  <2>5. IndexAt(m, bk2, up, down, flag, told)
    <3>1. \A j \in Ident : bk[j] # <<>> =>
            /\ flag[bk[j][1]] => flag[bk[j][1]]
            /\ told[bk[j][1]] <= m /\ j \in Range(up) => told[bk[j][1]] <= m
      OBVIOUS
    <3>. QED  BY Zenon, <2>4, <3>1, PrimaryKeeps
  <2>. QED  BY <2>1, <2>5, Zenon DEF bk2, bs, up2, down2
<1>. QED  BY <1>5, <1>6, Zenon DEF bs, up2, down2

-----------------------------------------------------------------------------
(* Identifiers and calls *)

(* A manager registers a connection under identifiers, and one that routes *)
(* at random under its agent ID only.                                      *)
LEMMA IdentsLemma ==
  ASSUME NEW m \in Manager, NEW b \in Backend
  PROVE  /\ IdentsOf(m, b) \in Seq(Ident)
         /\ maintainRandomRoutingIndex(m) =>
              \A id \in Range(IdentsOf(m, b)) : id = AgentID[b]
         /\ \A id \in Range(IdentsOf(m, b)) : id \in Ident /\ IdentsOf(m, b) # <<>>
<1>1. AgentID[b] \in Ident /\ DestIDs[b] \in Seq(Ident)
  BY BackendAssumption
<1>2. Strategies[m] \in Strategy
  BY StrategiesAssumption DEF Manager
<1> DEFINE ids == IdentsOf(m, b)
<1>3. ids = DestIDs[b] \/ ids = <<AgentID[b]>> \/ ids = <<>>
  BY <1>2 DEF Strategy, IdentsOf
<1>4. maintainRandomRoutingIndex(m) => ids = <<AgentID[b]>> \/ ids = <<>>
  BY <1>2 DEF Strategy, IdentsOf, maintainRandomRoutingIndex
<1> HIDE DEF ids
<1>5. ids \in Seq(Ident)
  <2>1. <<AgentID[b]>> \in Seq(Ident)
    BY <1>1
  <2>2. <<>> \in Seq(Ident)
    OBVIOUS
  <2>. QED  BY <1>1, <1>3, <2>1, <2>2, Zenon
<1>6. ids = <<AgentID[b]>> => \A id \in Range(ids) : id = AgentID[b]
  <2>1. DOMAIN <<AgentID[b]>> = {1} /\ <<AgentID[b]>>[1] = AgentID[b]
    OBVIOUS
  <2>. QED  BY <2>1, Zenon DEF Range
<1>7. ids = <<>> => \A id \in Range(ids) : FALSE
  BY <1>5, ElementsLemma, Zenon
<1>8. \A id \in Range(ids) : id \in Ident /\ ids # <<>>
  BY <1>5, <1>7, ElementsLemma, Zenon
<1>. QED  BY <1>4, <1>5, <1>6, <1>7, <1>8, Zenon DEF ids

(* The elements of a concatenation. *)
LEMMA ConcatLemma ==
  ASSUME NEW S, NEW s \in Seq(S), NEW t \in Seq(S)
  PROVE  s \o t \in Seq(S) /\ Range(s \o t) = Range(s) \cup Range(t)
<1> DEFINE u == s \o t
           n == Len(s)
           k == Len(t)
<1>1. /\ n \in Nat /\ k \in Nat /\ DOMAIN s = 1..n /\ DOMAIN t = 1..k
      /\ u \in Seq(S) /\ DOMAIN u = 1..(n + k)
      /\ \A i \in 1..(n + k) : u[i] = IF i <= n THEN s[i] ELSE t[i - n]
  OBVIOUS
<1>0. n \in Nat /\ k \in Nat
  BY <1>1
<1> HIDE DEF u, n, k
<1>2. ASSUME NEW i \in 1..(n + k) PROVE u[i] \in Range(s) \cup Range(t)
  <2>1. CASE i <= n
    <3>1. i \in 1..n
      BY <1>0, <2>1
    <3>. QED  BY Zenon, <1>1, <2>1, <3>1 DEF Range
  <2>2. CASE ~(i <= n)
    <3>1. i - n \in 1..k
      BY <1>0, <2>2
    <3>. QED  BY Zenon, <1>1, <2>2, <3>1 DEF Range
  <2>. QED  BY <2>1, <2>2
<1>3. ASSUME NEW i \in 1..n PROVE s[i] \in Range(u)
  <2>1. i \in 1..(n + k) /\ i <= n
    BY <1>0
  <2>. QED  BY ZenonT(60), <1>1, <2>1 DEF Range
<1>4. ASSUME NEW i \in 1..k PROVE t[i] \in Range(u)
  <2>1. n + i \in 1..(n + k) /\ ~(n + i <= n) /\ (n + i) - n = i
    BY <1>0
  <2>. QED  BY Zenon, <1>1, <2>1 DEF Range
<1>. QED  BY ZenonT(60), <1>1, <1>2, <1>3, <1>4 DEF u, Range

(* The loops of ProxyServer.addBackend and removeBackend call every manager *)
(* with exactly the connection's own identifiers.                          *)
LEMMA CallsLemma ==
  ASSUME NEW b \in Backend
  PROVE  /\ Calls(b) \in Seq(Manager \X Ident)
         /\ \A m \in Manager, id \in Ident :
              <<m, id>> \in Range(Calls(b)) <=> id \in Range(IdentsOf(m, b))
<1>1. ASSUME NEW m
      PROVE  /\ CallsTo(m, b) \in Seq(Manager \X Ident)
             /\ \A x, id : <<x, id>> \in Range(CallsTo(m, b)) <=>
                  x = m /\ m \in Manager /\ id \in Range(IdentsOf(m, b))
  <2>1. CASE m \notin Manager
    <3>1. CallsTo(m, b) = <<>>
      BY <2>1 DEF CallsTo
    <3>2. <<>> \in Seq(Manager \X Ident)
      OBVIOUS
    <3>. QED  BY <2>1, <3>1, <3>2, ElementsLemma, Zenon
  <2>2. CASE m \in Manager
    <3> DEFINE ids == IdentsOf(m, b)
               n == Len(ids)
    <3>1. ids \in Seq(Ident)
      BY <2>2, IdentsLemma
    <3>2. CallsTo(m, b) = [k \in DOMAIN ids |-> <<m, ids[k]>>]
      BY <2>2 DEF CallsTo
    <3> HIDE DEF ids
    <3>3. n \in Nat /\ DOMAIN ids = 1..n /\ \A k \in 1..n : ids[k] \in Ident
      BY <3>1
    <3> HIDE DEF n
    <3>4. CallsTo(m, b) \in Seq(Manager \X Ident)
      BY <2>2, <3>2, <3>3
    <3>5. \A x, id : <<x, id>> \in Range(CallsTo(m, b)) <=> x = m /\ id \in Range(ids)
      BY <3>2 DEF Range
    <3>. QED  BY <2>2, <3>4, <3>5, Zenon DEF ids
  <2>. QED  BY <2>1, <2>2, Zenon
<1>2. \A m \in Manager : m = 1 \/ m = 2 \/ m = 3
  BY StrategiesAssumption DEF Manager
<1> DEFINE c1 == CallsTo(1, b)
           c2 == CallsTo(2, b)
           c3 == CallsTo(3, b)
           c12 == c1 \o c2
<1>3. c1 \in Seq(Manager \X Ident) /\ c2 \in Seq(Manager \X Ident) /\ c3 \in Seq(Manager \X Ident)
  BY <1>1, Zenon
<1>4. \A x, id : /\ <<x, id>> \in Range(c1) <=> x = 1 /\ 1 \in Manager /\ id \in Range(IdentsOf(1, b))
                 /\ <<x, id>> \in Range(c2) <=> x = 2 /\ 2 \in Manager /\ id \in Range(IdentsOf(2, b))
                 /\ <<x, id>> \in Range(c3) <=> x = 3 /\ 3 \in Manager /\ id \in Range(IdentsOf(3, b))
  BY <1>1, Zenon
<1> HIDE DEF c1, c2, c3
<1>5. c12 \in Seq(Manager \X Ident) /\ Range(c12) = Range(c1) \cup Range(c2)
  BY <1>3, ConcatLemma
<1> HIDE DEF c12
<1>6. c12 \o c3 \in Seq(Manager \X Ident) /\ Range(c12 \o c3) = Range(c12) \cup Range(c3)
  BY <1>3, <1>5, ConcatLemma
<1>7. Calls(b) = c12 \o c3
  BY DEF Calls, c12, c1, c2, c3
<1>8. \A m \in Manager, id \in Ident :
        <<m, id>> \in Range(Calls(b)) <=> id \in Range(IdentsOf(m, b))
  BY ZenonT(60), <1>2, <1>4, <1>5, <1>6, <1>7
<1>. QED  BY <1>6, <1>7, <1>8, Zenon

(* A loop takes its calls one by one. *)
LEMMA TailLemma ==
  ASSUME NEW S, NEW s \in Seq(S), s # <<>>
  PROVE  /\ s[1] \in S /\ s[1] \in Range(s) /\ Tail(s) \in Seq(S)
         /\ Range(s) = Range(Tail(s)) \cup {s[1]}
<1> DEFINE n == Len(s)
           t == Tail(s)
<1>1. /\ n \in Nat /\ n # 0 /\ DOMAIN s = 1..n /\ t \in Seq(S) /\ DOMAIN t = 1..(n - 1)
      /\ \A i \in 1..(n - 1) : t[i] = s[i + 1]
      /\ \A i \in 1..n : s[i] \in S
  OBVIOUS
<1>0. n \in Nat /\ n # 0
  BY <1>1
<1> HIDE DEF n, t
<1>2. 1 \in 1..n /\ (\A i \in 1..n : i = 1 \/ i - 1 \in 1..(n - 1))
  BY <1>0
<1>3. \A i \in 1..(n - 1) : i + 1 \in 1..n
  BY <1>0
<1>4. \A i \in 1..n : s[i] \in Range(t) \cup {s[1]}
  <2> TAKE i \in 1..n
  <2>1. CASE i = 1
    BY <2>1
  <2>2. CASE i - 1 \in 1..(n - 1)
    <3>1. t[i - 1] = s[(i - 1) + 1] /\ (i - 1) + 1 = i
      BY <1>1, <2>2
    <3>. QED  BY <1>1, <2>2, <3>1, Zenon DEF Range
  <2>. QED  BY <1>2, <2>1, <2>2, Zenon
<1>5. \A i \in 1..(n - 1) : t[i] \in Range(s)
  BY <1>1, <1>3, Zenon DEF Range
<1>6. s[1] \in S /\ s[1] \in Range(s) /\ t \in Seq(S)
  BY <1>1, <1>2, Zenon DEF Range
<1>7. Range(s) \subseteq Range(t) \cup {s[1]}
  BY ZenonT(60), <1>1, <1>4 DEF Range
<1>8. Range(t) \subseteq Range(s)
  BY <1>1, <1>5, Zenon DEF Range
<1>. QED  BY <1>6, <1>7, <1>8, Zenon DEF t

-----------------------------------------------------------------------------
(* The storages in step with the connects *)

(* Storing the connections bs of an identifier changes nothing else. *)
LEMMA StoreLemma ==
  ASSUME NEW bk \in [Manager -> [Ident -> Seq(Backend)]], NEW m \in Manager,
         NEW id \in Ident, NEW bs \in Seq(Backend), NEW bk2,
         bk2 = [bk EXCEPT ![m][id] = bs]
  PROVE  /\ bk2 \in [Manager -> [Ident -> Seq(Backend)]]
         /\ bk2[m] = [bk[m] EXCEPT ![id] = bs]
         /\ bk2[m][id] = bs
         /\ \A x \in Manager : x # m => bk2[x] = bk[x]
         /\ \A x \in Manager, j \in Ident : x # m \/ j # id => bk2[x][j] = bk[x][j]
<1>1. bk2 = [bk EXCEPT ![m] = [bk[m] EXCEPT ![id] = bs]]
  OBVIOUS
<1>2. [bk[m] EXCEPT ![id] = bs] \in [Ident -> Seq(Backend)]
  OBVIOUS
<1>. QED  BY <1>1, <1>2

(* A connection that starts to register, or that its connect goroutine is  *)
(* done with, is in step with the storages.                                *)
LEMMA HeldConn ==
  ASSUME Inv, NEW b \in Backend,
         StartConnect(b) \/ Connected(b) \/ StopConnect(b) \/ Disconnected(b)
  PROVE  HeldInv'
<1>1. /\ conn \in [Backend -> {"new", "adding", "up", "removing", "gone"}]
      /\ calls \in [Backend -> Seq(Manager \X Ident)]
      /\ backends' = backends
  BY DEF Inv, TypeOK, StartConnect, Connected, StopConnect, Disconnected, storage
<1>2. \A x \in Backend : x # b => conn'[x] = conn[x] /\ calls'[x] = calls[x]
  BY <1>1, Zenon DEF StartConnect, Connected, StopConnect, Disconnected
<1>3. \A m \in Manager, id \in Ident : IsInjective(backends'[m][id])
  BY <1>1, Zenon DEF Inv, HeldInv
<1>4. \A m \in Manager, id \in Ident :
        <<m, id>> \in Range(Calls(b)) <=> id \in Range(IdentsOf(m, b))
  BY CallsLemma, Zenon
<1>5. \A m \in Manager, id \in Ident : calls[b] = <<>> => <<m, id>> \notin Range(calls[b])
  BY <1>1, ElementsLemma, Zenon
<1>6. ASSUME NEW x \in Backend, NEW m \in Manager, NEW id \in Ident
      PROVE  LET held == x \in Range(backends'[m][id])
                 mine == id \in Range(IdentsOf(m, x))
                 left == <<m, id>> \in Range(calls'[x])
             IN  /\ held => mine /\ conn'[x] \in {"adding", "up", "removing"}
                 /\ left => mine
                 /\ conn'[x] = "adding" /\ mine => held \/ left
                 /\ conn'[x] = "up" /\ mine => held
                 /\ conn'[x] = "removing" /\ held => left
  <2> DEFINE held == x \in Range(backends[m][id])
             mine == id \in Range(IdentsOf(m, x))
             left == <<m, id>> \in Range(calls[x])
  <2>1. /\ held => mine /\ conn[x] \in {"adding", "up", "removing"}
        /\ left => mine
        /\ conn[x] = "adding" /\ mine => held \/ left
        /\ conn[x] = "up" /\ mine => held
        /\ conn[x] = "removing" /\ held => left
    BY DEF Inv, HeldInv
  <2>2. CASE x # b
    BY ZenonT(60), <1>1, <1>2, <2>1, <2>2
  <2>3. CASE x = b /\ StartConnect(b)
    <3>1. conn[b] = "new" /\ conn'[b] = "adding" /\ calls'[b] = Calls(b)
      BY <1>1, <2>3, Zenon DEF StartConnect
    <3>. QED  BY <1>1, <1>4, <2>1, <2>3, <3>1
  <2>4. CASE x = b /\ Connected(b)
    <3>1. conn[b] = "adding" /\ conn'[b] = "up" /\ calls'[b] = calls[b] /\ calls[b] = <<>>
      BY ZenonT(60), <1>1, <2>4 DEF Connected
    <3>. QED  BY <1>1, <1>5, <2>1, <2>4, <3>1
  <2>5. CASE x = b /\ StopConnect(b)
    <3>1. conn[b] = "up" /\ conn'[b] = "removing" /\ calls'[b] = Calls(b)
      BY <1>1, <2>5, Zenon DEF StopConnect
    <3>. QED  BY <1>1, <1>4, <2>1, <2>5, <3>1
  <2>6. CASE x = b /\ Disconnected(b)
    <3>1. conn[b] = "removing" /\ conn'[b] = "gone" /\ calls'[b] = calls[b] /\ calls[b] = <<>>
      BY <1>1, <2>6, Zenon DEF Disconnected
    <3>. QED  BY <1>1, <1>5, <2>1, <2>6, <3>1
  <2>. QED  BY <2>2, <2>3, <2>4, <2>5, <2>6, Zenon
<1>. QED  BY <1>3, <1>6, Zenon DEF HeldInv

(* The next call of a loop, and the ones it leaves. *)
LEMMA NextCall ==
  ASSUME TypeOK, NEW b \in Backend, calls[b] # <<>>
  PROVE  /\ calls[b][1][1] \in Manager /\ calls[b][1][2] \in Ident
         /\ Tail(calls[b]) \in Seq(Manager \X Ident)
         /\ <<calls[b][1][1], calls[b][1][2]>> \in Range(calls[b])
         /\ \A c : c \in Range(calls[b]) <=>
              c \in Range(Tail(calls[b])) \/ c = <<calls[b][1][1], calls[b][1][2]>>
<1>1. calls[b] \in Seq(Manager \X Ident)
  BY DEF TypeOK
<1> DEFINE s == calls[b]
<1>2. /\ s[1] \in Manager \X Ident /\ s[1] \in Range(s) /\ Tail(s) \in Seq(Manager \X Ident)
      /\ Range(s) = Range(Tail(s)) \cup {s[1]}
  <2> HIDE DEF s
  <2>. QED  BY <1>1, TailLemma DEF s
<1> HIDE DEF s
<1>3. s[1][1] \in Manager /\ s[1][2] \in Ident /\ s[1] = <<s[1][1], s[1][2]>>
  BY <1>2
<1>. QED  BY <1>2, <1>3, Zenon DEF s

(* One storage call, of addBackend or of removeBackend, with the list bs   *)
(* that it leaves: the storages stay in step with the connects.            *)
LEMMA HeldCall ==
  ASSUME Inv, NEW b \in Backend, conn[b] \in {"adding", "removing"}, calls[b] # <<>>,
         NEW m \in Manager, NEW id \in Ident, m = calls[b][1][1], id = calls[b][1][2],
         NEW bs \in Seq(Backend), IsInjective(bs),
         conn[b] = "adding" => Range(bs) = Range(backends[m][id]) \cup {b},
         conn[b] = "removing" => Range(bs) = Range(backends[m][id]) \ {b},
         backends' = [backends EXCEPT ![m][id] = bs],
         calls' = [calls EXCEPT ![b] = Tail(@)], UNCHANGED conn
  PROVE  /\ backends' \in [Manager -> [Ident -> Seq(Backend)]]
         /\ calls' \in [Backend -> Seq(Manager \X Ident)]
         /\ HeldInv'
<1>1. /\ backends \in [Manager -> [Ident -> Seq(Backend)]]
      /\ calls \in [Backend -> Seq(Manager \X Ident)]
  BY ZenonT(60) DEF Inv, TypeOK
<1>2. /\ backends' \in [Manager -> [Ident -> Seq(Backend)]]
      /\ backends'[m][id] = bs
      /\ \A x \in Manager, j \in Ident : x # m \/ j # id => backends'[x][j] = backends[x][j]
  BY SMTT(60), <1>1, StoreLemma
<1>3. /\ Tail(calls[b]) \in Seq(Manager \X Ident)
      /\ <<m, id>> \in Range(calls[b])
      /\ \A c : c \in Range(calls[b]) <=> c \in Range(Tail(calls[b])) \/ c = <<m, id>>
  BY NextCall, Zenon DEF Inv
<1>4. /\ calls' \in [Backend -> Seq(Manager \X Ident)]
      /\ calls'[b] = Tail(calls[b])
      /\ \A x \in Backend : x # b => calls'[x] = calls[x]
  BY <1>1, <1>3, Zenon
<1>5. \A x \in Manager, j \in Ident : IsInjective(backends'[x][j])
  <2> TAKE x \in Manager, j \in Ident
  <2>1. IsInjective(backends[x][j])
    BY Zenon DEF Inv, HeldInv
  <2>. QED  BY <1>2, <2>1, Zenon
<1>6. ASSUME NEW x \in Backend, NEW y \in Manager, NEW j \in Ident
      PROVE  LET held == x \in Range(backends'[y][j])
                 mine == j \in Range(IdentsOf(y, x))
                 left == <<y, j>> \in Range(calls'[x])
             IN  /\ held => mine /\ conn'[x] \in {"adding", "up", "removing"}
                 /\ left => mine
                 /\ conn'[x] = "adding" /\ mine => held \/ left
                 /\ conn'[x] = "up" /\ mine => held
                 /\ conn'[x] = "removing" /\ held => left
  <2> DEFINE held == x \in Range(backends[y][j])
             held2 == x \in Range(backends'[y][j])
             mine == j \in Range(IdentsOf(y, x))
             left == <<y, j>> \in Range(calls[x])
             left2 == <<y, j>> \in Range(calls'[x])
             here == y = m /\ j = id
  <2>1. /\ held => mine /\ conn[x] \in {"adding", "up", "removing"}
        /\ left => mine
        /\ conn[x] = "adding" /\ mine => held \/ left
        /\ conn[x] = "up" /\ mine => held
        /\ conn[x] = "removing" /\ held => left
    BY ZenonT(60) DEF Inv, HeldInv
  <2>2. x # b => (left2 <=> left)
    BY <1>4, Zenon
  <2>3. x = b => (left <=> left2 \/ here) /\ (here => left)
    <3>1. <<y, j>> = <<m, id>> <=> here
      OBVIOUS
    <3>. QED  BY ZenonT(60), <1>3, <1>4, <3>1
  <2>4. x # b \/ ~here => (held2 <=> held)
    BY ZenonT(60), <1>2
  <2>5. x = b /\ here => (conn[b] = "adding" => held2) /\ (conn[b] = "removing" => ~held2)
    BY ZenonT(60), <1>2
  <2>6. conn' = conn
    OBVIOUS
  <2> HIDE DEF held, held2, mine, left, left2, here
  <2>7. CASE x # b
    BY <2>1, <2>2, <2>4, <2>6, <2>7, Zenon DEF held, held2, mine, left, left2
  <2>8. CASE x = b
    <3>1. /\ held2 => mine /\ conn[x] \in {"adding", "up", "removing"}
          /\ left2 => mine
          /\ conn[x] = "adding" /\ mine => held2 \/ left2
          /\ conn[x] = "up" /\ mine => held2
          /\ conn[x] = "removing" /\ held2 => left2
      BY <2>1, <2>3, <2>4, <2>5, <2>8
    <3>. QED  BY <2>6, <3>1, Zenon DEF held2, mine, left2
  <2>. QED  BY ZenonT(60), <2>7, <2>8
<1>. QED  BY <1>2, <1>4, <1>5, <1>6, Zenon DEF HeldInv

-----------------------------------------------------------------------------
(* The steps *)

(* A connection that is not draining has been announced to no manager. *)
LEMMA NotToldLemma ==
  ASSUME Inv, NEW m \in Manager
  PROVE  \A x \in Backend : ~draining[x] => notify[x] <= m
<1>1. m \in Nat
  BY StrategiesAssumption DEF Manager
<1>2. \A x \in Backend : ~draining[x] => notify[x] = 0
  BY Zenon DEF Inv, NotifyInv
<1>3. 0 <= m
  BY <1>1
<1>. QED  BY <1>2, <1>3, Zenon

(* A selection notices nothing of a step that leaves the storage it has    *)
(* locked alone.                                                           *)
LEMMA SelKeeps ==
  ASSUME Inv, UNCHANGED sel,
         sel.pc \in {"draw", "second"} =>
           /\ backends'[sel.m] = backends[sel.m]
           /\ nonDrainingAgentIDs'[sel.m] = nonDrainingAgentIDs[sel.m]
  PROVE  SelInv'
<1>1. SelInv
  BY DEF Inv
<1>2. sel.pc \in {"draw", "second"} => Registered(sel.m)' = Registered(sel.m)
  BY Zenon DEF Registered
<1>3. sel.pc = "second" => sel.pc \in {"draw", "second"}
  OBVIOUS
<1>. QED  BY <1>1, <1>2, <1>3, Zenon DEF SelInv

(* addBackend of one storage. *)
LEMMA AddStep ==
  ASSUME Inv, NEW b \in Backend, addBackend(b)
  PROVE  Inv'
<1> DEFINE m == calls[b][1][1]
           id == calls[b][1][2]
           old == backends[m][id]
           new == old = <<>> /\ maintainRandomRoutingIndex(m)
           bs == IF b \in Range(old) THEN old ELSE Append(old, b)
           up2 == IF new /\ ~draining[b] THEN Append(nonDrainingAgentIDs[m], id)
                                         ELSE nonDrainingAgentIDs[m]
           down2 == IF new /\ draining[b] THEN Append(drainingAgentIDs[m], id)
                                          ELSE drainingAgentIDs[m]
<1>1. /\ conn[b] = "adding" /\ calls[b] # <<>> /\ Unlocked(m)
      /\ backends' = [backends EXCEPT ![m][id] = bs]
      /\ nonDrainingAgentIDs' = [nonDrainingAgentIDs EXCEPT ![m] = up2]
      /\ drainingAgentIDs' = [drainingAgentIDs EXCEPT ![m] = down2]
      /\ calls' = [calls EXCEPT ![b] = Tail(@)]
      /\ UNCHANGED <<draining, conn, notify, sel, picked>>
  BY Zenon DEF addBackend
<1>2. m \in Manager /\ id \in Ident
  BY <1>1, NextCall, Zenon DEF Inv
<1> HIDE DEF m, id
<1>3. TypeOK
  BY DEF Inv
<1>4. old \in Seq(Backend) /\ IsInjective(old)
  <2>1. \A x \in Manager, j \in Ident : IsInjective(backends[x][j])
    BY SMTT(60) DEF Inv, HeldInv
  <2>. QED  BY SMTT(60), <1>2, <1>3, <2>1 DEF TypeOK
<1>5. bs \in Seq(Backend) /\ IsInjective(bs) /\ Range(bs) = Range(old) \cup {b}
  <2>1. CASE b \in Range(old)
    BY <1>4, <2>1, Zenon
  <2>2. CASE b \notin Range(old)
    <3>. HIDE DEF old
    <3>. QED  BY SMTT(20), <1>4, <2>2, AppendLemma
  <2>. QED  BY <2>1, <2>2
<1>6. HeldInv' /\ backends' \in [Manager -> [Ident -> Seq(Backend)]]
      /\ calls' \in [Backend -> Seq(Manager \X Ident)]
  <2> HIDE DEF bs
  <2>. QED  BY Zenon, <1>1, <1>2, <1>5, HeldCall DEF old, m, id
<1>7. /\ nonDrainingAgentIDs[m] \in Seq(Ident) /\ drainingAgentIDs[m] \in Seq(Ident)
      /\ backends[m] \in [Ident -> Seq(Backend)] /\ notify \in [Backend -> Nat]
      /\ IndexAt(m, backends[m], nonDrainingAgentIDs[m], drainingAgentIDs[m], draining, notify)
  BY <1>2, <1>3, Zenon DEF Inv, IndexInv, TypeOK
<1>8. /\ up2 \in Seq(Ident) /\ down2 \in Seq(Ident)
      /\ IndexAt(m, [backends[m] EXCEPT ![id] = bs], up2, down2, draining, notify)
  <2>1. \A x \in Backend : ~draining[x] => notify[x] <= m
    BY <1>2, NotToldLemma
  <2>2. IsInjective(backends[m][id])
    BY <1>4
  <2>3. /\ up2 = AddedUp(m, nonDrainingAgentIDs[m], id, backends[m][id], b, draining)
        /\ down2 = AddedDown(m, drainingAgentIDs[m], id, backends[m][id], b, draining)
        /\ bs = Added(backends[m][id], b)
    BY ZenonT(60) DEF AddedUp, AddedDown, Added
  <2> HIDE DEF old, new, bs, up2, down2
  <2>. QED  BY Zenon, <1>2, <1>7, <2>1, <2>2, <2>3, AddKeeps
<1> HIDE DEF bs, up2, down2
<1>9. /\ backends'[m] = [backends[m] EXCEPT ![id] = bs]
      /\ \A x \in Manager : x # m => backends'[x] = backends[x]
  BY SMTT(60), <1>1, <1>2, <1>3, <1>5, StoreLemma DEF TypeOK
<1>10. /\ nonDrainingAgentIDs' \in [Manager -> Seq(Ident)]
       /\ drainingAgentIDs' \in [Manager -> Seq(Ident)]
       /\ nonDrainingAgentIDs'[m] = up2 /\ drainingAgentIDs'[m] = down2
       /\ \A x \in Manager : x # m => /\ nonDrainingAgentIDs'[x] = nonDrainingAgentIDs[x]
                                      /\ drainingAgentIDs'[x] = drainingAgentIDs[x]
  BY <1>1, <1>2, <1>3, <1>8, Zenon DEF TypeOK
<1>11. TypeOK'
  BY ZenonT(60), <1>1, <1>3, <1>6, <1>10 DEF TypeOK
<1>12. IndexInv'
  <2> SUFFICES ASSUME NEW x \in Manager
               PROVE  IndexAt(x, backends'[x], nonDrainingAgentIDs'[x],
                              drainingAgentIDs'[x], draining, notify)
    BY <1>1, Zenon DEF IndexInv, IndexAt
  <2>1. CASE x = m
    BY <1>8, <1>9, <1>10, <2>1, Zenon
  <2>2. CASE x # m
    BY <1>9, <1>10, <2>2, Zenon DEF Inv, IndexInv
  <2>. QED  BY <2>1, <2>2
<1>13. SelInv'
  <2>1. sel.pc \in {"draw", "second"} => sel.m \in Manager /\ sel.m # m
    BY <1>1 DEF Inv, SelInv, Unlocked
  <2>. QED  BY <1>1, <1>9, <1>10, <2>1, SelKeeps
<1>14. NotifyInv'
  BY <1>1, Zenon DEF Inv, NotifyInv
<1>. QED  BY <1>6, <1>11, <1>12, <1>13, <1>14 DEF Inv

(* refreshIdentifierState within a step: the index of the manager fits the *)
(* connections bs, and no other index changes.                             *)
LEMMA RefreshLemma ==
  ASSUME Inv, NEW m \in Manager, maintainRandomRoutingIndex(m), NEW id \in Ident,
         NEW bs \in Seq(Backend), refreshIdentifierState(m, id, bs)
  PROVE  /\ nonDrainingAgentIDs' \in [Manager -> Seq(Ident)]
         /\ drainingAgentIDs' \in [Manager -> Seq(Ident)]
         /\ IndexAt(m, [backends[m] EXCEPT ![id] = bs], nonDrainingAgentIDs'[m],
                    drainingAgentIDs'[m], draining, notify)
         /\ bs # <<>> /\ draining[bs[1]] => id \notin Range(nonDrainingAgentIDs'[m])
         /\ \A x \in Manager : x # m => /\ nonDrainingAgentIDs'[x] = nonDrainingAgentIDs[x]
                                        /\ drainingAgentIDs'[x] = drainingAgentIDs[x]
<1> DEFINE up2 == RefreshedUp(nonDrainingAgentIDs[m], id, bs, draining)
           down2 == RefreshedDown(drainingAgentIDs[m], id, bs, draining)
<1>1. TypeOK
  BY DEF Inv
<1>2. /\ nonDrainingAgentIDs' = [nonDrainingAgentIDs EXCEPT ![m] = up2]
      /\ drainingAgentIDs' = [drainingAgentIDs EXCEPT ![m] = down2]
  BY Zenon DEF refreshIdentifierState, RefreshedUp, RefreshedDown
<1>3. /\ nonDrainingAgentIDs[m] \in Seq(Ident) /\ drainingAgentIDs[m] \in Seq(Ident)
      /\ backends[m] \in [Ident -> Seq(Backend)] /\ notify \in [Backend -> Nat]
      /\ IndexAt(m, backends[m], nonDrainingAgentIDs[m], drainingAgentIDs[m], draining, notify)
  BY <1>1, Zenon DEF Inv, IndexInv, TypeOK
<1>4. \A x \in Backend : ~draining[x] => notify[x] <= m
  BY NotToldLemma
<1>5. /\ up2 \in Seq(Ident) /\ down2 \in Seq(Ident)
      /\ IndexAt(m, [backends[m] EXCEPT ![id] = bs], up2, down2, draining, notify)
      /\ bs # <<>> /\ draining[bs[1]] => id \notin Range(up2)
  BY Zenon, <1>3, <1>4, RefreshKeeps
<1> HIDE DEF up2, down2
<1>. QED  BY <1>1, <1>2, <1>5, Zenon DEF TypeOK

(* removeBackend of one storage. *)
LEMMA RemoveStep ==
  ASSUME Inv, NEW b \in Backend, removeBackend(b)
  PROVE  Inv'
<1> DEFINE m == calls[b][1][1]
           id == calls[b][1][2]
           old == backends[m][id]
           bs == WithoutBackend(old, b)
<1>1. /\ conn[b] = "removing" /\ calls[b] # <<>> /\ Unlocked(m)
      /\ backends' = [backends EXCEPT ![m][id] = bs]
      /\ calls' = [calls EXCEPT ![b] = Tail(@)]
      /\ UNCHANGED <<draining, conn, notify, sel, picked>>
  BY Zenon DEF removeBackend
<1>2. \/ old # <<>> /\ maintainRandomRoutingIndex(m) /\ refreshIdentifierState(m, id, bs)
      \/ /\ old = <<>> \/ ~maintainRandomRoutingIndex(m)
         /\ UNCHANGED <<nonDrainingAgentIDs, drainingAgentIDs>>
  BY Zenon DEF removeBackend
<1>3. m \in Manager /\ id \in Ident
  BY <1>1, NextCall, Zenon DEF Inv
<1> HIDE DEF m, id
<1>4. TypeOK
  BY DEF Inv
<1>5. old \in Seq(Backend) /\ IsInjective(old)
  <2>1. \A x \in Manager, j \in Ident : IsInjective(backends[x][j])
    BY DEF Inv, HeldInv
  <2>. QED  BY SMTT(60), <1>3, <1>4, <2>1 DEF TypeOK
<1>6. /\ bs \in Seq(Backend) /\ IsInjective(bs) /\ Range(bs) = Range(old) \ {b}
      /\ old = <<>> => bs = old
  <2> HIDE DEF old
  <2>1. old = <<>> => b \notin Range(old)
    BY <1>5, ElementsLemma, Zenon
  <2>2. b \notin Range(old) => bs = old
    BY DEF WithoutBackend
  <2>. QED  BY SMTT(60), <1>5, <2>1, <2>2, WithoutBackendLemma
<1> HIDE DEF bs
<1>7. HeldInv' /\ backends' \in [Manager -> [Ident -> Seq(Backend)]]
      /\ calls' \in [Backend -> Seq(Manager \X Ident)]
  BY ZenonT(60), <1>1, <1>3, <1>6, HeldCall DEF old, m, id
<1>8. /\ backends'[m] = [backends[m] EXCEPT ![id] = bs]
      /\ \A x \in Manager : x # m => backends'[x] = backends[x]
  BY <1>1, <1>3, <1>4, <1>6, StoreLemma DEF TypeOK
<1>9. /\ nonDrainingAgentIDs' \in [Manager -> Seq(Ident)]
      /\ drainingAgentIDs' \in [Manager -> Seq(Ident)]
      /\ IndexAt(m, backends'[m], nonDrainingAgentIDs'[m], drainingAgentIDs'[m],
                 draining, notify)
      /\ \A x \in Manager : x # m => /\ nonDrainingAgentIDs'[x] = nonDrainingAgentIDs[x]
                                     /\ drainingAgentIDs'[x] = drainingAgentIDs[x]
  <2>1. CASE old # <<>> /\ maintainRandomRoutingIndex(m) /\ refreshIdentifierState(m, id, bs)
    BY <1>3, <1>6, <1>8, <2>1, RefreshLemma
  <2>2. CASE /\ old = <<>> \/ ~maintainRandomRoutingIndex(m)
             /\ UNCHANGED <<nonDrainingAgentIDs, drainingAgentIDs>>
    <3>1. IndexAt(m, backends[m], nonDrainingAgentIDs[m], drainingAgentIDs[m], draining, notify)
      BY <1>3 DEF Inv, IndexInv
    <3>2. maintainRandomRoutingIndex(m) => backends'[m] = backends[m]
      <4>1. [backends[m] EXCEPT ![id] = backends[m][id]] = backends[m]
        BY SMTT(60), <1>3, <1>4 DEF TypeOK
      <4>. QED  BY <1>6, <1>8, <2>2, <4>1, Zenon DEF old
    <3>3. IndexAt(m, backends'[m], nonDrainingAgentIDs[m], drainingAgentIDs[m], draining, notify)
      <4>1. CASE maintainRandomRoutingIndex(m)
        BY <3>1, <3>2, <4>1, Zenon
      <4>2. CASE ~maintainRandomRoutingIndex(m)
        <5>1. /\ nonDrainingAgentIDs[m] \in Seq(Ident) /\ drainingAgentIDs[m] \in Seq(Ident)
          BY <1>3, <1>4 DEF TypeOK
        <5>. QED  BY <1>3, <3>1, <4>2, <5>1, PrimaryKeeps, Zenon
      <4>. QED  BY SMTT(60), <4>1, <4>2
    <3>. QED  BY ZenonT(60), <1>4, <2>2, <3>3 DEF TypeOK
  <2>. QED  BY ZenonT(60), <1>2, <2>1, <2>2
<1>10. TypeOK'
  BY <1>1, <1>4, <1>7, <1>9, Zenon DEF TypeOK
<1>11. IndexInv'
  <2> SUFFICES ASSUME NEW x \in Manager
               PROVE  IndexAt(x, backends'[x], nonDrainingAgentIDs'[x],
                              drainingAgentIDs'[x], draining, notify)
    BY <1>1, Zenon DEF IndexInv, IndexAt
  <2>1. CASE x = m
    BY <1>9, <2>1, Zenon
  <2>2. CASE x # m
    BY <1>8, <1>9, <2>2, Zenon DEF Inv, IndexInv
  <2>. QED  BY <2>1, <2>2
<1>12. SelInv'
  <2>1. sel.pc \in {"draw", "second"} => sel.m \in Manager /\ sel.m # m
    BY <1>1 DEF Inv, SelInv, Unlocked
  <2>. QED  BY <1>1, <1>8, <1>9, <2>1, SelKeeps
<1>13. NotifyInv'
  BY <1>1, Zenon DEF Inv, NotifyInv
<1>. QED  BY <1>7, <1>10, <1>11, <1>12, <1>13 DEF Inv

(* The connect goroutine between its loops. *)
LEMMA ConnStep ==
  ASSUME Inv, NEW b \in Backend,
         StartConnect(b) \/ Connected(b) \/ StopConnect(b) \/ Disconnected(b)
  PROVE  Inv'
<1>1. /\ TypeOK
      /\ UNCHANGED <<draining, backends, nonDrainingAgentIDs, drainingAgentIDs, notify, sel, picked>>
  BY DEF Inv, StartConnect, Connected, StopConnect, Disconnected, storage
<1>2. Calls(b) \in Seq(Manager \X Ident)
  BY CallsLemma
<1>3. /\ conn' \in [Backend -> {"new", "adding", "up", "removing", "gone"}]
      /\ calls' \in [Backend -> Seq(Manager \X Ident)]
  <2>1. CASE StartConnect(b)
    BY <1>1, <1>2, <2>1 DEF TypeOK, StartConnect
  <2>2. CASE Connected(b)
    BY <1>1, <2>2 DEF TypeOK, Connected
  <2>3. CASE StopConnect(b)
    BY <1>1, <1>2, <2>3 DEF TypeOK, StopConnect
  <2>4. CASE Disconnected(b)
    BY <1>1, <2>4 DEF TypeOK, Disconnected
  <2>. QED  BY Zenon, <2>1, <2>2, <2>3, <2>4
<1>4. TypeOK'
  BY <1>1, <1>3, Zenon DEF TypeOK
<1>5. IndexInv' /\ NotifyInv'
  BY <1>1, Zenon DEF Inv, IndexInv, IndexAt, NotifyInv
<1>6. SelInv'
  BY SMTT(60), <1>1, SelKeeps
<1>. QED  BY <1>4, <1>5, <1>6, HeldConn DEF Inv

(* The connections, their connects and the calls they have left alone. *)
LEMMA HeldKeeps ==
  ASSUME HeldInv, UNCHANGED <<backends, conn, calls>>
  PROVE  HeldInv'
BY DEF HeldInv

(* A draining flag is set, and the first manager is to be told or none is. *)
LEMMA DrainStep ==
  ASSUME Inv, NEW b \in Backend, SetDraining(b) \/ Retire(b)
  PROVE  Inv'
<1>1. /\ TypeOK /\ draining' = [draining EXCEPT ![b] = TRUE]
      /\ notify' = notify \/ notify' = [notify EXCEPT ![b] = 1]
      /\ UNCHANGED <<backends, nonDrainingAgentIDs, drainingAgentIDs, conn, calls, sel, picked>>
  BY DEF Inv, SetDraining, Retire, storage
<1>2. /\ draining' \in [Backend -> BOOLEAN] /\ notify' \in [Backend -> Nat]
      /\ \A x \in Backend : draining[x] => draining'[x]
      /\ draining'[b]
      /\ \A x \in Backend : notify'[x] = notify[x] \/ (x = b /\ notify'[x] = 1)
  <2>1. notify' \in [Backend -> Nat]
    BY <1>1 DEF TypeOK
  <2>2. \A x \in Backend : notify'[x] = notify[x] \/ (x = b /\ notify'[x] = 1)
    BY <1>1 DEF TypeOK
  <2>3. draining \in [Backend -> BOOLEAN]
    BY <1>1 DEF TypeOK
  <2>4. draining' \in [Backend -> BOOLEAN]
    BY <1>1, <2>3, Zenon
  <2>5. draining'[b] /\ \A x \in Backend : draining[x] => draining'[x]
    BY <1>1, <2>3, Zenon
  <2>. QED  BY <2>1, <2>2, <2>4, <2>5, Zenon
<1>3. TypeOK'
  BY <1>1, <1>2, Zenon DEF TypeOK
<1>4. IndexInv'
  <2> SUFFICES ASSUME NEW m \in Manager
               PROVE  IndexAt(m, backends[m], nonDrainingAgentIDs[m],
                              drainingAgentIDs[m], draining', notify')
    BY <1>1, Zenon DEF IndexInv, IndexAt
  <2>1. /\ IndexAt(m, backends[m], nonDrainingAgentIDs[m], drainingAgentIDs[m], draining, notify)
        /\ nonDrainingAgentIDs[m] \in Seq(Ident) /\ drainingAgentIDs[m] \in Seq(Ident)
    BY <1>1, Zenon DEF Inv, IndexInv, TypeOK
  <2>2. 1 <= m
    BY StrategiesAssumption DEF Manager
  <2>3. \A id \in Ident : backends[m][id] # <<>> =>
          /\ draining[backends[m][id][1]] => draining'[backends[m][id][1]]
          /\ notify[backends[m][id][1]] <= m => notify'[backends[m][id][1]] <= m
    <3> TAKE id \in Ident
    <3>1. backends[m][id] \in Seq(Backend)
      BY <1>1 DEF TypeOK
    <3>2. backends[m][id] # <<>> => backends[m][id][1] \in Backend
      BY <3>1
    <3>. QED  BY <1>2, <2>2, <3>2, Zenon
  <2>. QED  BY <2>1, <2>3, PrimaryKeeps, Zenon
<1>5. NotifyInv'
  BY <1>2, Zenon DEF Inv, NotifyInv
<1>6. SelInv'
  BY SMTT(60), <1>1, SelKeeps
<1>. QED  BY <1>1, <1>3, <1>4, <1>5, <1>6, HeldKeeps DEF Inv

(* markBackendDraining: at this manager the agent is taken off the slice   *)
(* of usable ones if the connection is its primary, and no other agent has *)
(* that primary; at a later manager the connection may still be listed.    *)
LEMMA MarkStep ==
  ASSUME Inv, NEW b \in Backend, markBackendDraining(b)
  PROVE  Inv'
<1> DEFINE m == notify[b]
           id == AgentID[b]
           mark == /\ maintainRandomRoutingIndex(m) /\ IdentsOf(m, b) # <<>>
                   /\ backends[m][id] # <<>> /\ backends[m][id][1] = b
<1>1. /\ m \in Manager /\ Unlocked(m)
      /\ notify' = [notify EXCEPT ![b] = @ + 1]
      /\ UNCHANGED <<draining, backends, conn, calls, sel, picked>>
      /\ \/ mark /\ refreshIdentifierState(m, id, backends[m][id])
         \/ ~mark /\ UNCHANGED <<nonDrainingAgentIDs, drainingAgentIDs>>
  BY Zenon DEF markBackendDraining, Primary
<1>2. TypeOK /\ m \in Nat /\ id \in Ident
  <2>1. m \in Nat
    BY SMTT(60), <1>1, StrategiesAssumption DEF Manager
  <2>. QED  BY SMTT(60), <2>1, BackendAssumption DEF Inv
<1>3. /\ notify' \in [Backend -> Nat] /\ notify'[b] = m + 1
      /\ \A x \in Backend : x # b => notify'[x] = notify[x]
  BY SMTT(60), <1>1, <1>2 DEF TypeOK
<1>4. draining[b]
  <2>1. m # 0
    BY <1>1, StrategiesAssumption DEF Manager
  <2>. QED  BY <2>1 DEF Inv, NotifyInv
<1>. HIDE DEF m, id
<1>5. \A x \in Manager, j \in Ident :
        /\ backends[x][j] \in Seq(Backend)
        /\ backends[x][j] # <<>> =>
             backends[x][j][1] \in Backend /\ backends[x][j][1] \in Range(backends[x][j])
  <2> TAKE x \in Manager, j \in Ident
  <2>1. backends[x][j] \in Seq(Backend)
    BY <1>2 DEF TypeOK
  <2>2. backends[x][j] # <<>> => backends[x][j][1] \in Range(backends[x][j])
    BY <2>1, ElementsLemma, Zenon
  <2>3. Range(backends[x][j]) \subseteq Backend
    BY <2>1, ElementsLemma, Zenon
  <2>. QED  BY <2>1, <2>2, <2>3, Zenon
<1>6. \A j \in Ident : /\ maintainRandomRoutingIndex(m)
                       /\ backends[m][j] # <<>> /\ backends[m][j][1] = b
                       => j = id /\ mark
  <2> SUFFICES ASSUME NEW j \in Ident, maintainRandomRoutingIndex(m),
                      backends[m][j] # <<>>, backends[m][j][1] = b
               PROVE  j = id /\ mark
    BY Zenon
  <2>1. b \in Range(backends[m][j])
    BY <1>1, <1>5, Zenon
  <2>2. j \in Range(IdentsOf(m, b))
    BY Zenon, <1>1, <2>1 DEF Inv, HeldInv
  <2>3. j = AgentID[b] /\ IdentsOf(m, b) # <<>>
    BY <1>1, <2>2, IdentsLemma, Zenon
  <2>. QED  BY <2>3, Zenon DEF id
<1>7. /\ nonDrainingAgentIDs' \in [Manager -> Seq(Ident)]
      /\ drainingAgentIDs' \in [Manager -> Seq(Ident)]
      /\ IndexAt(m, backends[m], nonDrainingAgentIDs'[m], drainingAgentIDs'[m], draining, notify)
      /\ mark => id \notin Range(nonDrainingAgentIDs'[m])
      /\ \A x \in Manager : x # m => /\ nonDrainingAgentIDs'[x] = nonDrainingAgentIDs[x]
                                     /\ drainingAgentIDs'[x] = drainingAgentIDs[x]
  <2>1. CASE mark /\ refreshIdentifierState(m, id, backends[m][id])
    <3>1. [backends[m] EXCEPT ![id] = backends[m][id]] = backends[m]
      BY SMTT(60), <1>1, <1>2 DEF TypeOK
    <3>2. backends[m][id] \in Seq(Backend)
      BY <1>1, <1>2, <1>5
    <3>3. maintainRandomRoutingIndex(m)
      BY SMTT(60), <2>1
    <3>4. /\ nonDrainingAgentIDs' \in [Manager -> Seq(Ident)]
          /\ drainingAgentIDs' \in [Manager -> Seq(Ident)]
          /\ IndexAt(m, [backends[m] EXCEPT ![id] = backends[m][id]], nonDrainingAgentIDs'[m],
                     drainingAgentIDs'[m], draining, notify)
          /\ backends[m][id] # <<>> /\ draining[backends[m][id][1]] =>
               id \notin Range(nonDrainingAgentIDs'[m])
          /\ \A x \in Manager : x # m => /\ nonDrainingAgentIDs'[x] = nonDrainingAgentIDs[x]
                                         /\ drainingAgentIDs'[x] = drainingAgentIDs[x]
      BY SMTT(60), <1>1, <1>2, <2>1, <3>2, <3>3, RefreshLemma
    <3>. QED  BY <1>4, <2>1, <3>1, <3>4, Zenon
  <2>2. CASE ~mark /\ UNCHANGED <<nonDrainingAgentIDs, drainingAgentIDs>>
    BY <1>1, <1>2, <2>2, Zenon DEF Inv, IndexInv, TypeOK
  <2>. QED  BY <1>1, <2>1, <2>2, Zenon
<1>8. TypeOK'
  BY <1>1, <1>2, <1>3, <1>7, Zenon DEF TypeOK
<1>9. IndexInv'
  <2> SUFFICES ASSUME NEW x \in Manager
               PROVE  IndexAt(x, backends[x], nonDrainingAgentIDs'[x],
                              drainingAgentIDs'[x], draining, notify')
    BY <1>1, Zenon DEF IndexInv, IndexAt
  <2>1. /\ IndexAt(x, backends[x], nonDrainingAgentIDs'[x], drainingAgentIDs'[x], draining, notify)
        /\ nonDrainingAgentIDs'[x] \in Seq(Ident) /\ drainingAgentIDs'[x] \in Seq(Ident)
    BY <1>7, Zenon DEF Inv, IndexInv
  <2>2. maintainRandomRoutingIndex(x) => \A j \in Ident : backends[x][j] # <<>> =>
          /\ draining[backends[x][j][1]] => draining[backends[x][j][1]]
          /\ notify[backends[x][j][1]] <= x /\ j \in Range(nonDrainingAgentIDs'[x]) =>
               notify'[backends[x][j][1]] <= x
    <3> SUFFICES ASSUME maintainRandomRoutingIndex(x), NEW j \in Ident, backends[x][j] # <<>>,
                        notify[backends[x][j][1]] <= x, j \in Range(nonDrainingAgentIDs'[x])
                 PROVE  notify'[backends[x][j][1]] <= x
      BY Zenon
    <3>1. backends[x][j][1] \in Backend
      BY <1>5, Zenon
    <3>2. CASE backends[x][j][1] # b
      BY <1>3, <3>1, <3>2, Zenon
    <3>3. CASE backends[x][j][1] = b
      <4>1. x # m
        BY <1>6, <1>7, <3>3, Zenon
      <4>2. m <= x
        BY <3>3 DEF m
      <4>3. x \in Nat
        BY StrategiesAssumption DEF Manager
      <4>4. m + 1 <= x
        BY <1>2, <4>1, <4>2, <4>3
      <4>. QED  BY <1>3, <3>3, <4>4, Zenon
    <3>. QED  BY <3>2, <3>3
  <2>. QED  BY <2>1, <2>2, PrimaryKeeps, Zenon
<1>10. NotifyInv'
  BY <1>1, <1>3, <1>4, Zenon DEF Inv, NotifyInv
<1>11. SelInv'
  <2>1. sel.pc \in {"draw", "second"} => sel.m \in Manager /\ sel.m # m
    BY <1>1 DEF Inv, SelInv, Unlocked
  <2>. QED  BY ZenonT(60), <1>1, <1>7, <2>1, SelKeeps
<1>. QED  BY SMTT(60), <1>1, <1>8, <1>9, <1>10, <1>11, HeldKeeps DEF Inv

-----------------------------------------------------------------------------
(* Selection *)

(* The entries of the two slices of a manager have a primary. *)
LEMMA ListedLemma ==
  ASSUME Inv, NEW m \in Manager
  PROVE  /\ \A i \in DOMAIN nonDrainingAgentIDs[m] :
              nonDrainingAgentIDs[m][i] \in Range(nonDrainingAgentIDs[m])
         /\ \A i \in DOMAIN drainingAgentIDs[m] :
              drainingAgentIDs[m][i] \in Range(drainingAgentIDs[m])
         /\ \A id \in Range(nonDrainingAgentIDs[m]) \cup Range(drainingAgentIDs[m]) :
              id \in Ident /\ backends[m][id] # <<>> /\ Primary(m, id) \in Backend
<1>1. TypeOK
  BY DEF Inv
<1>2. \A id \in Ident : backends[m][id] \in Seq(Backend)
  BY <1>1 DEF TypeOK
<1>3. \A id \in Ident : backends[m][id] # <<>> => Primary(m, id) \in Backend
  BY <1>2 DEF Primary
<1>4. \A id \in Range(nonDrainingAgentIDs[m]) \cup Range(drainingAgentIDs[m]) :
        id \in Ident /\ backends[m][id] # <<>>
  BY DEF Inv, IndexInv, IndexAt
<1>5. /\ \A i \in DOMAIN nonDrainingAgentIDs[m] :
           nonDrainingAgentIDs[m][i] \in Range(nonDrainingAgentIDs[m])
      /\ \A i \in DOMAIN drainingAgentIDs[m] :
           drainingAgentIDs[m][i] \in Range(drainingAgentIDs[m])
  BY Zenon DEF Range
<1>. QED  BY <1>3, <1>4, <1>5, Zenon

(* What a selection may do to the storages: nothing, or a refresh of an    *)
(* agent by its own connections.                                           *)
LEMMA SelectStorage ==
  ASSUME Inv, UNCHANGED <<draining, backends, conn, calls, notify>>,
         sel' \in [pc : {"idle", "next", "draw", "second"}, m : Nat,
                   host : Ident \cup {NoBackend}, first : Ident \cup {NoBackend}],
         picked' \in Backend \cup {NoBackend},
         \/ UNCHANGED <<nonDrainingAgentIDs, drainingAgentIDs>>
         \/ \E m \in Manager, id \in Ident :
              /\ maintainRandomRoutingIndex(m)
              /\ refreshIdentifierState(m, id, backends[m][id])
  PROVE  TypeOK' /\ HeldInv' /\ IndexInv' /\ NotifyInv'
<1>1. TypeOK
  BY DEF Inv
<1>2. HeldInv' /\ NotifyInv'
  BY HeldKeeps, Zenon DEF Inv, NotifyInv
<1>3. CASE UNCHANGED <<nonDrainingAgentIDs, drainingAgentIDs>>
  BY <1>1, <1>2, <1>3, Zenon DEF Inv, IndexInv, IndexAt, TypeOK
<1>4. ASSUME NEW m \in Manager, NEW id \in Ident, maintainRandomRoutingIndex(m),
             refreshIdentifierState(m, id, backends[m][id])
      PROVE  TypeOK' /\ IndexInv'
  <2>1. [backends[m] EXCEPT ![id] = backends[m][id]] = backends[m]
    BY <1>1 DEF TypeOK
  <2>2. backends[m][id] \in Seq(Backend)
    BY SMTT(60), <1>1 DEF TypeOK
  <2>3. /\ nonDrainingAgentIDs' \in [Manager -> Seq(Ident)]
        /\ drainingAgentIDs' \in [Manager -> Seq(Ident)]
        /\ IndexAt(m, [backends[m] EXCEPT ![id] = backends[m][id]], nonDrainingAgentIDs'[m],
                   drainingAgentIDs'[m], draining, notify)
        /\ \A x \in Manager : x # m => /\ nonDrainingAgentIDs'[x] = nonDrainingAgentIDs[x]
                                       /\ drainingAgentIDs'[x] = drainingAgentIDs[x]
    BY <1>4, <2>2, RefreshLemma
  <2>4. TypeOK'
    BY <1>1, <2>3, Zenon DEF TypeOK
  <2>5. ASSUME NEW x \in Manager
        PROVE  IndexAt(x, backends[x], nonDrainingAgentIDs'[x], drainingAgentIDs'[x],
                       draining, notify)
    BY <2>1, <2>3, Zenon DEF Inv, IndexInv
  <2>. QED  BY <2>4, <2>5, Zenon DEF IndexInv, IndexAt
<1>. QED  BY <1>2, <1>3, <1>4, Zenon

(* A manager that finds nothing passes the selection on to the next. *)
LEMMA NotFoundLemma ==
  ASSUME Inv, NotFound
  PROVE  /\ sel' \in [pc : {"idle", "next", "draw", "second"}, m : Nat,
                      host : Ident \cup {NoBackend}, first : Ident \cup {NoBackend}]
         /\ sel'.pc = "next" /\ sel'.host = sel.host
         /\ picked' \in Backend \cup {NoBackend}
<1>1. TypeOK
  BY DEF Inv
<1>2. /\ sel.m \in Nat /\ sel.host \in Ident \cup {NoBackend}
      /\ sel.first \in Ident \cup {NoBackend} /\ picked \in Backend \cup {NoBackend}
  BY <1>1 DEF TypeOK
<1>3. sel' = [pc |-> "next", m |-> sel.m + 1, host |-> sel.host, first |-> sel.first]
  BY Zenon, <1>1 DEF NotFound, TypeOK
<1>4. picked' = picked
  BY DEF NotFound
<1>. QED  BY <1>2, <1>3, <1>4

(* Returning a backend, or none, ends the selection. *)
LEMMA ReturnLemma ==
  ASSUME NEW b \in Backend \cup {NoBackend}, Return(b)
  PROVE  /\ sel' \in [pc : {"idle", "next", "draw", "second"}, m : Nat,
                      host : Ident \cup {NoBackend}, first : Ident \cup {NoBackend}]
         /\ sel'.pc = "idle" /\ picked' \in Backend \cup {NoBackend}
BY DEF Return, Idle

(* A selection starts, asks a host's storage, or gives up. *)
LEMMA LookupStep ==
  ASSUME Inv, \/ \E h \in Ident : getBackend(h)
              \/ DestHostBackend \/ GetRandomBackend \/ NoneFound
  PROVE  Inv'
<1> DEFINE SelType == [pc : {"idle", "next", "draw", "second"}, m : Nat,
                       host : Ident \cup {NoBackend}, first : Ident \cup {NoBackend}]
<1>1. TypeOK /\ SelInv
  BY DEF Inv
<1>2. UNCHANGED <<draining, backends, nonDrainingAgentIDs, drainingAgentIDs, conn, calls, notify>>
  BY Zenon DEF getBackend, DestHostBackend, GetRandomBackend, NoneFound, storage
<1>3. Registered(sel.m)' = {id \in Ident : backends[sel'.m][id] # <<>>}
  BY <1>2, Zenon DEF Registered
<1> DEFINE Good == /\ sel' \in SelType /\ picked' \in Backend \cup {NoBackend}
                   /\ sel'.pc # "idle" => sel'.host \in Ident
                   /\ sel'.pc \in {"draw", "second"} =>
                        /\ sel'.pc = "draw" /\ sel'.m = sel.m /\ sel.m \in Manager
                        /\ maintainRandomRoutingIndex(sel.m) /\ Registered(sel.m) # {}
<1>4. Good
  <2>1. ASSUME NEW h \in Ident, getBackend(h) PROVE Good
    BY <2>1 DEF getBackend
  <2>2. CASE NoneFound
    BY <2>2, ReturnLemma DEF NoneFound
  <2>3. CASE DestHostBackend
    <3> DEFINE bs == backends[sel.m][sel.host]
    <3>1. sel.m \in Manager /\ sel.host \in Ident
      BY Zenon, <1>1, <2>3 DEF DestHostBackend, SelInv
    <3>2. bs \in Seq(Backend)
      BY <1>1, <3>1 DEF TypeOK
    <3>3. \/ \E i \in DOMAIN bs : Return(bs[i])
          \/ bs # <<>> /\ Return(bs[1])
          \/ NotFound
      BY <2>3, Zenon DEF DestHostBackend
    <3> HIDE DEF bs
    <3>4. \/ \E x \in Backend : Return(x)
          \/ NotFound
      BY <3>2, <3>3
    <3>5. CASE NotFound
      BY <1>1, <2>3, <3>1, <3>5, NotFoundLemma
    <3>6. ASSUME NEW x \in Backend, Return(x) PROVE Good
      BY <3>6, ReturnLemma
    <3>. QED  BY <3>4, <3>5, <3>6, Zenon
  <2>4. CASE GetRandomBackend
    <3>1. sel.m \in Manager /\ sel.pc = "next" /\ sel.host \in Ident /\ maintainRandomRoutingIndex(sel.m)
      BY <1>1, <2>4 DEF GetRandomBackend, SelInv
    <3>2. CASE NotFound
      BY <3>1, <3>2, NotFoundLemma
    <3>3. CASE Registered(sel.m) # {} /\ sel' = [sel EXCEPT !.pc = "draw"] /\ UNCHANGED picked
      <4>1. sel \in SelType /\ picked \in Backend \cup {NoBackend}
        BY <1>1 DEF TypeOK
      <4>2. /\ sel' \in SelType /\ sel'.pc = "draw" /\ sel'.m = sel.m /\ sel'.host = sel.host
        BY SMTT(60), <3>3, <4>1
      <4>. QED  BY SMTT(60), <3>1, <3>3, <4>1, <4>2
    <3>. QED  BY <2>4, <3>2, <3>3, Zenon DEF GetRandomBackend
  <2>. QED  BY <2>1, <2>2, <2>3, <2>4, Zenon
<1>5. TypeOK' /\ HeldInv' /\ IndexInv' /\ NotifyInv'
  BY SMTT(60), <1>2, <1>4, SelectStorage
<1>6. SelInv'
  <2>1. sel'.pc \in {"draw", "second"} =>
          sel'.pc = "draw" /\ sel'.m \in Manager /\ maintainRandomRoutingIndex(sel'.m)
    BY <1>4, Zenon
  <2>2. sel'.pc \in {"draw", "second"} => Registered(sel.m)' # {}
    BY <1>3, <1>4, Zenon DEF Registered
  <2>. QED  BY <1>4, <2>1, <2>2 DEF SelInv, maintainRandomRoutingIndex
<1>. QED  BY <1>5, <1>6 DEF Inv

(* The redraw loop of GetRandomBackend. *)
LEMMA DrawStep ==
  ASSUME Inv, DrawFirst \/ DrawSecond \/ DrawDraining
  PROVE  Inv'
<1> DEFINE SelType == [pc : {"idle", "next", "draw", "second"}, m : Nat,
                       host : Ident \cup {NoBackend}, first : Ident \cup {NoBackend}]
           m == sel.m
           up == nonDrainingAgentIDs[m]
           down == drainingAgentIDs[m]
           keep == UNCHANGED <<nonDrainingAgentIDs, drainingAgentIDs>>
<1>1. TypeOK /\ SelInv /\ sel \in SelType /\ picked \in Backend \cup {NoBackend}
  BY Zenon DEF Inv, TypeOK
<1>2. UNCHANGED <<draining, backends, conn, calls, notify>>
  <2>1. CASE DrawFirst
    BY Zenon, <2>1 DEF DrawFirst
  <2>2. CASE DrawSecond
    BY Zenon, <2>2 DEF DrawSecond
  <2>3. CASE DrawDraining
    BY Zenon, <2>3 DEF DrawDraining, storage
  <2>. QED  BY Zenon, <2>1, <2>2, <2>3
<1>3. sel.pc \in {"draw", "second"}
  BY Zenon DEF DrawFirst, DrawSecond, DrawDraining
<1>4. /\ m \in Manager /\ maintainRandomRoutingIndex(m) /\ Registered(m) # {}
      /\ sel.host \in Ident
  BY <1>1, <1>3 DEF SelInv
<1>5. /\ \A i \in DOMAIN up : up[i] \in Range(up)
      /\ \A i \in DOMAIN down : down[i] \in Range(down)
      /\ \A id \in Range(up) \cup Range(down) : id \in Ident /\ Primary(m, id) \in Backend
  BY <1>4, ListedLemma, Zenon
<1> HIDE DEF m
<1> DEFINE Returned == keep /\ \E x \in Backend : Return(x)
           Stale == /\ \E id \in Ident : refreshIdentifierState(m, id, backends[m][id])
                    /\ UNCHANGED picked
                    /\ sel' = sel \/ sel' = [sel EXCEPT !.pc = "draw", !.first = NoBackend]
           First == /\ keep /\ UNCHANGED picked
                    /\ \E id \in Range(up) : sel' = [sel EXCEPT !.pc = "second", !.first = id]
<1>6. \/ Returned
      \/ Stale /\ (sel' = sel => sel.pc = "draw")
      \/ First
      \/ keep /\ NotFound
  <2>1. CASE DrawFirst
    <3>1. PICK i \in DOMAIN up :
            \/ refreshIdentifierState(m, up[i], backends[m][up[i]]) /\ UNCHANGED <<sel, picked>>
            \/ Return(Primary(m, up[i])) /\ keep
            \/ sel' = [sel EXCEPT !.pc = "second", !.first = up[i]] /\ keep /\ UNCHANGED picked
      BY <2>1, Zenon DEF DrawFirst, m
    <3>2. up[i] \in Range(up) /\ up[i] \in Ident /\ Primary(m, up[i]) \in Backend
      BY <1>5, Zenon
    <3>3. sel.pc = "draw"
      BY Zenon, <2>1 DEF DrawFirst
    <3>. QED  BY <3>1, <3>2, <3>3, Zenon
  <2>2. CASE DrawSecond
    <3>1. PICK i \in DOMAIN up :
            \/ /\ refreshIdentifierState(m, up[i], backends[m][up[i]]) /\ UNCHANGED picked
               /\ sel' = [sel EXCEPT !.pc = "draw", !.first = NoBackend]
            \/ (\E x \in {up[i], sel.first} : Return(Primary(m, x))) /\ keep
      BY <2>2, Zenon DEF DrawSecond, m
    <3>2. up[i] \in Range(up) /\ sel.first \in Range(up) /\ sel.pc = "second"
      BY <1>1, <1>5, <2>2, Zenon DEF DrawSecond, SelInv, m
    <3>3. \A x \in {up[i], sel.first} : x \in Ident /\ Primary(m, x) \in Backend
      BY <1>5, <3>2, Zenon
    <3>4. [sel EXCEPT !.pc = "draw", !.first = NoBackend].pc = "draw"
      BY <1>1
    <3>5. sel' = [sel EXCEPT !.pc = "draw", !.first = NoBackend] => sel' # sel
      BY Zenon, <3>2, <3>4
    <3>. QED  BY <3>1, <3>3, <3>5, Zenon
  <2>3. CASE DrawDraining
    <3>1. keep /\ (NotFound \/ \E i \in DOMAIN down : Return(Primary(m, down[i])))
      BY <2>3, Zenon DEF DrawDraining, storage, m
    <3>. QED  BY <1>5, <3>1, Zenon
  <2>. QED  BY <2>1, <2>2, <2>3, Zenon
<1> DEFINE Good == /\ sel' \in SelType /\ picked' \in Backend \cup {NoBackend}
                   /\ keep \/ \E id \in Ident : refreshIdentifierState(m, id, backends[m][id])
                   /\ sel'.pc # "idle" => sel'.host \in Ident
                   /\ sel'.pc \in {"draw", "second"} => sel'.m = m
                   /\ sel'.pc = "second" => sel'.first \in Range(up) /\ keep
<1>7. Good
  <2>1. CASE Returned
    <3>1. PICK x \in Backend : Return(x)
      BY <2>1, Zenon
    <3>2. sel' \in SelType /\ sel'.pc = "idle" /\ picked' \in Backend \cup {NoBackend}
      BY <3>1, ReturnLemma
    <3>. QED  BY <2>1, <3>2
  <2>2. CASE Stale /\ (sel' = sel => sel.pc = "draw")
    <3>1. sel' \in SelType /\ sel'.pc = "draw" /\ sel'.m = m /\ sel'.host = sel.host
      <4>1. CASE sel' = sel
        BY <1>1, <2>2, <4>1 DEF m
      <4>2. CASE sel' = [sel EXCEPT !.pc = "draw", !.first = NoBackend]
        <5>1. sel' = [pc |-> "draw", m |-> sel.m, host |-> sel.host, first |-> NoBackend]
          BY Zenon, <1>1, <4>2
        <5>2. sel.m \in Nat /\ sel.host \in Ident \cup {NoBackend}
          BY <1>1
        <5>. QED  BY <5>1, <5>2 DEF m
      <4>. QED  BY <2>2, <4>1, <4>2
    <3>2. picked' \in Backend \cup {NoBackend}
      BY <1>1, <2>2, Zenon
    <3>. QED  BY <1>4, <2>2, <3>1, <3>2
  <2>3. CASE First
    <3>1. PICK id \in Range(up) : sel' = [sel EXCEPT !.pc = "second", !.first = id]
      BY <2>3, Zenon
    <3>2. id \in Ident
      BY <1>5, Zenon
    <3>3. sel' = [pc |-> "second", m |-> sel.m, host |-> sel.host, first |-> id]
      BY Zenon, <1>1, <3>1
    <3>4. sel.m \in Nat /\ sel.host \in Ident \cup {NoBackend}
      BY <1>1
    <3>5. sel' \in SelType /\ sel'.m = m /\ sel'.host = sel.host /\ sel'.first = id
      BY <3>2, <3>3, <3>4 DEF m
    <3>6. picked' \in Backend \cup {NoBackend} /\ keep
      BY <1>1, <2>3, Zenon
    <3>. QED  BY <1>4, <3>1, <3>5, <3>6, Zenon
  <2>4. CASE keep /\ NotFound
    <3>1. /\ sel' \in SelType /\ sel'.pc = "next" /\ sel'.host = sel.host
          /\ picked' \in Backend \cup {NoBackend}
      BY SMTT(60), <2>4, NotFoundLemma
    <3>. QED  BY <1>4, <2>4, <3>1
  <2>. QED  BY <1>6, <2>1, <2>2, <2>3, <2>4, Zenon
<1>8. TypeOK' /\ HeldInv' /\ IndexInv' /\ NotifyInv'
  BY SMTT(60), <1>2, <1>4, <1>7, SelectStorage
<1>9. SelInv'
  <2>1. sel'.pc \in {"draw", "second"} =>
          sel'.m \in Manager /\ maintainRandomRoutingIndex(sel'.m)
    BY <1>4, <1>7, Zenon
  <2>2. sel'.pc \in {"draw", "second"} => Registered(sel.m)' # {}
    BY <1>2, <1>4, <1>7, Zenon DEF Registered
  <2>3. sel'.pc = "second" => sel'.first \in Range(nonDrainingAgentIDs'[sel'.m])
    <3>1. sel'.pc = "second" => sel'.m = m
      BY <1>7
    <3>. QED  BY <1>7, <3>1, Zenon
  <2>. QED  BY <1>7, <2>1, <2>2, <2>3 DEF SelInv, maintainRandomRoutingIndex
<1>. QED  BY <1>8, <1>9 DEF Inv

-----------------------------------------------------------------------------
(* The theorems *)

(* Inv is inductive: the storages start empty, and every critical section  *)
(* of addBackend, removeBackend, markBackendDraining and GetRandomBackend  *)
(* keeps it.                                                               *)
THEOREM Invariance == Spec => []Inv
<1>1. Init => Inv
  <2> SUFFICES ASSUME Init PROVE Inv
    OBVIOUS
  <2> DEFINE none == <<>>
  <2>1. none \in Seq(Backend) /\ none \in Seq(Ident) /\ none \in Seq(Manager \X Ident)
    OBVIOUS
  <2>2. IsInjective(none) /\ Range(none) = {}
    BY DEF IsInjective, Range
  <2>3. TypeOK
    BY SMTT(60), <2>1 DEF Init, TypeOK, Idle
  <2> HIDE DEF none
  <2>4. /\ \A m \in Manager, id \in Ident : backends[m][id] = none
        /\ \A m \in Manager : nonDrainingAgentIDs[m] = none /\ drainingAgentIDs[m] = none
        /\ \A b \in Backend : calls[b] = none /\ conn[b] = "new" /\ notify[b] = 0
        /\ sel.pc = "idle"
    BY SMTT(60) DEF Init, Idle, none
  <2>5. HeldInv
    BY <2>2, <2>4 DEF HeldInv
  <2>6. \A m \in Manager : {id \in Ident : backends[m][id] # <<>>} = {}
    BY <2>4 DEF none
  <2>7. IndexInv
    BY <2>2, <2>4, <2>6, Zenon DEF IndexInv, IndexAt
  <2>8. NotifyInv /\ SelInv
    BY <2>4 DEF NotifyInv, SelInv
  <2>. QED  BY SMTT(60), <2>3, <2>5, <2>7, <2>8 DEF Inv
<1>2. Inv /\ [Next]_vars => Inv'
  <2> SUFFICES ASSUME Inv, [Next]_vars PROVE Inv'
    OBVIOUS
  <2>1. CASE UNCHANGED vars
    <3>1. TypeOK' /\ HeldInv' /\ NotifyInv'
      BY <2>1, HeldKeeps, Zenon DEF Inv, TypeOK, NotifyInv, vars
    <3>2. IndexInv'
      BY <2>1, Zenon DEF Inv, IndexInv, IndexAt, vars
    <3>3. SelInv'
      BY <2>1, SelKeeps DEF vars
    <3>. QED  BY <3>1, <3>2, <3>3 DEF Inv
  <2>2. ASSUME NEW b \in Backend, addBackend(b) PROVE Inv'
    BY <2>2, AddStep
  <2>3. ASSUME NEW b \in Backend, removeBackend(b) PROVE Inv'
    BY <2>3, RemoveStep
  <2>4. ASSUME NEW b \in Backend,
               StartConnect(b) \/ Connected(b) \/ StopConnect(b) \/ Disconnected(b)
        PROVE  Inv'
    BY <2>4, ConnStep
  <2>5. ASSUME NEW b \in Backend, SetDraining(b) \/ Retire(b) PROVE Inv'
    BY <2>5, DrainStep
  <2>6. ASSUME NEW b \in Backend, markBackendDraining(b) PROVE Inv'
    BY <2>6, MarkStep
  <2>7. CASE (\E h \in Ident : getBackend(h)) \/ DestHostBackend \/ GetRandomBackend \/ NoneFound
    BY <2>7, LookupStep, Zenon
  <2>8. CASE DrawFirst \/ DrawSecond \/ DrawDraining
    BY <2>8, DrawStep, Zenon
  <2>. QED  BY <2>1, <2>2, <2>3, <2>4, <2>5, <2>6, <2>7, <2>8, Zenon DEF Next, Select
<1>. QED  BY <1>1, <1>2, PTL DEF Spec

(* The state of DefaultBackendStorage and its callers is well typed. *)
THEOREM TypeCorrect == Spec => []TypeOK
<1>1. Inv => TypeOK
  BY DEF Inv
<1>. QED  BY <1>1, Invariance, PTL

(* Every registered agent is in exactly one of the two slices of the       *)
(* candidate index, once, and one that is listed as draining has a         *)
(* draining primary, whatever is added, removed and drained concurrently.  *)
THEOREM IndexSoundness == Spec => []IndexIsSound
<1>1. Inv => IndexIsSound
  <2> SUFFICES ASSUME Inv, NEW m \in Manager
               PROVE  /\ maintainRandomRoutingIndex(m) =>
                           /\ IsInjective(nonDrainingAgentIDs[m]) /\ IsInjective(drainingAgentIDs[m])
                           /\ Range(nonDrainingAgentIDs[m]) \cap Range(drainingAgentIDs[m]) = {}
                           /\ Range(nonDrainingAgentIDs[m]) \cup Range(drainingAgentIDs[m]) =
                                Registered(m)
                      /\ \A id \in Range(drainingAgentIDs[m]) :
                           backends[m][id] # <<>> /\ draining[Primary(m, id)]
    BY Zenon DEF IndexIsSound, IndexPartition, DrainingListIsDraining
  <2>1. IndexAt(m, backends[m], nonDrainingAgentIDs[m], drainingAgentIDs[m], draining, notify)
    BY DEF Inv, IndexInv
  <2>2. \A id \in Range(drainingAgentIDs[m]) : backends[m][id] # <<>>
    BY ListedLemma, Zenon
  <2>. QED  BY <2>1, <2>2, Zenon DEF IndexAt, Registered, Primary
<1>. QED  BY <1>1, Invariance, PTL

(* A connection that markBackendDraining has announced to a manager is     *)
(* never again the primary of an agent listed there as usable, although    *)
(* connections of the agent come and go and the announcement is made to    *)
(* one manager after the other.                                            *)
THEOREM NotifiedStaysOff == Spec => []NotifiedIsNotRouted
<1>1. Inv => NotifiedIsNotRouted
  <2> SUFFICES ASSUME Inv, NEW m \in Manager, NEW id \in Range(nonDrainingAgentIDs[m])
               PROVE  backends[m][id] # <<>> /\ notify[Primary(m, id)] <= m
    BY Zenon DEF NotifiedIsNotRouted
  <2>1. IndexAt(m, backends[m], nonDrainingAgentIDs[m], drainingAgentIDs[m], draining, notify)
    BY DEF Inv, IndexInv
  <2>. QED  BY <2>1, ListedLemma, Zenon DEF IndexAt, Primary
<1>. QED  BY <1>1, Invariance, PTL

(* GetRandomBackend falls back on a draining agent only when the primary   *)
(* of every registered agent is draining, and then it has one to return.   *)
THEOREM LastResort == Spec => []FallbackIsLastResort
<1>1. Inv => FallbackIsLastResort
  <2> SUFFICES ASSUME Inv, sel.pc = "draw", nonDrainingAgentIDs[sel.m] = <<>>
               PROVE  /\ drainingAgentIDs[sel.m] # <<>>
                      /\ \A id \in Registered(sel.m) : draining[Primary(sel.m, id)]
    BY Zenon DEF FallbackIsLastResort
  <2> DEFINE m == sel.m
  <2>1. m \in Manager /\ maintainRandomRoutingIndex(m) /\ Registered(m) # {}
    BY DEF Inv, SelInv
  <2>2. nonDrainingAgentIDs[m] \in Seq(Ident) /\ drainingAgentIDs[m] \in Seq(Ident)
    BY SMTT(60), <2>1 DEF Inv, TypeOK
  <2> HIDE DEF m
  <2>3. IndexAt(m, backends[m], nonDrainingAgentIDs[m], drainingAgentIDs[m], draining, notify)
    BY <2>1 DEF Inv, IndexInv
  <2>4. Range(nonDrainingAgentIDs[m]) = {}
    BY <2>2, ElementsLemma, Zenon DEF m
  <2>5. Range(drainingAgentIDs[m]) = Registered(m)
    BY <2>1, <2>3, <2>4 DEF IndexAt, Registered
  <2>6. drainingAgentIDs[m] # <<>>
    BY <2>1, <2>2, <2>5, ElementsLemma, Zenon
  <2>7. \A id \in Registered(m) : draining[Primary(m, id)]
    BY <2>3, <2>5, Zenon DEF IndexAt, Primary
  <2>. QED  BY <2>6, <2>7 DEF m
<1>. QED  BY <1>1, Invariance, PTL

(* No storage holds a connection before its connect has begun or after it  *)
(* has returned; in between, from the end of addBackend to the start of    *)
(* removeBackend, each holds it once under each of its identifiers.        *)
THEOREM RegistrationIsExact == Spec => []RegisteredWhileUp
<1>1. Inv => RegisteredWhileUp
  <2> SUFFICES ASSUME Inv, NEW b \in Backend, NEW m \in Manager, NEW id \in Ident
               PROVE  LET held == {i \in DOMAIN backends[m][id] : backends[m][id][i] = b}
                          mine == id \in Range(IdentsOf(m, b))
                      IN  /\ conn[b] \in {"new", "gone"} => held = {}
                          /\ conn[b] = "up" => (mine <=> held # {})
                          /\ \A i, j \in held : i = j
    BY Zenon DEF RegisteredWhileUp
  <2> DEFINE bs == backends[m][id]
             held == {i \in DOMAIN bs : bs[i] = b}
             mine == id \in Range(IdentsOf(m, b))
  <2>1. IsInjective(bs)
    BY DEF Inv, HeldInv
  <2>2. /\ b \in Range(bs) => mine /\ conn[b] \in {"adding", "up", "removing"}
        /\ conn[b] = "up" /\ mine => b \in Range(bs)
    BY Zenon DEF Inv, HeldInv
  <2> HIDE DEF bs
  <2>3. held # {} <=> b \in Range(bs)
    BY Zenon DEF Range
  <2>4. \A i, j \in held : i = j
    BY <2>1, Zenon DEF IsInjective
  <2>5. conn[b] \in {"new", "gone"} => b \notin Range(bs)
    BY <2>2
  <2>. QED  BY <2>2, <2>3, <2>4, <2>5, Zenon DEF bs
<1>. QED  BY <1>1, Invariance, PTL
=============================================================================
