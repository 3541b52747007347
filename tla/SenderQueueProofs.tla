-------------------------- MODULE SenderQueueProofs --------------------------
(***************************************************************************)
(* Theorems of Sender about the requests: which are kept, which have their *)
(* final result, and in which order they get it.                           *)
(***************************************************************************)
EXTENDS SenderProofs

------------------------------------------------------------------------------
(* The invariant *)

\* The request of this transaction has its final result.
Answered(t) == final[t] # "none"

InReqs(t) == \E i \in DOMAIN reqs : reqs[i] = t

\* The link's goroutine relays a transaction that nobody else has.
LinkInv ==
    /\ db <= sent
    /\ \A t \in accepted : t <= sent
    /\ lpc \in {"add", "put", "undo"} => cur = sent /\ cur \notin accepted
    /\ lpc = "add" => \A i \in DOMAIN reqs : reqs[i] < cur
    /\ lpc = "boot" => reqs = <<>> /\ accepted = {}
    /\ \A t \in Tx : t > sent => ~Answered(t)
    /\ lpc = "add" => ~Answered(cur)

\* Requests stand in the order they were sent.
ReqsAscend ==
    \A i \in DOMAIN reqs :
        /\ reqs[i] <= sent
        /\ \A j \in 1 .. i - 1 : reqs[j] < reqs[i]

SameId(t, u) == txs[t].id = txs[u].id

\* The first p requests have their final result, and f finds for each of them a
\* finished one of the same id that _removeRequests has yet to look at.
Matches(rs, fs, p, f) ==
    /\ p \in 0 .. Len(rs)
    /\ f \in [1 .. p -> 1 .. Len(fs)]
    /\ \A i \in 1 .. p : \A j \in 1 .. i - 1 : f[j] < f[i]
    /\ \A i \in 1 .. p : Answered(rs[i]) /\ SameId(rs[i], fs[f[i]])
    /\ \A i \in p + 1 .. Len(rs) : ~Answered(rs[i])

Matched(rs, fs) == \E p \in 0 .. Len(rs) : \E f \in [1 .. p -> 1 .. Len(fs)] : Matches(rs, fs, p, f)

\* Where the handler is in the requests.
HandlerInv ==
    /\ \A k \in DOMAIN finished : finished[k] <= sent /\ Answered(finished[k])
    /\ hpc = "idle" => \A i \in DOMAIN reqs : ~Answered(reqs[i])
    /\ hpc \in {"check", "send"} =>
         /\ hi <= Len(reqs) + 1 /\ Len(finished) = hi - 1
         /\ \A i \in 1 .. hi - 1 : finished[i] = reqs[i]
         /\ \A i \in hi .. Len(reqs) : ~Answered(reqs[i])
    /\ hpc = "send" => hi <= Len(reqs) /\ res.tx = reqs[hi]
    /\ hpc = "remove" => Matched(reqs, finished)

QueueInv == LinkInv /\ ReqsAscend /\ HandlerInv

\* With ids of their own, or a database that does not fail, a removal by id takes
\* the request it is meant for.
Distinct == ~ReuseIds \/ MaxDbFaults = 0

IdsDistinct == ~ReuseIds => \A t, u \in 1 .. sent : SameId(t, u) => t = u

NothingUndone ==
    MaxDbFaults = 0 =>
        /\ lpc # "undo"
        /\ hpc = "remove" =>
             /\ Len(finished) <= Len(reqs)
             /\ \A k \in 1 .. Len(finished) : reqs[k] = finished[k]

\* NoneForgotten is not inductive: the request of a call that is about to be
\* accepted must not be forgotten either, nor one be kept of a call that failed.
KeepInv ==
    /\ IdsDistinct
    /\ NothingUndone
    /\ NoneForgotten
    /\ lpc = "put" => Answered(cur) \/ InReqs(cur)
    /\ \A i \in DOMAIN reqs : reqs[i] \in accepted \/ (lpc \in {"put", "undo"} /\ reqs[i] = cur)
    /\ \A t \in accepted, u \in Tx : t < u /\ Answered(u) => Answered(t)

------------------------------------------------------------------------------
(* Removals *)

\* What is left of a sequence that an element is removed from.
LEMMA WithoutElements ==
    ASSUME NEW S, NEW rs \in Seq(S), NEW i \in DOMAIN rs
    PROVE  /\ Without(rs, i) \in Seq(S)
           /\ Len(Without(rs, i)) = Len(rs) - 1
           /\ \A j \in 1 .. Len(rs) - 1 : Without(rs, i)[j] = IF j < i THEN rs[j] ELSE rs[j + 1]
  <1> DEFINE a == SubSeq(rs, 1, i - 1)
             b == SubSeq(rs, i + 1, Len(rs))
  <1>1. Len(rs) \in Nat /\ i \in 1 .. Len(rs)
    BY LenProperties
  <1>2. \A j \in 1 .. Len(rs) : rs[j] \in S
    BY ElementOfSeq
  <1>3. a \in Seq(S) /\ Len(a) = i - 1 /\ \A j \in 1 .. i - 1 : a[j] = rs[j]
    BY <1>1, <1>2, SubSeqProperties
  <1>4. /\ b \in Seq(S) /\ Len(b) = Len(rs) - i
        /\ \A j \in 1 .. Len(rs) - i : b[j] = rs[j + i]
    <2>1. \A j \in i + 1 .. Len(rs) : rs[j] \in S
      BY <1>1, <1>2
    <2>2. Len(b) = IF i + 1 <= Len(rs) THEN Len(rs) - (i + 1) + 1 ELSE 0
      BY <1>1, <2>1, SubSeqProperties
    <2>3. b \in Seq(S) /\ \A j \in 1 .. Len(rs) - (i + 1) + 1 : b[j] = rs[(i + 1) + j - 1]
      BY <1>1, <2>1, SubSeqProperties
    <2>4. ASSUME NEW j \in 1 .. Len(rs) - i PROVE b[j] = rs[j + i]
      <3>1. j \in 1 .. Len(rs) - (i + 1) + 1 /\ (i + 1) + j - 1 = j + i
        BY <1>1
      <3>2. QED
        BY <2>3, <3>1
    <2>5. QED
      BY <1>1, <2>2, <2>3, <2>4
  <1> HIDE DEF a, b
  <1>5. /\ a \o b \in Seq(S) /\ Len(a \o b) = Len(rs) - 1
        /\ \A j \in 1 .. Len(rs) - 1 : (a \o b)[j] = IF j <= i - 1 THEN a[j] ELSE b[j - (i - 1)]
    BY <1>1, <1>3, <1>4, ConcatProperties, SMTT(30)
  <1>6. ASSUME NEW j \in 1 .. Len(rs) - 1
        PROVE  (a \o b)[j] = IF j < i THEN rs[j] ELSE rs[j + 1]
    <2>1. CASE j < i
      BY <1>1, <1>3, <1>5, <2>1
    <2>2. CASE ~(j < i)
      <3>1. PICK k \in 1 .. Len(rs) - i : k = j - (i - 1)
        BY <1>1, <2>2
      <3>2. k + i = j + 1 /\ ~(j <= i - 1) /\ ~(j < i)
        BY <1>1, <2>2, <3>1
      <3>3. b[k] = rs[k + i]
        BY <1>4
      <3>4. (a \o b)[j] = b[j - (i - 1)]
        BY <1>5, <3>2
      <3>5. (a \o b)[j] = rs[j + 1]
        BY <3>1, <3>2, <3>3, <3>4
      <3>6. QED
        BY <3>2, <3>5
    <2>3. QED
      BY <2>1, <2>2
  <1>7. QED
    BY <1>5, <1>6 DEF Without, a, b

\* Requests in ascending order are still so when one is removed.
LEMMA WithoutAscends ==
    ASSUME NEW rs \in Seq(Tx), NEW i \in DOMAIN rs,
           \A j \in DOMAIN rs : \A k \in 1 .. j - 1 : rs[k] < rs[j]
    PROVE  \A j \in DOMAIN Without(rs, i) : \A k \in 1 .. j - 1 :
               Without(rs, i)[k] < Without(rs, i)[j]
  <1>1. DOMAIN rs = 1 .. Len(rs) /\ Len(rs) \in Nat /\ i \in 1 .. Len(rs)
    BY LenProperties
  <1> DEFINE w == Without(rs, i)
  <1>2. /\ w \in Seq(Tx) /\ Len(w) = Len(rs) - 1
        /\ \A j \in 1 .. Len(rs) - 1 : w[j] = IF j < i THEN rs[j] ELSE rs[j + 1]
    BY WithoutElements
  <1>3. DOMAIN w = 1 .. Len(rs) - 1
    BY <1>2, LenProperties
  <1> HIDE DEF w
  <1>4. ASSUME NEW j \in 1 .. Len(rs) - 1, NEW k \in 1 .. j - 1 PROVE w[k] < w[j]
    <2>1. /\ k \in 1 .. Len(rs) - 1 /\ k < j
          /\ j + 1 \in 1 .. Len(rs) /\ j \in 1 .. Len(rs)
          /\ k + 1 \in 1 .. (j + 1) - 1 /\ k \in 1 .. (j + 1) - 1
      BY <1>1
    <2>2. rs[k] < rs[j] /\ rs[k] < rs[j + 1] /\ rs[k + 1] < rs[j + 1]
      BY <1>1, <2>1
    <2>3. QED
      BY <1>1, <1>2, <2>1, <2>2
  <1>5. QED
    BY <1>3, <1>4 DEF w

\* Every element but the one removed is kept, and none is new.
LEMMA WithoutKeeps ==
    ASSUME NEW rs \in Seq(Tx), NEW i \in DOMAIN rs
    PROVE  /\ \A j \in DOMAIN rs : j # i => \E k \in DOMAIN Without(rs, i) : Without(rs, i)[k] = rs[j]
           /\ \A k \in DOMAIN Without(rs, i) : \E j \in DOMAIN rs : Without(rs, i)[k] = rs[j]
  <1>1. DOMAIN rs = 1 .. Len(rs) /\ Len(rs) \in Nat /\ i \in 1 .. Len(rs)
    BY LenProperties
  <1> DEFINE w == Without(rs, i)
  <1>2. /\ w \in Seq(Tx) /\ Len(w) = Len(rs) - 1
        /\ \A j \in 1 .. Len(rs) - 1 : w[j] = IF j < i THEN rs[j] ELSE rs[j + 1]
    BY WithoutElements
  <1>3. DOMAIN w = 1 .. Len(rs) - 1
    BY <1>2, LenProperties
  <1> HIDE DEF w
  <1>4. ASSUME NEW j \in 1 .. Len(rs), j # i PROVE \E k \in 1 .. Len(rs) - 1 : w[k] = rs[j]
    <2>1. CASE j < i
      <3>1. j \in 1 .. Len(rs) - 1 /\ w[j] = rs[j]
        BY <1>1, <1>2, <2>1
      <3>2. QED
        BY <3>1
    <2>2. CASE i < j
      <3>1. j - 1 \in 1 .. Len(rs) - 1 /\ ~(j - 1 < i) /\ (j - 1) + 1 = j
        BY <1>1, <2>2
      <3>2. w[j - 1] = rs[j]
        BY <1>2, <3>1
      <3>3. QED
        BY <3>1, <3>2
    <2>3. QED
      BY <1>1, <1>4, <2>1, <2>2
  <1>5. ASSUME NEW k \in 1 .. Len(rs) - 1 PROVE \E j \in 1 .. Len(rs) : w[k] = rs[j]
    <2>1. k \in 1 .. Len(rs) /\ k + 1 \in 1 .. Len(rs)
      BY <1>1
    <2>2. QED
      BY <1>2, <2>1
  <1>6. QED
    BY <1>1, <1>3, <1>4, <1>5 DEF w

\* Removing a request keeps the others matched, each to the same finished one.
LEMMA RemovalMatches ==
    ASSUME NEW rs \in Seq(Tx), NEW fs \in Seq(Tx), NEW i \in DOMAIN rs,
           NEW p \in 0 .. Len(rs), NEW f \in [1 .. p -> 1 .. Len(fs)], Matches(rs, fs, p, f)
    PROVE  \E q \in 0 .. Len(Without(rs, i)) : \E g \in [1 .. q -> 1 .. Len(fs)] :
               /\ Matches(Without(rs, i), fs, q, g)
               /\ \A j \in 1 .. q : \E k \in 1 .. p : k # i /\ g[j] = f[k]
  <1> DEFINE w == Without(rs, i)
  <1>1. Len(rs) \in Nat /\ DOMAIN rs = 1 .. Len(rs) /\ i \in 1 .. Len(rs)
    BY LenProperties
  <1>2. /\ Len(w) = Len(rs) - 1
        /\ \A j \in 1 .. Len(rs) - 1 : w[j] = IF j < i THEN rs[j] ELSE rs[j + 1]
    BY WithoutElements
  <1>4. Len(fs) \in Nat /\ \A j \in 1 .. p : f[j] \in 1 .. Len(fs)
    BY LenProperties
  <1> DEFINE q == IF i <= p THEN p - 1 ELSE p
             g == [j \in 1 .. q |-> IF j < i THEN f[j] ELSE f[j + 1]]
  <1>5. q \in 0 .. Len(w) /\ q <= p /\ (q = p \/ (q = p - 1 /\ i <= p))
    BY <1>1, <1>2
  <1>6. \A j \in 1 .. q : /\ j \in 1 .. p /\ (i <= j => j + 1 \in 1 .. p)
                          /\ j \in 1 .. Len(rs) - 1
    BY <1>1, <1>2, <1>5
  <1>7. g \in [1 .. q -> 1 .. Len(fs)]
    BY <1>1, <1>4, <1>6
  <1> HIDE DEF w, q
  <1>8. \A j \in 1 .. q : \A k \in 1 .. j - 1 : g[k] < g[j]
    <2> SUFFICES ASSUME NEW j \in 1 .. q, NEW k \in 1 .. j - 1 PROVE g[k] < g[j]
      OBVIOUS
    <2>1. k \in 1 .. q /\ k < j /\ j \in 1 .. p /\ q \in Nat /\ j \in Nat /\ k \in Nat
      BY <1>2, <1>5, <1>6, <1>1
    <2>2. \A a \in 1 .. p : \A b \in 1 .. a - 1 : f[b] < f[a]
      BY DEF Matches
    <2>3. f[k] < f[j]
      BY <2>1, <2>2
    <2>4. i <= j => j + 1 \in 1 .. p /\ k \in 1 .. (j + 1) - 1 /\ k + 1 \in 1 .. (j + 1) - 1
      BY <1>6, <2>1
    <2>5. i <= j => f[k] < f[j + 1] /\ f[k + 1] < f[j + 1]
      BY <2>2, <2>4
    <2>6. QED
      BY <1>1, <2>1, <2>3, <2>5
  <1>9. \A j \in 1 .. q : Answered(w[j]) /\ SameId(w[j], fs[g[j]])
    <2> SUFFICES ASSUME NEW j \in 1 .. q PROVE Answered(w[j]) /\ SameId(w[j], fs[g[j]])
      OBVIOUS
    <2>1. \A a \in 1 .. p : Answered(rs[a]) /\ SameId(rs[a], fs[f[a]])
      BY DEF Matches
    <2>2. j \in 1 .. p /\ (i <= j => j + 1 \in 1 .. p) /\ j \in 1 .. Len(rs) - 1
      BY <1>6
    <2>3. CASE j < i
      BY <1>2, <2>1, <2>2, <2>3
    <2>4. CASE ~(j < i)
      <3>1. j + 1 \in 1 .. p
        BY <1>1, <2>2, <2>4
      <3>2. w[j] = rs[j + 1] /\ g[j] = f[j + 1]
        BY <1>2, <2>2, <2>4
      <3>3. QED
        BY <2>1, <3>1, <3>2
    <2>5. QED
      BY <2>3, <2>4
  <1>10. \A j \in q + 1 .. Len(w) : ~Answered(w[j])
    <2> SUFFICES ASSUME NEW j \in q + 1 .. Len(w) PROVE ~Answered(w[j])
      OBVIOUS
    <2>1. \A a \in p + 1 .. Len(rs) : ~Answered(rs[a])
      BY DEF Matches
    <2>2. j \in 1 .. Len(rs) - 1 /\ j + 1 \in p + 1 .. Len(rs)
      BY <1>1, <1>2, <1>5
    <2>3. j < i => j \in p + 1 .. Len(rs)
      BY <1>1, <1>2, <1>5 DEF q
    <2>4. QED
      BY <1>2, <2>1, <2>2, <2>3
  <1>11. Matches(w, fs, q, g)
    BY <1>5, <1>7, <1>8, <1>9, <1>10 DEF Matches
  <1>12. ASSUME NEW j \in 1 .. q PROVE \E k \in 1 .. p : k # i /\ g[j] = f[k]
    <2>1. CASE j < i
      BY <1>1, <1>6, <2>1
    <2>2. CASE ~(j < i)
      <3>1. j + 1 \in 1 .. p /\ j + 1 # i /\ g[j] = f[j + 1]
        BY <1>1, <1>6, <2>2
      <3>2. QED
        BY <3>1
    <2>3. QED
      BY <2>1, <2>2
  <1>13. QED
    BY <1>5, <1>7, <1>11, <1>12 DEF w

LEMMA RemovedMatched ==
    ASSUME NEW rs \in Seq(Tx), NEW fs \in Seq(Tx), NEW i \in DOMAIN rs, Matched(rs, fs)
    PROVE  Matched(Without(rs, i), fs)
  <1>1. PICK p \in 0 .. Len(rs) : \E h \in [1 .. p -> 1 .. Len(fs)] : Matches(rs, fs, p, h)
    BY DEF Matched
  <1>2. PICK f \in [1 .. p -> 1 .. Len(fs)] : Matches(rs, fs, p, f)
    BY <1>1
  <1>3. QED
    BY <1>2, RemovalMatches DEF Matched

\* What has no match in the first finished one is matched in the others.
LEMMA TailMatches ==
    ASSUME NEW rs \in Seq(Tx), NEW fs \in Seq(Tx), fs # <<>>,
           NEW p \in 0 .. Len(rs), NEW f \in [1 .. p -> 1 .. Len(fs)], Matches(rs, fs, p, f),
           \A j \in 1 .. p : f[j] # 1
    PROVE  Matched(rs, Tail(fs))
  <1> DEFINE g == [j \in 1 .. p |-> f[j] - 1]
             n == Len(Tail(fs))
  <1>1. Len(rs) \in Nat /\ Len(fs) \in Nat /\ p \in Nat
    BY LenProperties
  <1>2. n = Len(fs) - 1 /\ \A j \in 1 .. n : Tail(fs)[j] = fs[j + 1]
    BY HeadTailProperties
  <1> HIDE DEF n
  <1>3. \A j \in 1 .. p : f[j] \in 1 .. Len(fs) /\ f[j] - 1 \in 1 .. n
    BY <1>1, <1>2
  <1>4. g \in [1 .. p -> 1 .. n]
    BY <1>3
  <1>5. \A j \in 1 .. p : g[j] = f[j] - 1 /\ Tail(fs)[g[j]] = fs[f[j]]
    <2> SUFFICES ASSUME NEW j \in 1 .. p PROVE Tail(fs)[f[j] - 1] = fs[f[j]]
      OBVIOUS
    <2>1. PICK k \in 1 .. n : k = f[j] - 1 /\ k + 1 = f[j]
      BY <1>1, <1>3
    <2>2. QED
      BY <1>2, <2>1
  <1>6. \A j \in 1 .. p : \A k \in 1 .. j - 1 : g[k] < g[j]
    <2> SUFFICES ASSUME NEW j \in 1 .. p, NEW k \in 1 .. j - 1 PROVE g[k] < g[j]
      OBVIOUS
    <2>1. k \in 1 .. p
      BY <1>1
    <2>2. f[k] < f[j]
      BY DEF Matches
    <2>3. QED
      BY <1>1, <1>3, <1>5, <2>1, <2>2
  <1> HIDE DEF g
  <1>7. Matches(rs, Tail(fs), p, g)
    BY <1>4, <1>5, <1>6 DEF Matches, n
  <1>8. QED
    BY <1>4, <1>7 DEF Matched, n

\* The first finished request goes: removing by its id takes a request that is
\* matched to it, if there is one.
LEMMA FinishedMatched ==
    ASSUME NEW rs \in Seq(Tx), NEW fs \in Seq(Tx), fs # <<>>, Matched(rs, fs),
           NEW rt,
           \/ First(rs, txs[Head(fs)].id) = {} /\ rt = rs
           \/ \E i \in First(rs, txs[Head(fs)].id) : rt = Without(rs, i)
    PROVE  Matched(rt, Tail(fs))
  <1>1. PICK p \in 0 .. Len(rs) : \E h \in [1 .. p -> 1 .. Len(fs)] : Matches(rs, fs, p, h)
    BY DEF Matched
  <1>2. PICK f \in [1 .. p -> 1 .. Len(fs)] : Matches(rs, fs, p, f)
    BY <1>1
  <1>3. DOMAIN rs = 1 .. Len(rs) /\ Len(rs) \in Nat /\ Len(fs) \in Nat
    BY LenProperties
  <1>4. Head(fs) = fs[1]
    OBVIOUS
  <1>5. ASSUME NEW k \in 1 .. p, f[k] = 1 PROVE k = 1 /\ 1 \in First(rs, txs[Head(fs)].id)
    <2>1. k = 1
      <3>1. SUFFICES ASSUME k # 1 PROVE FALSE
        OBVIOUS
      <3>2. 1 \in 1 .. k - 1 /\ 1 \in 1 .. p
        BY <1>3, <3>1
      <3>3. f[1] < f[k] /\ f[1] \in 1 .. Len(fs)
        BY <1>2, <3>2 DEF Matches
      <3>4. QED
        BY <1>3, <1>5, <3>3
    <2>2. txs[rs[1]].id = txs[Head(fs)].id
      BY <1>2, <1>4, <1>5, <2>1 DEF Matches, SameId
    <2>3. 1 \in DOMAIN rs
      BY <1>3, <2>1
    <2>4. QED
      BY <2>1, <2>2, <2>3 DEF First
  <1>6. CASE First(rs, txs[Head(fs)].id) = {} /\ rt = rs
    BY <1>2, <1>5, <1>6, TailMatches
  <1>7. CASE \E i \in First(rs, txs[Head(fs)].id) : rt = Without(rs, i)
    <2>1. PICK i \in First(rs, txs[Head(fs)].id) : rt = Without(rs, i)
      BY <1>7
    <2>2. i \in DOMAIN rs
      BY DEF First
    <2>3. PICK q \in 0 .. Len(rt) : \E h \in [1 .. q -> 1 .. Len(fs)] :
            Matches(rt, fs, q, h) /\ \A j \in 1 .. q : \E k \in 1 .. p : k # i /\ h[j] = f[k]
      <3>1. \E q \in 0 .. Len(Without(rs, i)) : \E g \in [1 .. q -> 1 .. Len(fs)] :
              /\ Matches(Without(rs, i), fs, q, g)
              /\ \A j \in 1 .. q : \E k \in 1 .. p : k # i /\ g[j] = f[k]
        BY <1>2, <2>2, RemovalMatches, ZenonT(30)
      <3>2. QED
        BY <2>1, <3>1, Zenon
    <2>4. PICK g \in [1 .. q -> 1 .. Len(fs)] :
            Matches(rt, fs, q, g) /\ \A j \in 1 .. q : \E k \in 1 .. p : k # i /\ g[j] = f[k]
      BY <2>3
    <2>5. 1 \in First(rs, txs[Head(fs)].id) => i = 1
      <3>1. SUFFICES ASSUME 1 \in First(rs, txs[Head(fs)].id), i # 1 PROVE FALSE
        OBVIOUS
      <3>2. 1 \in 1 .. i - 1
        BY <1>3, <2>2, <3>1
      <3>3. QED
        BY <3>1, <3>2 DEF First
    <2>6. \A j \in 1 .. q : g[j] # 1
      BY <1>5, <2>4, <2>5
    <2>7. rt \in Seq(Tx)
      BY <2>1, <2>2, WithoutType
    <2>8. QED
      BY <2>4, <2>6, <2>7, TailMatches
  <1>8. QED
    BY <1>6, <1>7

\* A request that has no result yet joins the queue.
LEMMA AppendMatched ==
    ASSUME NEW rs \in Seq(Tx), NEW fs \in Seq(Tx), Matched(rs, fs), NEW t \in Tx, ~Answered(t)
    PROVE  Matched(Append(rs, t), fs)
  <1>1. PICK p \in 0 .. Len(rs) : \E h \in [1 .. p -> 1 .. Len(fs)] : Matches(rs, fs, p, h)
    BY DEF Matched
  <1>2. PICK f \in [1 .. p -> 1 .. Len(fs)] : Matches(rs, fs, p, f)
    BY <1>1
  <1>3. Len(rs) \in Nat
    BY LenProperties
  <1>4. /\ Len(Append(rs, t)) = Len(rs) + 1 /\ Append(rs, t)[Len(rs) + 1] = t
        /\ \A i \in 1 .. Len(rs) : Append(rs, t)[i] = rs[i]
    BY AppendProperties
  <1>5. p \in 0 .. Len(Append(rs, t))
    BY <1>3, <1>4
  <1>6. \A i \in 1 .. p : Append(rs, t)[i] = rs[i]
    BY <1>3, <1>4
  <1>7. ASSUME NEW i \in p + 1 .. Len(rs) + 1 PROVE ~Answered(Append(rs, t)[i])
    <2>1. CASE i = Len(rs) + 1
      BY <1>4, <2>1
    <2>2. CASE i # Len(rs) + 1
      <3>1. i \in p + 1 .. Len(rs) /\ i \in 1 .. Len(rs)
        BY <1>3, <2>2
      <3>2. ~Answered(rs[i])
        BY <1>2, <3>1 DEF Matches
      <3>3. QED
        BY <1>4, <3>1, <3>2
    <2>3. QED
      BY <2>1, <2>2
  <1>8. Matches(Append(rs, t), fs, p, f)
    BY <1>2, <1>4, <1>5, <1>6, <1>7 DEF Matches
  <1>9. QED
    BY <1>5, <1>8 DEF Matched

\* The requests in front have their results and are the finished ones.
LEMMA PrefixMatched ==
    ASSUME NEW rs \in Seq(Tx), NEW fs \in Seq(Tx), Len(fs) <= Len(rs),
           \A i \in 1 .. Len(fs) : fs[i] = rs[i] /\ Answered(rs[i]),
           \A i \in Len(fs) + 1 .. Len(rs) : ~Answered(rs[i])
    PROVE  Matched(rs, fs)
  <1> DEFINE f == [i \in 1 .. Len(fs) |-> i]
  <1>1. Len(rs) \in Nat /\ Len(fs) \in Nat
    BY LenProperties
  <1>2. f \in [1 .. Len(fs) -> 1 .. Len(fs)] /\ Len(fs) \in 0 .. Len(rs)
    BY <1>1
  <1>3. \A i \in 1 .. Len(fs) : \A j \in 1 .. i - 1 : f[j] < f[i]
    <2> SUFFICES ASSUME NEW i \in 1 .. Len(fs), NEW j \in 1 .. i - 1 PROVE f[j] < f[i]
      OBVIOUS
    <2>1. j \in 1 .. Len(fs)
      BY <1>1
    <2>2. QED
      BY <2>1
  <1>4. Matches(rs, fs, Len(fs), f)
    BY <1>2, <1>3 DEF Matches, SameId
  <1>5. QED
    BY <1>2, <1>4 DEF Matched

------------------------------------------------------------------------------
(* The steps *)

\* What the steps below need of the types.
LEMMA QueueTypes ==
    ASSUME TypeOK
    PROVE  /\ reqs \in Seq(Tx) /\ DOMAIN reqs = 1 .. Len(reqs) /\ Len(reqs) \in Nat
           /\ finished \in Seq(Tx) /\ DOMAIN finished = 1 .. Len(finished) /\ Len(finished) \in Nat
           /\ \A i \in 1 .. Len(reqs) : reqs[i] \in Tx
           /\ \A i \in 1 .. Len(finished) : finished[i] \in Tx
           /\ sent \in Nat /\ sent <= MaxTx /\ cur \in Nat /\ db \in Nat /\ hi \in Nat /\ hi >= 1
           /\ lpc \in {"add", "put", "undo"} => cur \in Tx
           /\ hpc = "send" => res.tx \in Tx
           /\ \A t \in Tx : t \in Nat
           /\ 1 .. sent \subseteq Tx
  <1>1. /\ reqs \in Seq(Tx) /\ finished \in Seq(Tx)
        /\ sent \in 0 .. MaxTx /\ cur \in 0 .. MaxTx /\ db \in 0 .. MaxTx /\ hi \in Nat \ {0}
        /\ lpc \in {"add", "put", "undo"} => cur # 0
    BY DEF TypeOK
  <1>2. hpc = "send" => res.tx \in Tx
    BY Numbers
  <1>3. QED
    BY <1>1, <1>2, LenProperties, ElementOfSeq, SenderAssumption DEF Tx

\* The transactions that were sent keep their ids.
IdsKept == \A t \in 1 .. sent : txs'[t].id = txs[t].id

\* As long as no result is given, what is matched stays matched.
LEMMA MatchedStays ==
    ASSUME IdsKept, final' = final, NEW rs \in Seq(Tx), NEW fs \in Seq(Tx),
           \A i \in 1 .. Len(rs) : rs[i] \in 1 .. sent,
           \A i \in 1 .. Len(fs) : fs[i] \in 1 .. sent,
           Matched(rs, fs), reqs' = rs, finished' = fs
    PROVE  Matched(reqs, finished)'
  <1>1. PICK p \in 0 .. Len(rs) : \E h \in [1 .. p -> 1 .. Len(fs)] : Matches(rs, fs, p, h)
    BY DEF Matched
  <1>2. PICK f \in [1 .. p -> 1 .. Len(fs)] : Matches(rs, fs, p, f)
    BY <1>1
  <1>3. Len(rs) \in Nat
    BY LenProperties
  <1>4. \A t \in 1 .. sent : Answered(t)' <=> Answered(t)
    BY DEF Answered
  <1>5. ASSUME NEW i \in 1 .. p
        PROVE  final'[rs[i]] # "none" /\ txs'[rs[i]].id = txs'[fs[f[i]]].id
    <2>1. rs[i] \in 1 .. sent /\ fs[f[i]] \in 1 .. sent
      BY <1>3
    <2>2. final[rs[i]] # "none" /\ txs[rs[i]].id = txs[fs[f[i]]].id
      BY <1>2 DEF Matches, Answered, SameId
    <2>3. QED
      BY <2>1, <2>2 DEF IdsKept
  <1>6. \A i \in p + 1 .. Len(rs) : final'[rs[i]] = "none"
    BY <1>2 DEF Matches, Answered
  <1>7. \A i \in 1 .. p : \A j \in 1 .. i - 1 : f[j] < f[i]
    BY <1>2 DEF Matches
  <1>8. /\ p \in 0 .. Len(rs)
        /\ f \in [1 .. p -> 1 .. Len(fs)]
        /\ \A i \in 1 .. p : \A j \in 1 .. i - 1 : f[j] < f[i]
        /\ \A i \in 1 .. p : final'[rs[i]] # "none" /\ txs'[rs[i]].id = txs'[fs[f[i]]].id
        /\ \A i \in p + 1 .. Len(rs) : ~(final'[rs[i]] # "none")
    BY <1>5, <1>6, <1>7
  <1>9. Matches(reqs, finished, p, f)'
    BY <1>8 DEF Matches, Answered, SameId
  <1>10. p \in 0 .. Len(reqs') /\ f \in [1 .. p -> 1 .. Len(finished')]
    BY <1>8
  <1>11. QED
    BY <1>9, <1>10 DEF Matched

\* A step that gives no result, and neither moves the handler nor its requests.
LEMMA HandlerInvKept ==
    ASSUME TypeOK, QueueInv, TypeOK', sent <= sent', IdsKept,
           final' = final, UNCHANGED <<reqs, handlerVars>>
    PROVE  HandlerInv'
  <1> USE QueueTypes
  <1>1. sent' \in Nat
    BY DEF TypeOK
  <1>2. /\ \A i \in 1 .. Len(reqs) : reqs[i] \in 1 .. sent
        /\ \A i \in 1 .. Len(finished) : finished[i] \in 1 .. sent
    <2>1. /\ \A i \in DOMAIN reqs : reqs[i] <= sent
          /\ \A i \in DOMAIN finished : finished[i] <= sent
      BY DEF QueueInv, ReqsAscend, HandlerInv
    <2>2. \A t \in Tx : t <= sent => t \in 1 .. sent
      BY SenderAssumption DEF Tx
    <2>3. QED
      BY <2>1, <2>2
  <1>3. hpc = "remove" => Matched(reqs, finished)'
    BY <1>2, MatchedStays DEF QueueInv, HandlerInv, handlerVars
  <1>4. (\A k \in DOMAIN finished : finished[k] <= sent /\ Answered(finished[k]))'
    BY <1>1, <1>2 DEF QueueInv, HandlerInv, handlerVars, Answered
  <1>5. /\ hpc' = "idle" => \A i \in DOMAIN reqs' : ~Answered(reqs[i])'
        /\ hpc' \in {"check", "send"} =>
             /\ hi' <= Len(reqs') + 1 /\ Len(finished') = hi' - 1
             /\ \A i \in 1 .. hi' - 1 : finished'[i] = reqs'[i]
             /\ \A i \in hi' .. Len(reqs') : ~Answered(reqs[i])'
        /\ hpc' = "send" => hi' <= Len(reqs') /\ res'.tx = reqs'[hi']
    BY DEF QueueInv, HandlerInv, handlerVars, Answered
  <1>6. QED
    BY <1>3, <1>4, <1>5 DEF HandlerInv, handlerVars, Answered

\* A step of the node leaves the ids, and all the rest of the program.
LEMMA NodeKeepsIds == TypeOK /\ Node => IdsKept /\ UNCHANGED <<sent, db, reqs, linkVars, handlerVars, history>>
  <1> SUFFICES ASSUME TypeOK, Node
               PROVE  IdsKept /\ UNCHANGED <<sent, db, reqs, linkVars, handlerVars, history>>
    OBVIOUS
  <1>1. UNCHANGED <<sent, db, reqs, linkVars, handlerVars, history>>
    BY Zenon DEF Node, Mine, Finalize, Reorg, Propagate, Drop, Expire
  <1>2. 1 .. sent \subseteq Tx
    BY QueueTypes
  <1>3. ASSUME NEW t \in Tx PROVE txs'[t].id = txs[t].id
    <2> DEFINE Same == txs'[t].id = txs[t].id
    <2>0. txs[t] \in TxState
      BY DEF TypeOK
    <2>1. ASSUME NEW u \in Tx, NEW ok \in BOOLEAN, Mine(u, ok) PROVE Same
      BY <2>0, <2>1 DEF Mine, TypeOK, TxState
    <2>2. ASSUME NEW b \in 1 .. MaxBlock, Finalize(b) PROVE Same
      BY <2>2 DEF Finalize
    <2>3. ASSUME NEW b \in 0 .. MaxBlock, Reorg(b) PROVE Same
      <3>1. txs'[t] = txs[t] \/ txs'[t] = [txs[t] EXCEPT !.st = "pool"]
        BY <2>3, Zenon DEF Reorg
      <3>2. [txs[t] EXCEPT !.st = "pool"].id = txs[t].id
        BY <2>0 DEF TxState
      <3>3. QED
        BY <3>1, <3>2
    <2>4. ASSUME NEW u \in Tx, NEW st, txs' = [txs EXCEPT ![u].st = st] PROVE Same
      <3>1. txs'[t] = txs[t] \/ txs'[t] = [txs[t] EXCEPT !.st = st]
        BY <2>4 DEF TypeOK
      <3>2. [txs[t] EXCEPT !.st = st].id = txs[t].id
        BY <2>0 DEF TxState
      <3>3. QED
        BY <3>1, <3>2
    <2>5. ASSUME Expire PROVE Same
      BY <2>5 DEF Expire
    <2>6. QED
      BY <2>1, <2>2, <2>3, <2>4, <2>5 DEF Node, Propagate, Drop
  <1>4. QED
    BY <1>1, <1>2, <1>3 DEF IdsKept

LEMMA NodeQueue == TypeOK /\ QueueInv /\ TypeOK' /\ Node => QueueInv'
  <1> SUFFICES ASSUME TypeOK, QueueInv, TypeOK', Node PROVE QueueInv'
    OBVIOUS
  <1>1. IdsKept /\ UNCHANGED <<sent, db, reqs, linkVars, handlerVars, history>>
    BY NodeKeepsIds
  <1>2. LinkInv' /\ ReqsAscend'
    BY <1>1 DEF QueueInv, LinkInv, ReqsAscend, linkVars, history, Answered
  <1>3. HandlerInv'
    BY <1>1, HandlerInvKept, QueueTypes DEF history
  <1>4. QED
    BY <1>2, <1>3 DEF QueueInv

\* The state after a crash or a panic.
LEMMA ResetQueue ==
    ASSUME TypeOK, QueueInv, Reset, UNCHANGED <<nodeVars, db, final>>
    PROVE  QueueInv'
  <1>1. reqs' = <<>> /\ finished' = <<>> /\ lpc' = "boot" /\ hpc' = "idle" /\ accepted' = {}
    BY Zenon DEF Reset
  <1>2. DOMAIN reqs' = {} /\ DOMAIN finished' = {}
    BY <1>1
  <1>3. LinkInv'
    BY <1>1 DEF QueueInv, LinkInv, nodeVars, Answered
  <1>4. QED
    BY <1>1, <1>2, <1>3 DEF QueueInv, ReqsAscend, HandlerInv

\* A call of the link that neither sends nor touches the requests.
LEMMA CallQueue ==
    ASSUME TypeOK, QueueInv, TypeOK', UNCHANGED <<nodeVars, reqs, handlerVars, final>>, LinkInv'
    PROVE  QueueInv'
  <1>1. IdsKept /\ ReqsAscend'
    BY DEF IdsKept, QueueInv, ReqsAscend, nodeVars
  <1>2. HandlerInv'
    BY <1>1, HandlerInvKept, QueueTypes DEF nodeVars
  <1>3. QED
    BY <1>1, <1>2 DEF QueueInv

\* A request that goes by its id: the others keep their order and their results.
LEMMA RemovalQueue ==
    ASSUME TypeOK, QueueInv, ~ReadLocked, NEW i \in DOMAIN reqs, reqs' = Without(reqs, i),
           UNCHANGED <<nodeVars, handlerVars, final>>
    PROVE  ReqsAscend' /\ HandlerInv'
  <1> USE QueueTypes
  <1>1. reqs' \in Seq(Tx)
    BY WithoutType
  <1>2. DOMAIN reqs' = 1 .. Len(reqs')
    BY <1>1, LenProperties
  <1>3. \A k \in DOMAIN reqs' : \E j \in DOMAIN reqs : reqs'[k] = reqs[j]
    BY WithoutKeeps
  <1>4. \A j \in DOMAIN reqs' : \A k \in 1 .. j - 1 : reqs'[k] < reqs'[j]
    BY WithoutAscends DEF QueueInv, ReqsAscend
  <1>5. ReqsAscend'
    BY <1>3, <1>4 DEF QueueInv, ReqsAscend, nodeVars
  <1>6. hpc' \notin {"check", "send"}
    BY DEF ReadLocked, handlerVars
  <1>7. (\A k \in DOMAIN finished : finished[k] <= sent /\ Answered(finished[k]))'
    BY DEF QueueInv, HandlerInv, handlerVars, nodeVars, Answered
  <1>8. hpc' = "idle" => (\A k \in DOMAIN reqs : ~Answered(reqs[k]))'
    BY <1>3 DEF QueueInv, HandlerInv, handlerVars, Answered
  <1>9. ASSUME hpc' = "remove" PROVE Matched(reqs, finished)'
    <2>1. Matched(reqs', finished)
      BY <1>9, RemovedMatched DEF QueueInv, HandlerInv, handlerVars
    <2>2. \A k \in 1 .. Len(reqs') : reqs'[k] \in 1 .. sent
      <3>1. \A k \in 1 .. Len(reqs') : reqs'[k] \in Tx /\ reqs'[k] <= sent
        BY <1>1, <1>2, <1>3, ElementOfSeq DEF QueueInv, ReqsAscend
      <3>2. QED
        BY <3>1, SenderAssumption DEF Tx
    <2>3. \A k \in 1 .. Len(finished) : finished[k] \in 1 .. sent
      <3>1. \A k \in 1 .. Len(finished) : finished[k] \in Tx /\ finished[k] <= sent
        BY DEF QueueInv, HandlerInv
      <3>2. QED
        BY <3>1, SenderAssumption DEF Tx
    <2>4. IdsKept /\ finished' = finished
      BY DEF IdsKept, nodeVars, handlerVars
    <2>5. QED
      BY <1>1, <2>1, <2>2, <2>3, <2>4, MatchedStays
  <1>10. QED
    BY <1>5, <1>6, <1>7, <1>8, <1>9 DEF HandlerInv

LEMMA LinkQueue == TypeOK /\ QueueInv /\ TypeOK' /\ Link => QueueInv'
  <1> SUFFICES ASSUME TypeOK, QueueInv, TypeOK', Link PROVE QueueInv'
    OBVIOUS
  <1> USE QueueTypes
  <1>1. ASSUME NEW id \in Ids, Relay(id) PROVE QueueInv'
    <2>1. /\ lpc = "idle" /\ sent < MaxTx /\ sent' = sent + 1 /\ cur' = sent + 1 /\ lpc' = "add"
          /\ UNCHANGED <<expired, blockNum, fin, db, reqs, handlerVars, history, budgets>>
      BY <1>1, Zenon DEF Relay
    <2>2. \A t \in Tx : t # sent + 1 => txs'[t] = txs[t]
      BY <1>1 DEF Relay, TypeOK
    <2>3. IdsKept
      <3>1. \A t \in 1 .. sent : t \in Tx /\ t # sent + 1
        OBVIOUS
      <3>2. QED
        BY <2>2, <3>1 DEF IdsKept
    <2>4. \A i \in DOMAIN reqs : reqs[i] < sent + 1 /\ reqs[i] <= sent + 1
      BY DEF QueueInv, ReqsAscend
    <2>5. \A t \in accepted : t <= sent
      BY DEF QueueInv, LinkInv
    <2>6. accepted \subseteq Tx /\ sent + 1 \in Tx
      BY <2>1, SenderAssumption DEF TypeOK, Tx
    <2>7. \A t \in Tx : t > sent + 1 => ~Answered(t)
      BY DEF QueueInv, LinkInv
    <2>8. ~Answered(sent + 1)
      BY <2>6 DEF QueueInv, LinkInv
    <2>9. LinkInv'
      BY <2>1, <2>4, <2>5, <2>6, <2>7, <2>8 DEF QueueInv, LinkInv, history, Answered
    <2>10. ReqsAscend'
      BY <2>1, <2>4 DEF QueueInv, ReqsAscend
    <2>11. HandlerInv'
      BY <2>1, <2>3, HandlerInvKept DEF history
    <2>12. QED
      BY <2>9, <2>10, <2>11 DEF QueueInv
  <1>2. ASSUME AddRequest PROVE QueueInv'
    <2>1. /\ lpc = "add" /\ ~ReadLocked /\ reqs' = Append(reqs, cur) /\ lpc' = "put"
          /\ UNCHANGED <<nodeVars, db, cur, handlerVars, history, budgets>>
      BY <1>2, Zenon DEF AddRequest
    <2>2. cur \in Tx /\ cur = sent /\ ~Answered(cur) /\ \A i \in DOMAIN reqs : reqs[i] < cur
      BY <2>1 DEF QueueInv, LinkInv
    <2>3. /\ reqs' \in Seq(Tx) /\ Len(reqs') = Len(reqs) + 1 /\ reqs'[Len(reqs) + 1] = cur
          /\ \A i \in 1 .. Len(reqs) : reqs'[i] = reqs[i]
      BY <2>1, <2>2, AppendProperties
    <2>4. DOMAIN reqs' = 1 .. Len(reqs) + 1
      BY <2>3, LenProperties
    <2>5. LinkInv'
      BY <2>1 DEF QueueInv, LinkInv, nodeVars, history, Answered
    <2>6. ReqsAscend'
      <3> SUFFICES ASSUME NEW i \in 1 .. Len(reqs) + 1
                   PROVE  reqs'[i] <= sent /\ \A j \in 1 .. i - 1 : reqs'[j] < reqs'[i]
        BY <2>1, <2>4 DEF ReqsAscend, nodeVars
      <3>1. CASE i = Len(reqs) + 1
        <4>1. \A j \in 1 .. i - 1 : j \in 1 .. Len(reqs)
          BY <3>1
        <4>2. QED
          BY <2>2, <2>3, <3>1, <4>1
      <3>2. CASE i # Len(reqs) + 1
        <4>1. i \in 1 .. Len(reqs) /\ \A j \in 1 .. i - 1 : j \in 1 .. Len(reqs)
          BY <3>2, SMTT(30)
        <4>2. QED
          BY <2>3, <4>1 DEF QueueInv, ReqsAscend
      <3>3. QED
        BY <3>1, <3>2
    <2>7. hpc' \notin {"check", "send"} /\ hpc' = hpc /\ finished' = finished /\ final' = final
      BY <2>1 DEF ReadLocked, handlerVars, history
    <2>8. (\A k \in DOMAIN finished : finished[k] <= sent /\ Answered(finished[k]))'
      BY <2>1, <2>7 DEF QueueInv, HandlerInv, nodeVars, Answered
    <2>9. ASSUME hpc' = "idle" PROVE (\A i \in DOMAIN reqs : ~Answered(reqs[i]))'
      <3>1. \A i \in 1 .. Len(reqs) + 1 : i = Len(reqs) + 1 \/ i \in 1 .. Len(reqs)
        OBVIOUS
      <3>2. \A i \in 1 .. Len(reqs) : ~Answered(reqs[i])
        BY <2>7, <2>9 DEF QueueInv, HandlerInv
      <3>3. QED
        BY <2>2, <2>3, <2>4, <2>7, <3>1, <3>2 DEF Answered
    <2>10. ASSUME hpc' = "remove" PROVE Matched(reqs, finished)'
      <3>1. Matched(reqs', finished)
        BY <2>1, <2>2, <2>7, <2>10, AppendMatched DEF QueueInv, HandlerInv
      <3>2. \A k \in 1 .. Len(reqs') : reqs'[k] \in 1 .. sent
        <4>1. \A k \in 1 .. Len(reqs') : reqs'[k] \in Tx /\ reqs'[k] <= sent
          BY <2>1, <2>3, <2>4, <2>6, ElementOfSeq DEF ReqsAscend, nodeVars
        <4>2. QED
          BY <4>1, SenderAssumption DEF Tx
      <3>3. \A k \in 1 .. Len(finished) : finished[k] \in 1 .. sent
        <4>1. \A k \in 1 .. Len(finished) : finished[k] \in Tx /\ finished[k] <= sent
          BY DEF QueueInv, HandlerInv
        <4>2. QED
          BY <4>1, SenderAssumption DEF Tx
      <3>4. IdsKept
        BY <2>1 DEF IdsKept, nodeVars
      <3>5. QED
        BY <2>3, <2>7, <3>1, <3>2, <3>3, <3>4, MatchedStays
    <2>11. HandlerInv'
      BY <2>7, <2>8, <2>9, <2>10 DEF HandlerInv
    <2>12. QED
      BY <2>5, <2>6, <2>11 DEF QueueInv
  <1>3. ASSUME PutLastTransaction PROVE QueueInv'
    <2>1. /\ lpc = "put" /\ db' = cur /\ accepted' = accepted \cup {cur} /\ lpc' = "idle"
          /\ UNCHANGED <<nodeVars, reqs, handlerVars, told, final, budgets>>
      BY <1>3, Zenon DEF PutLastTransaction
    <2>2. cur = sent
      BY <2>1 DEF QueueInv, LinkInv
    <2>3. LinkInv'
      BY <2>1, <2>2 DEF QueueInv, LinkInv, nodeVars, Answered
    <2>4. QED
      BY <2>1, <2>3, CallQueue
  <1>4. ASSUME UndoRequest PROVE QueueInv'
    <2>1. /\ lpc = "undo" /\ ~ReadLocked /\ RemoveRequest(txs[cur].id) /\ lpc' = "idle"
          /\ UNCHANGED <<nodeVars, db, handlerVars, history, budgets>>
      BY <1>4, Zenon DEF UndoRequest
    <2>2. LinkInv'
      BY <2>1 DEF QueueInv, LinkInv, nodeVars, history, Answered
    <2>3. CASE reqs' = reqs
      BY <2>1, <2>2, <2>3, CallQueue DEF history
    <2>4. CASE \E i \in First(reqs, txs[cur].id) : reqs' = Without(reqs, i)
      <3>1. PICK i \in First(reqs, txs[cur].id) : reqs' = Without(reqs, i)
        BY <2>4
      <3>2. i \in DOMAIN reqs
        BY DEF First
      <3>3. ReqsAscend' /\ HandlerInv'
        BY <2>1, <3>1, <3>2, RemovalQueue DEF history
      <3>4. QED
        BY <2>2, <3>3 DEF QueueInv
    <2>5. QED
      BY <2>1, <2>3, <2>4 DEF RemoveRequest
  <1>5. ASSUME PutFails \/ ReadLastTransaction \/ Wake \/ CallStatus PROVE QueueInv'
    <2>1. /\ UNCHANGED <<nodeVars, db, reqs, cur, handlerVars, history>>
          /\ lpc' \in {"undo", "sleep", "call", "idle"} /\ (lpc' = "undo" => lpc = "put")
      BY <1>5 DEF PutFails, ReadLastTransaction, Wake, CallStatus
    <2>2. LinkInv'
      BY <2>1 DEF QueueInv, LinkInv, nodeVars, history, Answered
    <2>3. QED
      BY <2>1, <2>2, CallQueue DEF history
  <1>6. QED
    BY <1>1, <1>2, <1>3, <1>4, <1>5 DEF Link

\* A step of the handler that gives no result and leaves the requests.
LEMMA QuietHandlerQueue ==
    ASSUME QueueInv, HandlerInv', UNCHANGED <<nodeVars, db, reqs, linkVars, history>>
    PROVE  QueueInv'
  <1>1. LinkInv' /\ ReqsAscend'
    BY DEF QueueInv, LinkInv, ReqsAscend, nodeVars, linkVars, history, Answered
  <1>2. QED
    BY <1>1 DEF QueueInv

\* The handler gives up the lock: the finished requests are the ones in front.
LEMMA EndMatched ==
    ASSUME TypeOK, QueueInv, hpc \in {"check", "send"}
    PROVE  Matched(reqs, finished)
  <1> USE QueueTypes
  <1>1. /\ hi <= Len(reqs) + 1 /\ Len(finished) = hi - 1
        /\ \A i \in 1 .. hi - 1 : finished[i] = reqs[i]
        /\ \A i \in hi .. Len(reqs) : ~Answered(reqs[i])
    BY DEF QueueInv, HandlerInv
  <1>2. \A k \in 1 .. Len(finished) : Answered(finished[k])
    BY DEF QueueInv, HandlerInv
  <1>3. Len(finished) <= Len(reqs) /\ Len(finished) + 1 = hi
    BY <1>1
  <1>4. QED
    BY <1>1, <1>2, <1>3, PrefixMatched

LEMMA SendQueue ==
    ASSUME TypeOK, QueueInv, Checking, NEW code, NEW f, Send(reqs[hi], code, f)
    PROVE  QueueInv'
  <1>1. /\ res' = [tx |-> reqs[hi], code |-> code, final |-> f]
        /\ hpc' = "send" /\ UNCHANGED <<nodeVars, db, reqs, linkVars, to, hi, finished, history>>
    BY Zenon DEF Send
  <1>2. res'.tx = reqs[hi] /\ hpc = "check" /\ hi <= Len(reqs)
    BY <1>1 DEF Checking
  <1>3. HandlerInv'
    BY <1>1, <1>2 DEF QueueInv, HandlerInv, Answered, nodeVars, history
  <1>4. QED
    BY <1>1, <1>3, QuietHandlerQueue

\* The link takes a final result: the next request is looked at.
LEMMA DeliverFinalQueue ==
    ASSUME TypeOK, QueueInv, Deliver, res.final
    PROVE  QueueInv'
  <1> USE QueueTypes
  <1>1. /\ hpc = "send" /\ final' = [final EXCEPT ![res.tx] = res.code] /\ hi' = hi + 1
        /\ hpc' = "check" /\ finished' = Append(finished, res.tx)
        /\ UNCHANGED <<nodeVars, db, reqs, linkVars, to, accepted, budgets>>
    BY Zenon DEF Deliver, FinishedWith
  <1>2. /\ hi <= Len(reqs) /\ res.tx = reqs[hi] /\ Len(finished) = hi - 1
        /\ \A i \in 1 .. hi - 1 : finished[i] = reqs[i]
        /\ \A i \in hi .. Len(reqs) : ~Answered(reqs[i])
    BY <1>1 DEF QueueInv, HandlerInv
  <1>3. hi \in 1 .. Len(reqs) /\ res.tx \in Tx /\ res.tx <= sent
    BY <1>1, <1>2 DEF QueueInv, ReqsAscend
  <1>4. /\ final'[res.tx] # "none" /\ \A t \in Tx : Answered(t) => Answered(t)'
        /\ \A t \in Tx : t # res.tx => (Answered(t)' <=> Answered(t))
    <2>1. final \in [Tx -> Codes \cup {"none"}] /\ res.code \in Codes
      BY DEF TypeOK, Result
    <2>2. res.code # "none"
      BY <2>1 DEF Codes
    <2>3. QED
      BY <1>1, <1>3, <2>1, <2>2 DEF Answered
  <1>5. /\ Len(finished') = hi /\ finished' \in Seq(Tx)
        /\ \A i \in 1 .. hi - 1 : finished'[i] = finished[i]
        /\ finished'[hi] = res.tx
    <2>1. /\ finished' \in Seq(Tx) /\ Len(finished') = Len(finished) + 1
          /\ finished'[Len(finished) + 1] = res.tx
          /\ \A i \in 1 .. Len(finished) : finished'[i] = finished[i]
      BY <1>1, <1>3, AppendProperties
    <2>2. Len(finished) + 1 = hi /\ hi - 1 = Len(finished)
      BY <1>2
    <2>3. QED
      BY <2>1, <2>2
  <1>6. DOMAIN finished' = 1 .. hi
    BY <1>5, LenProperties
  <1>7. \A i \in 1 .. hi : i = hi \/ i \in 1 .. hi - 1
    OBVIOUS
  <1>8. (\A k \in DOMAIN finished : finished[k] <= sent /\ Answered(finished[k]))'
    <2> SUFFICES ASSUME NEW k \in 1 .. hi PROVE finished'[k] <= sent /\ Answered(finished[k])'
      BY <1>1, <1>6 DEF nodeVars
    <2>1. CASE k = hi
      BY <1>3, <1>4, <1>5, <2>1 DEF Answered
    <2>2. CASE k \in 1 .. hi - 1
      <3>1. k \in DOMAIN finished /\ finished'[k] = finished[k]
        BY <1>2, <1>5, <2>2
      <3>2. finished[k] <= sent /\ Answered(finished[k]) /\ finished[k] \in Tx
        BY <3>1 DEF QueueInv, HandlerInv
      <3>3. QED
        BY <1>4, <3>1, <3>2 DEF Answered
    <2>3. QED
      BY <1>7, <2>1, <2>2
  <1>9. \A i \in 1 .. hi' - 1 : finished'[i] = reqs'[i]
    <2>1. hi' - 1 = hi
      BY <1>1
    <2>2. QED
      BY <1>1, <1>2, <1>5, <1>7, <2>1
  <1>10. ASSUME NEW i \in hi' .. Len(reqs') PROVE ~Answered(reqs[i])'
    <2>1. i \in hi .. Len(reqs) /\ i \in 1 .. Len(reqs) /\ hi \in 1 .. i - 1
      BY <1>1, <1>3
    <2>2. reqs[hi] < reqs[i] /\ ~Answered(reqs[i]) /\ reqs[i] \in Tx /\ reqs[hi] \in Tx
      BY <1>2, <1>3, <2>1 DEF QueueInv, ReqsAscend
    <2>3. reqs[i] # res.tx
      BY <1>2, <2>2
    <2>4. QED
      BY <1>1, <1>4, <2>2, <2>3 DEF Answered
  <1>11. hi' <= Len(reqs') + 1 /\ Len(finished') = hi' - 1
    BY <1>1, <1>3, <1>5
  <1>12. HandlerInv'
    BY <1>1, <1>8, <1>9, <1>10, <1>11 DEF HandlerInv
  <1>13. LinkInv'
    <2>1. (\A t \in Tx : t > sent => ~Answered(t))'
      BY <1>1, <1>3, <1>4 DEF QueueInv, LinkInv, nodeVars
    <2>2. ASSUME lpc = "add" PROVE ~Answered(cur)'
      <3>1. res.tx < cur /\ ~Answered(cur) /\ cur \in Tx
        BY <1>2, <1>3, <2>2 DEF QueueInv, LinkInv
      <3>2. res.tx # cur /\ cur' = cur
        BY <1>1, <1>3, <3>1 DEF linkVars
      <3>3. QED
        BY <1>4, <3>1, <3>2 DEF Answered
    <2>3. UNCHANGED <<sent, db, reqs, lpc, cur, accepted>>
      BY <1>1 DEF nodeVars, linkVars
    <2>4. QED
      BY <2>1, <2>2, <2>3 DEF QueueInv, LinkInv
  <1>14. ReqsAscend'
    BY <1>1 DEF QueueInv, ReqsAscend, nodeVars
  <1>15. QED
    BY <1>12, <1>13, <1>14 DEF QueueInv

LEMMA HandlerQueue == TypeOK /\ QueueInv /\ TypeOK' /\ Handler => QueueInv'
  <1> SUFFICES ASSUME TypeOK, QueueInv, TypeOK', Handler PROVE QueueInv'
    OBVIOUS
  <1>1. ASSUME FinalityUpdate PROVE QueueInv'
    <2>1. /\ hpc = "idle" /\ hpc' = "check" /\ hi' = 1 /\ finished' = <<>>
          /\ UNCHANGED <<nodeVars, db, reqs, linkVars, res, history, budgets>>
      BY <1>1, Zenon DEF FinalityUpdate
    <2>2. DOMAIN finished' = {} /\ Len(finished') = hi' - 1 /\ 1 .. hi' - 1 = {}
      BY <2>1
    <2>3. \A i \in hi' .. Len(reqs') : ~Answered(reqs[i])'
      BY <2>1, QueueTypes DEF QueueInv, HandlerInv, Answered, history
    <2>4. hi' <= Len(reqs') + 1
      BY <2>1, QueueTypes
    <2>5. HandlerInv'
      BY <2>1, <2>2, <2>3, <2>4 DEF HandlerInv
    <2>6. QED
      BY <2>1, <2>5, QuietHandlerQueue
  <1>2. ASSUME EndCheck PROVE QueueInv'
    <2>1. /\ hpc = "check" /\ hpc' = "remove"
          /\ UNCHANGED <<nodeVars, db, reqs, linkVars, to, hi, res, finished, history, budgets>>
      BY <1>2, Zenon DEF EndCheck
    <2>2. Matched(reqs, finished)
      BY <2>1, EndMatched
    <2>3. UNCHANGED <<txs, final, sent, reqs, finished>>
      BY <2>1 DEF nodeVars, history
    <2>4. Matched(reqs, finished)'
      BY <2>2, <2>3 DEF Matched, Matches, Answered, SameId
    <2>5. HandlerInv'
      BY <2>1, <2>3, <2>4 DEF QueueInv, HandlerInv, Answered
    <2>6. QED
      BY <2>1, <2>5, QuietHandlerQueue
  <1>3. ASSUME CheckLost \/ CheckFails \/ CheckMined PROVE QueueInv'
    BY <1>3, SendQueue DEF CheckLost, CheckFails, CheckMined
  <1>4. ASSUME RevertPanics PROVE QueueInv'
    BY <1>4, ResetQueue DEF RevertPanics
  <1>5. ASSUME Deliver PROVE QueueInv'
    <2>1. CASE res.final
      BY <1>5, <2>1, DeliverFinalQueue
    <2>2. CASE ~res.final
      <3>1. /\ hpc = "send" /\ hpc' = "remove" /\ finished' = finished
            /\ UNCHANGED <<nodeVars, db, reqs, linkVars, to, accepted, final, budgets>>
        BY <1>5, <2>2, Zenon DEF Deliver, FinishedWith
      <3>2. Matched(reqs, finished)
        BY <3>1, EndMatched
      <3>3. UNCHANGED <<txs, final, sent, reqs, finished>>
        BY <3>1 DEF nodeVars
      <3>4. Matched(reqs, finished)'
        BY <3>2, <3>3 DEF Matched, Matches, Answered, SameId
      <3>5. HandlerInv'
        BY <3>1, <3>3, <3>4 DEF QueueInv, HandlerInv, Answered
      <3>6. LinkInv' /\ ReqsAscend'
        BY <3>1 DEF QueueInv, LinkInv, ReqsAscend, nodeVars, linkVars, Answered
      <3>7. QED
        BY <3>5, <3>6 DEF QueueInv
    <2>3. QED
      BY <2>1, <2>2
  <1>6. ASSUME RemoveFinished PROVE QueueInv'
    <2>1. /\ hpc = "remove" /\ finished # <<>> /\ RemoveRequest(txs[Head(finished)].id)
          /\ finished' = Tail(finished)
          /\ UNCHANGED <<nodeVars, db, linkVars, hpc, to, hi, res, history, budgets>>
      BY <1>6, Zenon DEF RemoveFinished
    <2> USE QueueTypes
    <2>2. /\ finished' \in Seq(Tx) /\ Len(finished') = Len(finished) - 1
          /\ \A k \in 1 .. Len(finished') : finished'[k] = finished[k + 1]
      BY <2>1, HeadTailProperties
    <2>3. DOMAIN finished' = 1 .. Len(finished) - 1
      BY <2>2, LenProperties
    <2>4. \A k \in DOMAIN finished' : finished'[k] <= sent /\ Answered(finished'[k])
      <3> SUFFICES ASSUME NEW k \in 1 .. Len(finished) - 1
                   PROVE  finished[k + 1] <= sent /\ Answered(finished[k + 1])
        BY <2>2, <2>3
      <3>1. k + 1 \in DOMAIN finished
        OBVIOUS
      <3>2. QED
        BY <3>1 DEF QueueInv, HandlerInv
    <2>5. Matched(reqs', finished')
      BY <2>1, FinishedMatched DEF RemoveRequest, QueueInv, HandlerInv
    <2>6. /\ reqs' \in Seq(Tx)
          /\ \A k \in DOMAIN reqs' : \E j \in DOMAIN reqs : reqs'[k] = reqs[j]
          /\ \A j \in DOMAIN reqs' : \A k \in 1 .. j - 1 : reqs'[k] < reqs'[j]
      <3>1. CASE reqs' = reqs
        BY <3>1 DEF QueueInv, ReqsAscend
      <3>2. CASE \E i \in First(reqs, txs[Head(finished)].id) : reqs' = Without(reqs, i)
        <4>1. PICK i \in First(reqs, txs[Head(finished)].id) : reqs' = Without(reqs, i)
          BY <3>2
        <4>2. i \in DOMAIN reqs
          BY DEF First
        <4>3. \A j \in DOMAIN reqs : \A k \in 1 .. j - 1 : reqs[k] < reqs[j]
          BY DEF QueueInv, ReqsAscend
        <4>4. QED
          BY <4>1, <4>2, <4>3, WithoutType, WithoutKeeps, WithoutAscends
      <3>3. QED
        BY <2>1, <3>1, <3>2 DEF RemoveRequest
    <2>7. UNCHANGED <<txs, sent, final, hpc>> /\ DOMAIN reqs' = 1 .. Len(reqs')
      BY <2>1, <2>6, LenProperties DEF nodeVars, history
    <2>8. ReqsAscend'
      BY <2>6, <2>7 DEF QueueInv, ReqsAscend
    <2>9. /\ \A k \in 1 .. Len(reqs') : reqs'[k] \in 1 .. sent
          /\ \A k \in 1 .. Len(finished') : finished'[k] \in 1 .. sent
      <3>1. /\ \A k \in 1 .. Len(reqs') : reqs'[k] \in Tx /\ reqs'[k] <= sent
            /\ \A k \in 1 .. Len(finished') : finished'[k] \in Tx /\ finished'[k] <= sent
        BY <2>2, <2>3, <2>4, <2>6, <2>7, <2>8, ElementOfSeq DEF ReqsAscend
      <3>2. QED
        BY <3>1, SenderAssumption DEF Tx
    <2>10. Matched(reqs, finished)'
      BY <2>2, <2>5, <2>6, <2>7, <2>9, MatchedStays DEF IdsKept
    <2>11. HandlerInv'
      BY <2>1, <2>4, <2>7, <2>10 DEF HandlerInv, Answered
    <2>12. LinkInv'
      <3>1. lpc = "add" => \A i \in DOMAIN reqs' : reqs'[i] < cur
        BY <2>6 DEF QueueInv, LinkInv
      <3>2. lpc = "boot" => reqs' = <<>>
        <4> SUFFICES ASSUME lpc = "boot" PROVE reqs' = <<>>
          OBVIOUS
        <4>1. reqs = <<>> /\ DOMAIN reqs = {}
          BY DEF QueueInv, LinkInv
        <4>2. DOMAIN reqs' = {}
          BY <2>6, <4>1
        <4>3. Len(reqs') = 0
          BY <2>6, <2>7, <4>2, LenProperties
        <4>4. QED
          BY <2>6, <4>3, EmptySeq
      <3>3. QED
        BY <2>1, <3>1, <3>2 DEF QueueInv, LinkInv, nodeVars, linkVars, history, Answered
    <2>13. QED
      BY <2>8, <2>11, <2>12 DEF QueueInv
  <1>7. ASSUME EndRemove PROVE QueueInv'
    <2>1. /\ hpc = "remove" /\ finished = <<>> /\ hpc' = "idle"
          /\ UNCHANGED <<nodeVars, db, reqs, linkVars, res, finished, history, budgets>>
      BY <1>7, Zenon DEF EndRemove
    <2>2. PICK p \in 0 .. Len(reqs) : \E h \in [1 .. p -> 1 .. Len(finished)] : Matches(reqs, finished, p, h)
      BY <2>1 DEF QueueInv, HandlerInv, Matched
    <2>3. PICK f \in [1 .. p -> 1 .. Len(finished)] : Matches(reqs, finished, p, f)
      BY <2>2
    <2>4. p = 0
      <3>1. SUFFICES ASSUME p # 0 PROVE FALSE
        OBVIOUS
      <3>2. 1 \in 1 .. p
        BY <3>1, QueueTypes
      <3>3. f[1] \in 1 .. Len(finished) /\ Len(finished) = 0
        BY <2>1, <3>2
      <3>4. QED
        BY <3>3
    <2>5. \A i \in DOMAIN reqs : ~Answered(reqs[i])
      BY <2>3, <2>4, QueueTypes DEF Matches
    <2>6. DOMAIN finished' = {}
      BY <2>1
    <2>7. HandlerInv'
      BY <2>1, <2>5, <2>6 DEF HandlerInv, Answered, history
    <2>8. QED
      BY <2>1, <2>7, QuietHandlerQueue
  <1>8. QED
    BY <1>1, <1>2, <1>3, <1>4, <1>5, <1>6, <1>7 DEF Handler

LEMMA InitQueue == Init => QueueInv
  <1> SUFFICES ASSUME Init PROVE QueueInv
    OBVIOUS
  <1>1. DOMAIN reqs = {} /\ DOMAIN finished = {}
    BY DEF Init
  <1>2. QED
    BY <1>1 DEF Init, QueueInv, LinkInv, ReqsAscend, HandlerInv, Answered

LEMMA NextQueue == TypeOK /\ QueueInv /\ TypeOK' /\ [Next]_vars => QueueInv'
  <1> SUFFICES ASSUME TypeOK, QueueInv, TypeOK', [Next]_vars PROVE QueueInv'
    OBVIOUS
  <1>1. CASE Restart
    BY <1>1, ResetQueue DEF Restart
  <1>2. CASE UNCHANGED vars
    <2>1. LinkInv'
      BY <1>2 DEF QueueInv, LinkInv, vars, nodeVars, linkVars, history, Answered
    <2>2. QED
      BY <1>2, <2>1, CallQueue DEF vars, history
  <1>3. QED
    BY <1>1, <1>2, NodeQueue, LinkQueue, HandlerQueue DEF Next

\* No request is given a final result twice, though it stays in the requests until
\* the read lock was given up, another may be removed by its id, and new ones join
\* behind it meanwhile (_checkRelayResult, _removeRequests, removeRequest).
THEOREM FinalResultsOnce == Spec => []FinalOnce
  <1>1. TypeOK /\ QueueInv => FinalOnce
    <2> SUFFICES ASSUME TypeOK, QueueInv, hpc = "send" PROVE ~Answered(res.tx)
      BY DEF FinalOnce, Answered
    <2>1. hi <= Len(reqs) /\ res.tx = reqs[hi] /\ \A i \in hi .. Len(reqs) : ~Answered(reqs[i])
      BY DEF QueueInv, HandlerInv
    <2>2. hi \in hi .. Len(reqs)
      BY <2>1, QueueTypes
    <2>3. QED
      BY <2>1, <2>2
  <1>2. Spec => [](TypeOK /\ QueueInv)
    BY InitQueue, NextQueue, InitTypeOK, NextTypeOK, PTL DEF Spec
  <1>3. QED
    BY <1>1, <1>2, PTL

------------------------------------------------------------------------------
(* Requests that are kept *)

LEMMA IdsStayDistinct ==
    ASSUME TypeOK, IdsDistinct, IdsKept, sent' = sent
    PROVE  IdsDistinct'
  BY DEF IdsDistinct, IdsKept, SameId

\* A step that leaves the requests, the results and the call of Relay under way.
LEMMA QuietKeep ==
    ASSUME KeepInv, IdsDistinct', NothingUndone', UNCHANGED <<reqs, accepted, final>>,
           lpc' = "put" => lpc = "put",
           lpc' \in {"put", "undo"} <=> lpc \in {"put", "undo"},
           lpc' \in {"put", "undo"} => cur' = cur
    PROVE  KeepInv'
  <1>1. NoneForgotten'
    BY DEF KeepInv, NoneForgotten
  <1>2. (lpc = "put" => Answered(cur) \/ InReqs(cur))'
    BY DEF KeepInv, Answered, InReqs
  <1>3. (\A i \in DOMAIN reqs : reqs[i] \in accepted \/ (lpc \in {"put", "undo"} /\ reqs[i] = cur))'
    BY DEF KeepInv
  <1>4. (\A t \in accepted, u \in Tx : t < u /\ Answered(u) => Answered(t))'
    BY DEF KeepInv, Answered
  <1>5. QED
    BY <1>1, <1>2, <1>3, <1>4 DEF KeepInv

\* The requests and what the handler has finished stay.
LEMMA UndoneStays ==
    ASSUME NothingUndone, lpc' = "undo" => lpc = "undo", UNCHANGED <<reqs, hpc, finished>>
    PROVE  NothingUndone'
  BY DEF NothingUndone

\* The process ended: nothing is accepted, nothing requested.
LEMMA ResetKeep ==
    ASSUME TypeOK, KeepInv, Reset, UNCHANGED <<nodeVars, db, final>>
    PROVE  KeepInv'
  <1>1. reqs' = <<>> /\ lpc' = "boot" /\ hpc' = "idle" /\ accepted' = {} /\ DOMAIN reqs' = {}
    BY DEF Reset
  <1>2. IdsDistinct'
    BY IdsStayDistinct DEF KeepInv, IdsKept, nodeVars
  <1>3. QED
    BY <1>1, <1>2 DEF KeepInv, NothingUndone, NoneForgotten

LEMMA NodeKeep == TypeOK /\ KeepInv /\ Node => KeepInv'
  <1> SUFFICES ASSUME TypeOK, KeepInv, Node PROVE KeepInv'
    OBVIOUS
  <1>1. IdsKept /\ UNCHANGED <<sent, db, reqs, linkVars, handlerVars, history>>
    BY NodeKeepsIds
  <1>2. UNCHANGED <<sent, reqs, lpc, cur, hpc, finished, accepted, final>>
    BY <1>1 DEF linkVars, handlerVars, history
  <1>3. IdsDistinct' /\ NothingUndone'
    BY <1>1, <1>2, IdsStayDistinct, UndoneStays DEF KeepInv
  <1>4. QED
    BY <1>2, <1>3, QuietKeep

\* With ids of their own, a request is the only one of its id.
LEMMA OwnId ==
    ASSUME TypeOK, QueueInv, KeepInv, ~ReuseIds, NEW t \in 1 .. sent
    PROVE  /\ \A i \in First(reqs, txs[t].id) : reqs[i] = t
           /\ \A i \in DOMAIN reqs : reqs[i] = t => i \in First(reqs, txs[t].id)
  <1>1. \A i \in DOMAIN reqs : reqs[i] \in 1 .. sent
    BY QueueTypes, SenderAssumption DEF QueueInv, ReqsAscend, Tx
  <1>2. \A u \in 1 .. sent : txs[u].id = txs[t].id => u = t
    BY DEF KeepInv, IdsDistinct, SameId
  <1>3. \A i \in First(reqs, txs[t].id) : reqs[i] = t
    BY <1>1, <1>2 DEF First
  <1>4. ASSUME NEW i \in DOMAIN reqs, reqs[i] = t PROVE i \in First(reqs, txs[t].id)
    <2>1. ASSUME NEW j \in 1 .. i - 1 PROVE txs[reqs[j]].id # txs[t].id
      <3>1. j \in DOMAIN reqs /\ reqs[j] < reqs[i] /\ reqs[i] \in Nat
        BY QueueTypes DEF QueueInv, ReqsAscend
      <3>2. reqs[j] \in 1 .. sent /\ reqs[j] # t
        BY <1>1, <1>4, <3>1
      <3>3. QED
        BY <1>2, <3>2
    <2>2. QED
      BY <1>4, <2>1 DEF First
  <1>5. QED
    BY <1>3, <1>4

\* The requests but one that is not waited for are kept.
LEMMA RemovalKeep ==
    ASSUME TypeOK, QueueInv, KeepInv, NEW i \in DOMAIN reqs, reqs' = Without(reqs, i),
           UNCHANGED <<accepted, final>>, Answered(reqs[i]) \/ reqs[i] \notin accepted
    PROVE  /\ NoneForgotten'
           /\ \A t \in Tx : InReqs(t) /\ t # reqs[i] => \E k \in DOMAIN reqs' : reqs'[k] = t
           /\ \A k \in DOMAIN reqs' : \E j \in DOMAIN reqs : reqs'[k] = reqs[j] /\ reqs[j] # reqs[i]
           /\ (\A t \in accepted, u \in Tx : t < u /\ Answered(u) => Answered(t))'
  <1> USE QueueTypes
  <1>1. \A j \in DOMAIN reqs : j # i => \E k \in DOMAIN reqs' : reqs'[k] = reqs[j]
    BY WithoutKeeps
  <1>2. \A t \in Tx : InReqs(t) /\ t # reqs[i] => \E k \in DOMAIN reqs' : reqs'[k] = t
    BY <1>1 DEF InReqs
  <1>3. NoneForgotten'
    <2> SUFFICES ASSUME NEW t \in accepted, ~Answered(t) PROVE \E k \in DOMAIN reqs' : reqs'[k] = t
      BY DEF NoneForgotten, Answered
    <2>1. InReqs(t) /\ t # reqs[i] /\ t \in Tx
      BY DEF KeepInv, NoneForgotten, Answered, InReqs, TypeOK
    <2>2. QED
      BY <1>2, <2>1
  <1>4. (\A t \in accepted, u \in Tx : t < u /\ Answered(u) => Answered(t))'
    BY DEF KeepInv, Answered
  <1>5. ASSUME NEW k \in DOMAIN reqs'
        PROVE  \E j \in DOMAIN reqs : reqs'[k] = reqs[j] /\ reqs[j] # reqs[i]
    <2>1. /\ reqs' \in Seq(Tx) /\ Len(reqs') = Len(reqs) - 1
          /\ \A j \in 1 .. Len(reqs) - 1 : reqs'[j] = IF j < i THEN reqs[j] ELSE reqs[j + 1]
      BY WithoutElements
    <2>2. k \in 1 .. Len(reqs) - 1
      BY <2>1, LenProperties
    <2>3. \A a \in DOMAIN reqs : \A b \in 1 .. a - 1 : reqs[b] < reqs[a]
      BY DEF QueueInv, ReqsAscend
    <2>4. CASE k < i
      <3>0. reqs'[k] = reqs[k]
        BY <2>1, <2>2, <2>4
      <3>1. k \in DOMAIN reqs /\ k \in 1 .. i - 1 /\ reqs'[k] = reqs[k]
        BY <2>2, <2>4, <3>0
      <3>2. reqs[k] < reqs[i] /\ reqs[k] \in Nat /\ reqs[i] \in Nat
        BY <2>3, <3>1
      <3>3. QED
        BY <3>1, <3>2
    <2>5. CASE ~(k < i)
      <3>0. reqs'[k] = reqs[k + 1]
        BY <2>1, <2>2, <2>5
      <3>1. k + 1 \in DOMAIN reqs /\ i \in 1 .. (k + 1) - 1 /\ reqs'[k] = reqs[k + 1]
        BY <2>2, <2>5, <3>0, SMTT(30)
      <3>2. reqs[i] < reqs[k + 1] /\ reqs[k + 1] \in Nat /\ reqs[i] \in Nat
        BY <2>3, <3>1
      <3>3. QED
        BY <3>1, <3>2
    <2>6. QED
      BY <2>4, <2>5
  <1>6. QED
    BY <1>2, <1>3, <1>4, <1>5

LEMMA LinkKeep == Distinct /\ TypeOK /\ QueueInv /\ KeepInv /\ TypeOK' /\ Link => KeepInv'
  <1> SUFFICES ASSUME Distinct, TypeOK, QueueInv, KeepInv, TypeOK', Link PROVE KeepInv'
    OBVIOUS
  <1> USE QueueTypes
  <1>1. ASSUME NEW id \in Ids, Relay(id) PROVE KeepInv'
    <2>1. /\ lpc = "idle" /\ sent < MaxTx /\ sent' = sent + 1 /\ lpc' = "add"
          /\ ReuseIds \/ \A t \in 1 .. sent : txs[t].id # id
          /\ UNCHANGED <<reqs, hpc, finished, accepted, final>>
      BY <1>1, Zenon DEF Relay, handlerVars, history
    <2>2. sent + 1 \in Tx /\ sent + 1 \notin 1 .. sent
      BY <2>1, SenderAssumption DEF Tx
    <2>3. \A t \in 1 .. sent : txs'[t].id = txs[t].id
      <3>1. \A t \in 1 .. sent : t \in Tx /\ t # sent + 1
        OBVIOUS
      <3>2. \A t \in Tx : t # sent + 1 => txs'[t] = txs[t]
        BY <1>1 DEF Relay, TypeOK
      <3>3. QED
        BY <3>1, <3>2
    <2>4. txs'[sent + 1].id = id
      <3>1. txs' = [txs EXCEPT ![sent + 1].st = SentTo, ![sent + 1].id = id]
        BY <1>1, Zenon DEF Relay
      <3>2. txs[sent + 1] \in TxState /\ txs \in [Tx -> TxState]
        BY <2>2 DEF TypeOK
      <3>3. txs'[sent + 1] = [txs[sent + 1] EXCEPT !.st = SentTo, !.id = id]
        BY <2>2, <3>1, <3>2
      <3>4. QED
        BY <3>2, <3>3 DEF TxState
    <2>5. IdsDistinct'
      <3> SUFFICES ASSUME ~ReuseIds, NEW t \in 1 .. sent + 1, NEW u \in 1 .. sent + 1,
                          txs'[t].id = txs'[u].id
                   PROVE  t = u
        BY <2>1 DEF IdsDistinct, SameId
      <3>1. /\ t = sent + 1 \/ t \in 1 .. sent
            /\ u = sent + 1 \/ u \in 1 .. sent
        OBVIOUS
      <3>2. \A v \in 1 .. sent : txs[v].id # id
        BY <2>1
      <3>3. CASE t \in 1 .. sent /\ u \in 1 .. sent
        BY <2>3, <3>3 DEF KeepInv, IdsDistinct, SameId
      <3>4. QED
        BY <2>3, <2>4, <3>1, <3>2, <3>3
    <2>6. NothingUndone'
      BY <2>1, UndoneStays DEF KeepInv
    <2>7. QED
      BY <2>1, <2>5, <2>6, QuietKeep
  <1>2. ASSUME AddRequest PROVE KeepInv'
    <2>1. /\ lpc = "add" /\ ~ReadLocked /\ reqs' = Append(reqs, cur) /\ lpc' = "put"
          /\ UNCHANGED <<nodeVars, db, cur, handlerVars, history, budgets>>
      BY <1>2, Zenon DEF AddRequest
    <2>2. cur \in Tx
      BY <2>1
    <2>3. /\ reqs' \in Seq(Tx) /\ Len(reqs') = Len(reqs) + 1 /\ reqs'[Len(reqs) + 1] = cur
          /\ \A i \in 1 .. Len(reqs) : reqs'[i] = reqs[i]
      BY <2>1, <2>2, AppendProperties
    <2>4. DOMAIN reqs' = 1 .. Len(reqs) + 1
      BY <2>3, LenProperties
    <2>5. UNCHANGED <<txs, sent, hpc, finished, accepted, final, cur>>
      BY <2>1 DEF nodeVars, handlerVars, history
    <2>6. IdsDistinct'
      BY <2>5, IdsStayDistinct DEF KeepInv, IdsKept
    <2>7. NothingUndone'
      <3> SUFFICES ASSUME MaxDbFaults = 0, hpc = "remove"
                   PROVE  /\ Len(finished) <= Len(reqs')
                          /\ \A k \in 1 .. Len(finished) : reqs'[k] = finished[k]
        BY <2>1, <2>5 DEF NothingUndone
      <3>1. Len(finished) <= Len(reqs) /\ \A k \in 1 .. Len(finished) : reqs[k] = finished[k]
        BY DEF KeepInv, NothingUndone
      <3>2. QED
        BY <2>3, <3>1
    <2>8. \A t \in Tx : InReqs(t) => \E i \in DOMAIN reqs' : reqs'[i] = t
      BY <2>3, <2>4 DEF InReqs
    <2>9. NoneForgotten'
      BY <2>5, <2>8 DEF KeepInv, NoneForgotten, InReqs, TypeOK
    <2>10. InReqs(cur)'
      <3>1. Len(reqs) + 1 \in DOMAIN reqs'
        BY <2>4
      <3>2. QED
        BY <2>3, <2>5, <3>1 DEF InReqs
    <2>11. \A i \in 1 .. Len(reqs) + 1 : i = Len(reqs) + 1 \/ i \in 1 .. Len(reqs)
      OBVIOUS
    <2>12. (\A i \in DOMAIN reqs : reqs[i] \in accepted \/ (lpc \in {"put", "undo"} /\ reqs[i] = cur))'
      BY <2>1, <2>3, <2>4, <2>5, <2>11 DEF KeepInv
    <2>13. (\A t \in accepted, u \in Tx : t < u /\ Answered(u) => Answered(t))'
      BY <2>5 DEF KeepInv, Answered
    <2>14. QED
      BY <2>6, <2>7, <2>9, <2>10, <2>12, <2>13 DEF KeepInv
  <1>3. ASSUME PutLastTransaction PROVE KeepInv'
    <2>1. /\ lpc = "put" /\ accepted' = accepted \cup {cur} /\ lpc' = "idle"
          /\ UNCHANGED <<txs, sent, reqs, hpc, finished, final>>
      BY <1>3, Zenon DEF PutLastTransaction, nodeVars, handlerVars
    <2>2. IdsDistinct' /\ NothingUndone'
      BY <2>1, IdsStayDistinct, UndoneStays DEF KeepInv, IdsKept
    <2>3. NoneForgotten'
      BY <2>1 DEF KeepInv, NoneForgotten, Answered, InReqs
    <2>4. \A i \in DOMAIN reqs' : reqs'[i] \in accepted'
      BY <2>1 DEF KeepInv
    <2>5. (\A t \in accepted, u \in Tx : t < u /\ Answered(u) => Answered(t))'
      <3>1. cur = sent /\ \A u \in Tx : u > sent => ~Answered(u)
        BY <2>1 DEF QueueInv, LinkInv
      <3>2. QED
        BY <2>1, <3>1 DEF KeepInv, Answered
    <2>6. QED
      BY <2>1, <2>2, <2>3, <2>4, <2>5 DEF KeepInv
  <1>4. ASSUME UndoRequest PROVE KeepInv'
    <2>1. /\ lpc = "undo" /\ ~ReadLocked /\ RemoveRequest(txs[cur].id) /\ lpc' = "idle"
          /\ UNCHANGED <<txs, sent, hpc, finished, accepted, final>>
      BY <1>4, Zenon DEF UndoRequest, nodeVars, handlerVars, history
    <2>2. MaxDbFaults # 0 /\ ~ReuseIds
      BY <2>1 DEF KeepInv, NothingUndone, Distinct
    <2>3. cur \in 1 .. sent /\ cur \notin accepted
      BY <2>1, SenderAssumption DEF QueueInv, LinkInv, Tx
    <2>4. IdsDistinct' /\ NothingUndone'
      BY <2>1, <2>2, IdsStayDistinct DEF KeepInv, IdsKept, NothingUndone
    <2>5. \A i \in DOMAIN reqs : reqs[i] \in accepted \/ reqs[i] = cur
      BY DEF KeepInv
    <2>6. CASE First(reqs, txs[cur].id) = {} /\ reqs' = reqs
      <3>1. \A i \in DOMAIN reqs : reqs[i] # cur
        BY <2>2, <2>3, <2>6, OwnId
      <3>2. NoneForgotten' /\ (\A t \in accepted, u \in Tx : t < u /\ Answered(u) => Answered(t))'
        BY <2>1, <2>6 DEF KeepInv, NoneForgotten, Answered
      <3>3. QED
        BY <2>1, <2>4, <2>5, <2>6, <3>1, <3>2 DEF KeepInv
    <2>7. CASE \E i \in First(reqs, txs[cur].id) : reqs' = Without(reqs, i)
      <3>1. PICK i \in First(reqs, txs[cur].id) : reqs' = Without(reqs, i)
        BY <2>7
      <3>2. i \in DOMAIN reqs /\ reqs[i] = cur
        BY <2>2, <2>3, OwnId DEF First
      <3>3. /\ NoneForgotten'
            /\ \A k \in DOMAIN reqs' : \E j \in DOMAIN reqs : reqs'[k] = reqs[j] /\ reqs[j] # reqs[i]
            /\ (\A t \in accepted, u \in Tx : t < u /\ Answered(u) => Answered(t))'
        BY <2>1, <2>3, <3>1, <3>2, RemovalKeep
      <3>4. \A k \in DOMAIN reqs' : reqs'[k] \in accepted'
        BY <2>1, <2>5, <3>2, <3>3
      <3>5. QED
        BY <2>1, <2>4, <3>3, <3>4 DEF KeepInv
    <2>8. QED
      BY <2>1, <2>6, <2>7 DEF RemoveRequest
  <1>5. ASSUME PutFails PROVE KeepInv'
    <2>1. /\ lpc = "put" /\ lpc' = "undo" /\ dbFaults < MaxDbFaults
          /\ UNCHANGED <<txs, sent, reqs, cur, hpc, finished, accepted, final>>
      BY <1>5, Zenon DEF PutFails, nodeVars, handlerVars, history
    <2>2. MaxDbFaults # 0
      BY <2>1, SenderAssumption DEF TypeOK
    <2>3. IdsDistinct' /\ NothingUndone'
      BY <2>1, <2>2, IdsStayDistinct DEF KeepInv, IdsKept, NothingUndone
    <2>4. QED
      BY <2>1, <2>3, QuietKeep
  <1>6. ASSUME ReadLastTransaction \/ Wake \/ CallStatus PROVE KeepInv'
    <2>1. /\ lpc \notin {"put", "undo"} /\ lpc' \notin {"put", "undo"}
          /\ UNCHANGED <<txs, sent, reqs, cur, hpc, finished, accepted, final>>
      BY <1>6 DEF ReadLastTransaction, Wake, CallStatus, nodeVars, handlerVars, history
    <2>2. IdsDistinct' /\ NothingUndone'
      BY <2>1, IdsStayDistinct, UndoneStays DEF KeepInv, IdsKept
    <2>3. QED
      BY <2>1, <2>2, QuietKeep
  <1>7. QED
    BY <1>1, <1>2, <1>3, <1>4, <1>5, <1>6 DEF Link

\* A step of the handler that gives no result and leaves the requests.
LEMMA QuietHandlerKeep ==
    ASSUME TypeOK, KeepInv, UNCHANGED <<nodeVars, reqs, linkVars, history>>, NothingUndone'
    PROVE  KeepInv'
  <1>1. UNCHANGED <<txs, sent, lpc, cur, accepted, final>>
    BY DEF nodeVars, linkVars, history
  <1>2. IdsDistinct'
    BY <1>1, IdsStayDistinct DEF KeepInv, IdsKept
  <1>3. QED
    BY <1>1, <1>2, QuietKeep

\* The handler gives up the lock: the finished requests are the ones in front.
LEMMA EndUndone ==
    ASSUME TypeOK, QueueInv, KeepInv, hpc \in {"check", "send"}, UNCHANGED <<reqs, finished, lpc>>
    PROVE  NothingUndone'
  <1>1. /\ hi <= Len(reqs) + 1 /\ Len(finished) = hi - 1
        /\ \A i \in 1 .. hi - 1 : finished[i] = reqs[i]
    BY DEF QueueInv, HandlerInv
  <1>2. Len(finished) <= Len(reqs) /\ \A i \in 1 .. Len(finished) : finished[i] = reqs[i]
    BY <1>1, QueueTypes
  <1>3. QED
    BY <1>2 DEF KeepInv, NothingUndone

\* The request that a removal by the id of a finished one takes is that one.
LEMMA FinishedGoes ==
    ASSUME Distinct, TypeOK, QueueInv, KeepInv, hpc = "remove", finished # <<>>,
           NEW i \in First(reqs, txs[Head(finished)].id)
    PROVE  reqs[i] = Head(finished) /\ (MaxDbFaults = 0 => i = 1)
  <1> USE QueueTypes
  <1>1. Len(finished) # 0 /\ Head(finished) = finished[1] /\ 1 \in 1 .. Len(finished)
    BY EmptySeq
  <1>2. Head(finished) \in 1 .. sent
    <2>1. finished[1] \in Tx /\ finished[1] <= sent
      BY <1>1 DEF QueueInv, HandlerInv
    <2>2. QED
      BY <1>1, <2>1, SenderAssumption DEF Tx
  <1>3. CASE MaxDbFaults = 0
    <2>1. reqs[1] = finished[1] /\ 1 \in DOMAIN reqs
      BY <1>1, <1>3 DEF KeepInv, NothingUndone
    <2>2. i = 1
      <3>1. SUFFICES ASSUME i # 1 PROVE FALSE
        OBVIOUS
      <3>2. i \in DOMAIN reqs /\ \A j \in 1 .. i - 1 : txs[reqs[j]].id # txs[Head(finished)].id
        BY Zenon DEF First
      <3>3. 1 \in 1 .. i - 1
        BY <3>1, <3>2
      <3>4. QED
        BY <1>1, <2>1, <3>2, <3>3
    <2>3. QED
      BY <1>1, <2>1, <2>2
  <1>4. CASE MaxDbFaults # 0
    BY <1>2, <1>4, OwnId DEF Distinct
  <1>5. QED
    BY <1>3, <1>4

LEMMA DeliverFinalKeep ==
    ASSUME TypeOK, QueueInv, KeepInv, Deliver, res.final
    PROVE  KeepInv'
  <1> USE QueueTypes
  <1>1. /\ hpc = "send" /\ final' = [final EXCEPT ![res.tx] = res.code] /\ hpc' = "check"
        /\ UNCHANGED <<txs, sent, lpc, cur, reqs, accepted>>
    BY Zenon DEF Deliver, nodeVars, linkVars
  <1>2. res.tx \in Tx /\ res.tx = reqs[hi] /\ hi \in 1 .. Len(reqs)
    BY <1>1 DEF QueueInv, HandlerInv
  <1>3. final'[res.tx] # "none" /\ \A t \in Tx : Answered(t) => Answered(t)'
    <2>1. final \in [Tx -> Codes \cup {"none"}] /\ res.code \in Codes
      BY DEF TypeOK, Result
    <2>2. res.code # "none"
      BY <2>1 DEF Codes
    <2>3. QED
      BY <1>1, <1>2, <2>1, <2>2 DEF Answered
  <1>4. IdsDistinct' /\ NothingUndone'
    BY <1>1, IdsStayDistinct DEF KeepInv, IdsKept, NothingUndone
  <1>5. accepted \subseteq Tx /\ (lpc = "put" => cur \in Tx)
    BY DEF TypeOK
  <1>6. NoneForgotten'
    BY <1>1, <1>3, <1>5 DEF KeepInv, NoneForgotten, Answered
  <1>7. (lpc = "put" => Answered(cur) \/ InReqs(cur))'
    BY <1>1, <1>3, <1>5 DEF KeepInv, Answered, InReqs
  <1>8. (\A i \in DOMAIN reqs : reqs[i] \in accepted \/ (lpc \in {"put", "undo"} /\ reqs[i] = cur))'
    BY <1>1 DEF KeepInv
  <1>9. (\A t \in accepted, u \in Tx : t < u /\ Answered(u) => Answered(t))'
    <2> SUFFICES ASSUME NEW t \in accepted, NEW u \in Tx, t < u, Answered(u)', ~Answered(t)
                 PROVE  Answered(t)'
      BY <1>1, <1>3, <1>5
    <2>1. u = res.tx
      <3>1. ~Answered(u)
        BY DEF KeepInv
      <3>2. QED
        BY <1>1, <3>1 DEF Answered, TypeOK
    <2>2. PICK i \in DOMAIN reqs : reqs[i] = t
      BY DEF KeepInv, NoneForgotten, Answered
    <2>3. i < hi
      <3>1. SUFFICES ASSUME ~(i < hi) PROVE FALSE
        OBVIOUS
      <3>2. i = hi \/ hi \in 1 .. i - 1
        BY <1>2, <3>1
      <3>3. reqs[hi] <= reqs[i]
        BY <1>2, <3>2 DEF QueueInv, ReqsAscend
      <3>4. QED
        BY <1>2, <1>5, <2>1, <2>2, <3>3
    <2>4. i \in 1 .. hi - 1 /\ i \in 1 .. Len(finished) /\ finished[i] = reqs[i]
      BY <1>1, <1>2, <2>3 DEF QueueInv, HandlerInv
    <2>5. Answered(t)
      BY <2>2, <2>4 DEF QueueInv, HandlerInv
    <2>6. QED
      BY <2>5
  <1>10. QED
    BY <1>4, <1>6, <1>7, <1>8, <1>9 DEF KeepInv

LEMMA RemoveFinishedKeep ==
    ASSUME Distinct, TypeOK, QueueInv, KeepInv, RemoveFinished
    PROVE  KeepInv'
  <1> USE QueueTypes
  <1>1. /\ hpc = "remove" /\ finished # <<>> /\ RemoveRequest(txs[Head(finished)].id)
        /\ finished' = Tail(finished)
        /\ UNCHANGED <<txs, sent, lpc, cur, hpc, accepted, final>>
    BY Zenon DEF RemoveFinished, nodeVars, linkVars, history
  <1>2. Len(finished) # 0 /\ Head(finished) = finished[1] /\ 1 \in 1 .. Len(finished)
    BY <1>1, EmptySeq
  <1>3. Answered(Head(finished)) /\ Head(finished) \in Tx
    BY <1>2 DEF QueueInv, HandlerInv
  <1>4. IdsDistinct'
    BY <1>1, IdsStayDistinct DEF KeepInv, IdsKept
  <1>5. /\ Len(finished') = Len(finished) - 1
        /\ \A k \in 1 .. Len(finished') : finished'[k] = finished[k + 1]
    BY <1>1, HeadTailProperties
  <1>6. CASE First(reqs, txs[Head(finished)].id) = {} /\ reqs' = reqs
    <2>1. MaxDbFaults # 0
      <3>1. SUFFICES ASSUME MaxDbFaults = 0 PROVE FALSE
        OBVIOUS
      <3>2. 1 \in DOMAIN reqs /\ reqs[1] = finished[1]
        BY <1>1, <1>2, <3>1 DEF KeepInv, NothingUndone
      <3>3. 1 \in First(reqs, txs[Head(finished)].id)
        BY <1>2, <3>2 DEF First
      <3>4. QED
        BY <1>6, <3>3
    <2>2. NothingUndone'
      BY <2>1 DEF NothingUndone
    <2>3. QED
      BY <1>1, <1>4, <1>6, <2>2, QuietKeep
  <1>7. CASE \E i \in First(reqs, txs[Head(finished)].id) : reqs' = Without(reqs, i)
    <2>1. PICK i \in First(reqs, txs[Head(finished)].id) : reqs' = Without(reqs, i)
      BY <1>7
    <2>2. i \in DOMAIN reqs /\ reqs[i] = Head(finished) /\ (MaxDbFaults = 0 => i = 1)
      BY <1>1, FinishedGoes DEF First
    <2>3. /\ NoneForgotten'
          /\ \A t \in Tx : InReqs(t) /\ t # reqs[i] => \E k \in DOMAIN reqs' : reqs'[k] = t
          /\ \A k \in DOMAIN reqs' : \E j \in DOMAIN reqs : reqs'[k] = reqs[j] /\ reqs[j] # reqs[i]
          /\ (\A t \in accepted, u \in Tx : t < u /\ Answered(u) => Answered(t))'
      BY <1>1, <1>3, <2>1, <2>2, RemovalKeep
    <2>4. NothingUndone'
      <3> SUFFICES ASSUME MaxDbFaults = 0
                   PROVE  /\ lpc # "undo"
                          /\ Len(finished') <= Len(reqs')
                          /\ \A k \in 1 .. Len(finished') : reqs'[k] = finished'[k]
        BY <1>1 DEF NothingUndone
      <3>1. /\ lpc # "undo" /\ Len(finished) <= Len(reqs)
            /\ \A k \in 1 .. Len(finished) : reqs[k] = finished[k]
        BY <1>1 DEF KeepInv, NothingUndone
      <3>2. /\ Len(reqs') = Len(reqs) - 1
            /\ \A j \in 1 .. Len(reqs) - 1 : reqs'[j] = IF j < 1 THEN reqs[j] ELSE reqs[j + 1]
        BY <2>1, <2>2, WithoutElements
      <3>3. Len(finished') <= Len(reqs')
        BY <1>5, <3>1, <3>2
      <3>4. ASSUME NEW k \in 1 .. Len(finished') PROVE reqs'[k] = finished'[k]
        <4>1. k \in 1 .. Len(reqs) - 1 /\ k + 1 \in 1 .. Len(finished) /\ ~(k < 1)
          BY <1>5, <3>1
        <4>2. reqs'[k] = reqs[k + 1] /\ reqs[k + 1] = finished[k + 1]
          BY <3>1, <3>2, <4>1
        <4>3. QED
          BY <1>5, <4>2
      <3>5. QED
        BY <3>1, <3>3, <3>4
    <2>5. (lpc = "put" => Answered(cur) \/ InReqs(cur))'
      <3> SUFFICES ASSUME lpc = "put", ~Answered(cur)
                   PROVE  \E k \in DOMAIN reqs' : reqs'[k] = cur
        BY <1>1 DEF Answered, InReqs
      <3>1. InReqs(cur) /\ cur # reqs[i] /\ cur \in Tx
        BY <1>3, <2>2 DEF KeepInv
      <3>2. QED
        BY <2>3, <3>1
    <2>6. (\A k \in DOMAIN reqs : reqs[k] \in accepted \/ (lpc \in {"put", "undo"} /\ reqs[k] = cur))'
      BY <1>1, <2>3 DEF KeepInv
    <2>7. QED
      BY <1>4, <2>3, <2>4, <2>5, <2>6 DEF KeepInv
  <1>8. QED
    BY <1>1, <1>6, <1>7 DEF RemoveRequest

LEMMA HandlerKeep == Distinct /\ TypeOK /\ QueueInv /\ KeepInv /\ Handler => KeepInv'
  <1> SUFFICES ASSUME Distinct, TypeOK, QueueInv, KeepInv, Handler PROVE KeepInv'
    OBVIOUS
  <1>1. ASSUME FinalityUpdate \/ EndRemove PROVE KeepInv'
    <2>1. hpc' # "remove" /\ UNCHANGED <<nodeVars, reqs, linkVars, history>>
      BY <1>1 DEF FinalityUpdate, EndRemove
    <2>2. NothingUndone'
      BY <2>1 DEF KeepInv, NothingUndone, linkVars
    <2>3. QED
      BY <2>1, <2>2, QuietHandlerKeep
  <1>2. ASSUME EndCheck PROVE KeepInv'
    <2>1. hpc = "check" /\ UNCHANGED <<nodeVars, reqs, linkVars, history, finished>>
      BY <1>2 DEF EndCheck
    <2>2. NothingUndone'
      BY <2>1, EndUndone DEF linkVars
    <2>3. QED
      BY <2>1, <2>2, QuietHandlerKeep
  <1>3. ASSUME CheckLost \/ CheckFails \/ CheckMined PROVE KeepInv'
    <2>1. hpc' # "remove" /\ UNCHANGED <<nodeVars, reqs, linkVars, history>>
      BY <1>3 DEF CheckLost, CheckFails, CheckMined, Send
    <2>2. NothingUndone'
      BY <2>1 DEF KeepInv, NothingUndone, linkVars
    <2>3. QED
      BY <2>1, <2>2, QuietHandlerKeep
  <1>4. ASSUME RevertPanics PROVE KeepInv'
    BY <1>4, ResetKeep DEF RevertPanics
  <1>5. ASSUME Deliver PROVE KeepInv'
    <2>1. CASE res.final
      BY <1>5, <2>1, DeliverFinalKeep
    <2>2. CASE ~res.final
      <3>1. /\ hpc = "send" /\ finished' = finished
            /\ UNCHANGED <<txs, sent, reqs, lpc, cur, accepted, final>>
        BY <1>5, <2>2, Zenon DEF Deliver, FinishedWith, nodeVars, linkVars
      <3>2. NothingUndone'
        BY <3>1, EndUndone
      <3>3. IdsDistinct'
        BY <3>1, IdsStayDistinct DEF KeepInv, IdsKept
      <3>4. QED
        BY <3>1, <3>2, <3>3, QuietKeep
    <2>3. QED
      BY <2>1, <2>2
  <1>6. ASSUME RemoveFinished PROVE KeepInv'
    BY <1>6, RemoveFinishedKeep
  <1>7. QED
    BY <1>1, <1>2, <1>3, <1>4, <1>5, <1>6 DEF Handler

LEMMA InitKeep == Init => KeepInv
  <1> SUFFICES ASSUME Init PROVE KeepInv
    OBVIOUS
  <1>1. DOMAIN reqs = {} /\ 1 .. sent = {} /\ accepted = {} /\ lpc = "boot" /\ hpc = "idle"
    BY DEF Init
  <1>2. QED
    BY <1>1 DEF KeepInv, IdsDistinct, NothingUndone, NoneForgotten

LEMMA NextKeep == Distinct /\ TypeOK /\ QueueInv /\ KeepInv /\ TypeOK' /\ [Next]_vars => KeepInv'
  <1> SUFFICES ASSUME Distinct, TypeOK, QueueInv, KeepInv, TypeOK', [Next]_vars PROVE KeepInv'
    OBVIOUS
  <1>1. CASE Restart
    BY <1>1, ResetKeep DEF Restart
  <1>2. CASE UNCHANGED vars
    <2>1. NothingUndone' /\ UNCHANGED <<nodeVars, reqs, linkVars, history>>
      BY <1>2 DEF KeepInv, NothingUndone, vars, linkVars, handlerVars
    <2>2. QED
      BY <2>1, QuietHandlerKeep
  <1>3. QED
    BY <1>1, <1>2, NodeKeep, LinkKeep, HandlerKeep DEF Next

LEMMA KeepAlways == ASSUME Distinct PROVE Spec => [](TypeOK /\ QueueInv /\ KeepInv)
  <1>1. Init => TypeOK /\ QueueInv /\ KeepInv
    BY InitTypeOK, InitQueue, InitKeep
  <1>2. TypeOK /\ QueueInv /\ KeepInv /\ [Next]_vars => (TypeOK /\ QueueInv /\ KeepInv)'
    BY NextTypeOK, NextQueue, NextKeep
  <1>3. QED
    BY <1>1, <1>2, PTL DEF Spec

\* A message that Relay took stays a request until its final result, if a message
\* is never relayed under an old id or the database never fails: then removeRequest,
\* which goes by the id and takes the first it finds, takes the one it is meant for.
THEOREM RequestsAreKept == ASSUME Distinct PROVE Spec => []NoneForgotten
  <1>1. KeepInv => NoneForgotten
    BY DEF KeepInv
  <1>2. QED
    BY <1>1, KeepAlways, PTL

\* Under the same condition final results come in the order of the calls of Relay,
\* whatever stops the loop of _checkRelayResult in between.
THEOREM ResultsAreOrdered == ASSUME Distinct PROVE Spec => []ResultsInOrder
  <1>1. TypeOK /\ KeepInv => ResultsInOrder
    BY DEF TypeOK, KeepInv, ResultsInOrder, Answered
  <1>2. QED
    BY <1>1, KeepAlways, PTL

------------------------------------------------------------------------------
(* The sender implements ResultStream *)

\* Nothing is forgotten, so that what waits is what has no result.
LEMMA WaitingIs == KeepInv => {t \in Tx : Waits(t)} = {t \in Tx : t \in accepted /\ ~Answered(t)}
  BY DEF KeepInv, NoneForgotten, Waits, Answered

\* The state that ResultStream sees, and a step that changes none of it.
Seen == <<lpc # "boot", {t \in Tx : Waits(t)}, final>>

LEMMA UnseenStep ==
    ASSUME KeepInv, KeepInv', UNCHANGED <<accepted, final>>, lpc = "boot" <=> lpc' = "boot"
    PROVE  UNCHANGED Seen
  <1>1. {t \in Tx : Waits(t)} = {t \in Tx : t \in accepted /\ ~Answered(t)}
    BY WaitingIs
  <1>2. {t \in Tx : Waits(t)}' = {t \in Tx : t \in accepted' /\ final'[t] = "none"}
    BY DEF KeepInv, NoneForgotten, Waits
  <1>3. {t \in Tx : Waits(t)}' = {t \in Tx : Waits(t)}
    BY <1>1, <1>2 DEF Answered
  <1>4. (lpc # "boot")' = (lpc # "boot")
    OBVIOUS
  <1>5. QED
    BY <1>3, <1>4 DEF Seen

\* Relay returns: its message waits from now on, behind all others, unless its
\* result was quicker.
LEMMA PutStep ==
    ASSUME TypeOK, QueueInv, KeepInv, KeepInv', PutLastTransaction
    PROVE  Results!Next \/ UNCHANGED Seen
  <1>1. lpc = "put" /\ lpc' = "idle" /\ accepted' = accepted \cup {cur} /\ final' = final
    BY Zenon DEF PutLastTransaction
  <1>2. cur \in Tx /\ cur \in Nat /\ cur = sent /\ cur \notin accepted /\ \A t \in accepted : t <= sent
    BY <1>1, QueueTypes DEF QueueInv, LinkInv
  <1>3. {t \in Tx : Waits(t)} = {t \in Tx : t \in accepted /\ final[t] = "none"}
    BY WaitingIs DEF Answered
  <1>4. {t \in Tx : Waits(t)}' = {t \in Tx : t \in accepted' /\ final'[t] = "none"}
    BY DEF KeepInv, NoneForgotten, Waits
  <1>5. CASE final[cur] = "none"
    <2>1. {t \in Tx : Waits(t)}' = {t \in Tx : Waits(t)} \cup {cur}
      BY <1>1, <1>2, <1>3, <1>4, <1>5
    <2>2. \A u \in {t \in Tx : Waits(t)} : u < cur
      BY <1>2, <1>3, QueueTypes
    <2>3. Results!Take(cur)
      BY <1>1, <1>5, <2>1, <2>2 DEF Results!Take
    <2>4. QED
      BY <1>2, <2>3 DEF Results!Next, Results!Tx, Tx
  <1>6. CASE final[cur] # "none"
    <2>1. {t \in Tx : Waits(t)}' = {t \in Tx : Waits(t)}
      BY <1>1, <1>3, <1>4, <1>6
    <2>2. QED
      BY <1>1, <2>1 DEF Seen
  <1>7. QED
    BY <1>5, <1>6

\* A final result goes to the oldest message that waits, or to a call of Relay
\* that is not back yet while none waits.
LEMMA DeliverStep ==
    ASSUME TypeOK, QueueInv, KeepInv, KeepInv', Deliver, res.final
    PROVE  Results!Next
  <1> USE QueueTypes
  <1>1. /\ hpc = "send" /\ final' = [final EXCEPT ![res.tx] = res.code]
        /\ UNCHANGED <<lpc, cur, accepted>>
    BY Zenon DEF Deliver, linkVars
  <1>2. /\ res.tx \in Tx /\ res.tx = reqs[hi] /\ hi \in 1 .. Len(reqs)
        /\ \A i \in hi .. Len(reqs) : ~Answered(reqs[i])
    BY <1>1 DEF QueueInv, HandlerInv
  <1>3. final[res.tx] = "none" /\ hi \in hi .. Len(reqs)
    BY <1>2 DEF Answered
  <1>4. res.code \in Codes /\ final \in [Tx -> Codes \cup {"none"}] /\ res.code # "none"
    BY DEF TypeOK, Result, Codes
  <1>5. lpc # "boot" /\ lpc' # "boot"
    <2>1. reqs # <<>>
      BY <1>2
    <2>2. QED
      BY <1>1, <2>1 DEF QueueInv, LinkInv
  <1>6. {t \in Tx : Waits(t)} = {t \in Tx : t \in accepted /\ final[t] = "none"}
    BY WaitingIs DEF Answered
  <1>7. {t \in Tx : Waits(t)}' = {t \in Tx : t \in accepted' /\ final'[t] = "none"}
    BY DEF KeepInv, NoneForgotten, Waits
  <1>8. {t \in Tx : Waits(t)}' = {t \in Tx : Waits(t)} \ {res.tx}
    BY <1>1, <1>2, <1>4, <1>6, <1>7
  <1>9. \A u \in {t \in Tx : Waits(t)} : res.tx <= u
    <2> SUFFICES ASSUME NEW u \in Tx, u \in accepted, final[u] = "none", ~(res.tx <= u) PROVE FALSE
      BY <1>6
    <2>1. u < res.tx
      BY <1>2
    <2>2. final'[res.tx] # "none" /\ final'[u] = final[u]
      BY <1>1, <1>2, <1>4
    <2>3. \A t \in accepted', v \in Tx : t < v /\ final'[v] # "none" => final'[t] # "none"
      BY DEF KeepInv, Answered
    <2>4. QED
      BY <1>1, <1>2, <2>1, <2>2, <2>3
  <1>10. CASE res.tx \in accepted
    <2>1. res.tx \in {t \in Tx : Waits(t)}
      BY <1>2, <1>3, <1>6, <1>10
    <2>2. Results!Answer(res.tx, res.code)
      BY <1>1, <1>3, <1>5, <1>8, <1>9, <2>1 DEF Results!Answer
    <2>3. QED
      BY <1>2, <1>4, <2>2 DEF Results!Next, Results!Tx, Tx
  <1>11. CASE res.tx \notin accepted
    <2>1. lpc \in {"put", "undo"} /\ res.tx = cur /\ cur = sent
      BY <1>2, <1>11 DEF KeepInv, QueueInv, LinkInv
    <2>2. {t \in Tx : Waits(t)} = {}
      <3> SUFFICES ASSUME NEW u \in Tx, u \in accepted, final[u] = "none" PROVE FALSE
        BY <1>6
      <3>1. u <= sent /\ res.tx <= u
        BY <1>6, <1>9 DEF QueueInv, LinkInv
      <3>2. u = res.tx
        BY <1>2, <2>1, <3>1
      <3>3. QED
        BY <1>11, <3>2
    <2>3. Results!AnswerEarly(res.tx, res.code)
      BY <1>1, <1>3, <1>5, <1>8, <2>2 DEF Results!AnswerEarly
    <2>4. QED
      BY <1>2, <1>4, <2>3 DEF Results!Next, Results!Tx, Tx
  <1>12. QED
    BY <1>10, <1>11

\* The process ends, and with it all that waits.
LEMMA ResetStep == ASSUME Reset, final' = final PROVE Results!Next
  <1>1. (lpc # "boot")' = FALSE /\ {t \in Tx : Waits(t)}' = {}
    BY DEF Reset, Waits
  <1>2. QED
    BY <1>1 DEF Results!Next, Results!End

LEMMA StreamStep ==
    ASSUME TypeOK, QueueInv, KeepInv, KeepInv', [Next]_vars
    PROVE  Results!Next \/ UNCHANGED Seen
  <1>1. CASE Node
    <2>1. UNCHANGED <<lpc, accepted, final>>
      BY <1>1, NodeKeepsIds DEF linkVars, history
    <2>2. QED
      BY <2>1, UnseenStep
  <1>2. CASE Link
    <2>1. ASSUME NEW id \in Ids, Relay(id) PROVE UNCHANGED Seen
      BY <2>1, UnseenStep DEF Relay, history
    <2>2. ASSUME AddRequest \/ PutFails \/ UndoRequest \/ Wake \/ CallStatus PROVE UNCHANGED Seen
      BY <2>2, UnseenStep DEF AddRequest, PutFails, UndoRequest, Wake, CallStatus, history
    <2>3. ASSUME ReadLastTransaction PROVE Results!Next \/ UNCHANGED Seen
      <3>1. lpc' # "boot" /\ UNCHANGED <<reqs, accepted, final>>
        BY <2>3 DEF ReadLastTransaction, history
      <3>2. CASE lpc = "boot"
        <4>1. {t \in Tx : Waits(t)}' = {t \in Tx : Waits(t)}
          BY <3>1 DEF Waits
        <4>2. Results!Begin
          BY <3>1, <3>2, <4>1 DEF Results!Begin
        <4>3. QED
          BY <4>2 DEF Results!Next
      <3>3. CASE lpc # "boot"
        BY <3>1, <3>3, UnseenStep
      <3>4. QED
        BY <3>2, <3>3
    <2>4. QED
      BY <1>2, <2>1, <2>2, <2>3, PutStep DEF Link
  <1>3. CASE Handler
    <2>1. ASSUME FinalityUpdate \/ EndCheck \/ CheckLost \/ CheckFails \/ CheckMined
                 \/ RemoveFinished \/ EndRemove
          PROVE  UNCHANGED Seen
      <3>1. UNCHANGED <<linkVars, history>>
        BY <2>1 DEF FinalityUpdate, EndCheck, CheckLost, CheckFails, CheckMined, Send,
                    RemoveFinished, EndRemove
      <3>2. QED
        BY <3>1, UnseenStep DEF linkVars, history
    <2>2. ASSUME RevertPanics PROVE Results!Next
      BY <2>2, ResetStep DEF RevertPanics
    <2>3. ASSUME Deliver, ~res.final PROVE UNCHANGED Seen
      <3>1. UNCHANGED <<linkVars, accepted, final>>
        BY <2>3, Zenon DEF Deliver
      <3>2. QED
        BY <3>1, UnseenStep DEF linkVars
    <2>4. QED
      BY <1>3, <2>1, <2>2, <2>3, DeliverStep DEF Handler
  <1>4. CASE Restart
    BY <1>4, ResetStep DEF Restart
  <1>5. CASE UNCHANGED vars
    BY <1>5, UnseenStep DEF vars, linkVars, history
  <1>6. QED
    BY <1>1, <1>2, <1>3, <1>4, <1>5 DEF Next

\* The sender keeps the promise of ResultStream: a message leaves the queue by its
\* one final result alone, the oldest first, or with the process. The removals by
\* id, a write that fails and a request reported as lost are steps nobody sees.
THEOREM SenderImplements == ASSUME Distinct PROVE Spec => ImplementsResultStream
  <1>1. Init => Results!Init
    <2> SUFFICES ASSUME Init PROVE Results!Init
      OBVIOUS
    <2>1. (lpc # "boot") = FALSE /\ {t \in Tx : Waits(t)} = {} /\ final = [t \in Tx |-> "none"]
      BY DEF Init, Waits
    <2>2. QED
      BY <2>1 DEF Results!Init, Results!Tx, Tx
  <1>2. TypeOK /\ QueueInv /\ KeepInv /\ KeepInv' /\ [Next]_vars
          => [Results!Next]_<<lpc # "boot", {t \in Tx : Waits(t)}, final>>
    BY StreamStep DEF Seen
  <1>3. Spec => [](TypeOK /\ QueueInv /\ KeepInv)
    BY KeepAlways
  <1>4. QED
    BY <1>1, <1>2, <1>3, PTL DEF Spec, ImplementsResultStream, Results!Spec
=============================================================================
