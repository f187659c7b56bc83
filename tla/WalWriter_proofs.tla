--------------------------- MODULE WalWriter_proofs ---------------------------
(****************************************************************************)
(* Proofs about WalWriter, for any callers, batch, channel and segment      *)
(* sizes and faults: type correctness, and that acknowledged batches        *)
(* survive a crash, in the order in which they were enqueued.               *)
(****************************************************************************)
EXTENDS WalWriter, TLAPS

------------------------------------------------------------------------------
(* The inductive invariant *)

TypeInv ==
  /\ segments \in Seq(Seq(Frames)) /\ Len(segments) >= 1
  /\ active \in BOOLEAN /\ isClosed \in BOOLEAN /\ terminal \in BOOLEAN /\ draining \in BOOLEAN
  /\ size \in Nat
  /\ channel \in Seq(Callers) /\ Len(channel) <= ChanCap
  /\ batch \in Seq(Callers) /\ queued \in Seq(Callers)
  /\ leftover \in Callers \cup {NoOne}
  /\ pc \in [Callers -> {"idle", "blocked", "waiting", "ok", "error", "closed"}]
  /\ wpc \in {"top", "gather", "write", "commit", "drain", "fail", "exit"}
  /\ kpc \in {"none", "join", "done"}

\* What the worker has in its hands at each of its steps.
Control ==
  /\ wpc \in {"top", "drain", "fail", "exit"} => batch = <<>>
  /\ wpc \in {"gather", "fail", "exit"} => leftover = NoOne
  /\ terminal /\ ~draining => wpc \in {"top", "fail", "exit"}

\* A group commit is within BatchCap or a single ticket, and a segment within
\* SegCap or a single group commit.
Sizes ==
  /\ Len(batch) <= 1 \/ Fits(Len(batch))
  /\ size <= SegCap \/ size <= BatchCap \/ size <= Records
  /\ wpc = "commit" => size = 0

Held == IF leftover = NoOne THEN 0 ELSE 1

\* How many tickets have been answered: all but those of the batch, the leftover
\* and the channel.
Settled == Len(queued) - Len(channel) - Held - Len(batch)

\* Batch, leftover and channel are the end of the queue, in this order.
Queue ==
  /\ \A i, j \in 1..Len(queued) : queued[i] = queued[j] => i = j
  /\ Settled >= 0
  /\ \A i \in 1..Len(batch) : batch[i] = queued[Settled + i]
  /\ leftover # NoOne => leftover = queued[Settled + Len(batch) + 1]
  /\ \A i \in 1..Len(channel) : channel[i] = queued[Settled + Len(batch) + Held + i]

\* Exactly the others have their answer.
Answers ==
  /\ \A i \in 1..Len(queued) : i <= Settled => pc[queued[i]] \in {"ok", "error"}
  /\ \A i \in 1..Len(queued) : i > Settled => pc[queued[i]] = "waiting"
  /\ \A c \in Callers : pc[c] \in {"waiting", "ok"} => \E i \in 1..Len(queued) : queued[i] = c

\* A frame in the log is of a ticket that has been answered.
Logged == \A p \in Replayed : \E i \in 1..Len(queued) : i <= Settled /\ queued[i] = FrameAt(p).ticket

\* Only a failed commit leaves an incomplete frame.
Unbroken == ~terminal => \A j \in 1..Len(segments) : \A k \in 1..Len(segments[j]) : segments[j][k] # Torn

\* The two parts of CommitOrder.
Durable ==
  \A c \in Callers, n \in 1..Records :
    pc[c] = "ok" => \E p \in Replayed : FrameAt(p) = [ticket |-> c, record |-> n]
Ordered ==
  \A p, q \in Replayed :
    pc[FrameAt(p).ticket] = "ok" /\ pc[FrameAt(q).ticket] = "ok" /\ ReadBefore(p, q)
      => Precedes(FrameAt(p), FrameAt(q))

Log == Logged /\ Unbroken /\ (~DrainsBroken => Durable /\ Ordered)

Inv == TypeInv /\ Control /\ Sizes /\ Queue /\ Answers /\ Log

------------------------------------------------------------------------------
(* The frames of a batch *)

\* Division with remainder.
LEMMA Division ==
  ASSUME NEW R \in Nat \ {0}, NEW a \in Nat
  PROVE  /\ a \div R \in Nat /\ a % R \in 0..(R - 1)
         /\ a = R * (a \div R) + (a % R)
OBVIOUS

\* Quotients and remainders order the numbers.
LEMMA DivisionOrder ==
  ASSUME NEW R \in Nat \ {0}, NEW q \in Nat, NEW r \in 0..(R - 1), NEW s \in Nat, NEW t \in 0..(R - 1),
         R * q + r < R * s + t
  PROVE  q < s \/ (q = s /\ r < t)
<1>1. CASE q > s
  <2>1. q >= s + 1
    BY <1>1
  <2>2. R * q >= R * (s + 1)
    BY <2>1
  <2>3. R * (s + 1) = R * s + R
    OBVIOUS
  <2> QED BY <2>2, <2>3
<1>2. CASE q = s
  BY <1>2
<1>3. CASE q < s
  BY <1>3
<1> QED BY <1>1, <1>2, <1>3

\* The quotient and the remainder are unique.
LEMMA DivisionUnique ==
  ASSUME NEW R \in Nat \ {0}, NEW q \in Nat, NEW r \in 0..(R - 1)
  PROVE  (R * q + r) \div R = q /\ (R * q + r) % R = r
<1> DEFINE a == R * q + r
<1>1. a \in Nat
  OBVIOUS
<1>2. PICK s \in Nat, t \in 0..(R - 1) : s = a \div R /\ t = a % R /\ a = R * s + t
  BY <1>1, Division
<1>3. ~(q < s) /\ ~(s < q)
  <2>1. R * q + r = R * s + t
    BY <1>2
  <2>2. ASSUME q < s PROVE FALSE
    <3>1. R * s >= R * (q + 1)
      BY <2>2
    <3>2. R * (q + 1) = R * q + R
      OBVIOUS
    <3> QED BY <3>1, <3>2, <2>1
  <2>3. ASSUME s < q PROVE FALSE
    <3>1. R * q >= R * (s + 1)
      BY <2>3
    <3>2. R * (s + 1) = R * s + R
      OBVIOUS
    <3> QED BY <3>1, <3>2, <2>1
  <2> QED BY <2>2, <2>3
<1>4. q = s
  BY <1>3
<1>5. r = t
  BY <1>2, <1>4
<1> QED BY <1>2, <1>4, <1>5

\* What the worker writes for a batch: every record of every ticket, ticket by
\* ticket.
LEMMA FramesAre ==
  ASSUME NEW t \in Seq(Callers)
  PROVE  /\ FramesOf(t) \in Seq(Frames) /\ Len(FramesOf(t)) = Len(t) * Records
         /\ \A k \in 1..Len(FramesOf(t)) : \E i \in 1..Len(t), n \in 1..Records :
              FramesOf(t)[k] = [ticket |-> t[i], record |-> n]
         /\ \A i \in 1..Len(t), n \in 1..Records : \E k \in 1..Len(FramesOf(t)) :
              FramesOf(t)[k] = [ticket |-> t[i], record |-> n]
         /\ \A k, l \in 1..Len(FramesOf(t)) : k < l =>
              \E i, j \in 1..Len(t), n, m \in 1..Records :
                /\ FramesOf(t)[k] = [ticket |-> t[i], record |-> n]
                /\ FramesOf(t)[l] = [ticket |-> t[j], record |-> m]
                /\ i < j \/ (i = j /\ n < m)
<1> DEFINE R == Records
           f == FramesOf(t)
           total == Len(t) * Records
           q(k) == (k - 1) \div R
           r(k) == (k - 1) % R
<1>1. R \in Nat \ {0} /\ Len(t) \in Nat
  BY WalAssumption DEF WalAssumption
<1>2. total \in Nat
  BY <1>1
<1>3. \A k \in 1..total :
        /\ q(k) \in Nat /\ r(k) \in 0..(R - 1) /\ k - 1 = R * q(k) + r(k)
        /\ q(k) + 1 \in 1..Len(t) /\ r(k) + 1 \in 1..R
  <2> SUFFICES ASSUME NEW k \in 1..total
               PROVE  /\ q(k) \in Nat /\ r(k) \in 0..(R - 1) /\ k - 1 = R * q(k) + r(k)
                      /\ q(k) + 1 \in 1..Len(t) /\ r(k) + 1 \in 1..R
    OBVIOUS
  <2>1. k - 1 \in Nat /\ k - 1 < total
    BY <1>2
  <2>2. q(k) \in Nat /\ r(k) \in 0..(R - 1) /\ k - 1 = R * q(k) + r(k)
    BY <2>1, <1>1, Division
  <2>3. PICK a \in Nat, b \in 0..(R - 1) : a = q(k) /\ b = r(k) /\ k - 1 = R * a + b
    BY <2>2
  <2>4. R * a + b < R * Len(t) + 0
    BY <2>1, <2>3, <1>1
  <2>5. a < Len(t)
    BY <2>4, <1>1, DivisionOrder
  <2>6. a + 1 \in 1..Len(t) /\ b + 1 \in 1..R
    BY <2>5, <1>1
  <2> QED BY <2>2, <2>3, <2>6
<1>4. f = [k \in 1..total |-> [ticket |-> t[q(k) + 1], record |-> r(k) + 1]]
  BY DEF FramesOf
<1> HIDE DEF f, total, q, r
<1>5. \A k \in 1..total : f[k] = [ticket |-> t[q(k) + 1], record |-> r(k) + 1]
  BY <1>4
<1>6. \A i \in 1..Len(t) : t[i] \in Callers
  OBVIOUS
<1>7. \A k \in 1..total : f[k] \in Frames
  <2> SUFFICES ASSUME NEW k \in 1..total PROVE f[k] \in Frames
    OBVIOUS
  <2>1. t[q(k) + 1] \in Callers /\ r(k) + 1 \in 1..Records
    BY <1>3, <1>6 DEF R
  <2>2. PICK c \in Callers, n \in 1..Records : f[k] = [ticket |-> c, record |-> n]
    BY <2>1, <1>5
  <2> QED BY <2>2 DEF Frames
<1>8. f \in Seq(Frames) /\ Len(f) = total
  BY <1>2, <1>4, <1>7
<1>9. ASSUME NEW k \in 1..Len(f)
      PROVE  \E i \in 1..Len(t), n \in 1..Records : f[k] = [ticket |-> t[i], record |-> n]
  BY <1>3, <1>5, <1>8 DEF R
<1>10. ASSUME NEW i \in 1..Len(t), NEW n \in 1..Records
       PROVE  \E k \in 1..Len(f) : f[k] = [ticket |-> t[i], record |-> n]
  <2> DEFINE k == R * (i - 1) + n
  <2>1. i - 1 \in Nat /\ n - 1 \in 0..(R - 1) /\ k - 1 = R * (i - 1) + (n - 1)
    BY <1>1 DEF R
  <2>2. q(k) = i - 1 /\ r(k) = n - 1
    BY <2>1, <1>1, DivisionUnique DEF q, r
  <2>3. R * (i - 1) >= 0 /\ R * (i - 1) <= R * (Len(t) - 1)
    BY <1>1, <2>1
  <2>4. R * (Len(t) - 1) = total - R
    BY <1>1 DEF R, total
  <2>5. k \in 1..total
    BY <2>1, <2>3, <2>4, <1>1, <1>2
  <2>6. q(k) + 1 = i /\ r(k) + 1 = n
    BY <2>2, <1>1
  <2>7. f[k] = [ticket |-> t[i], record |-> n]
    BY <2>5, <2>6, <1>5
  <2> HIDE DEF k
  <2> QED BY <2>5, <2>7, <1>8
<1>11. ASSUME NEW k \in 1..Len(f), NEW l \in 1..Len(f), k < l
       PROVE  \E i, j \in 1..Len(t), n, m \in 1..Records :
                /\ f[k] = [ticket |-> t[i], record |-> n]
                /\ f[l] = [ticket |-> t[j], record |-> m]
                /\ i < j \/ (i = j /\ n < m)
  <2>1. k \in 1..total /\ l \in 1..total
    BY <1>8
  <2>2. PICK a \in Nat, b \in 0..(R - 1) : a = q(k) /\ b = r(k) /\ k - 1 = R * a + b
    BY <2>1, <1>3
  <2>3. PICK c \in Nat, d \in 0..(R - 1) : c = q(l) /\ d = r(l) /\ l - 1 = R * c + d
    BY <2>1, <1>3
  <2>4. R * a + b < R * c + d
    BY <2>2, <2>3, <1>11
  <2>5. a < c \/ (a = c /\ b < d)
    BY <2>4, <1>1, DivisionOrder
  <2>6. /\ a + 1 \in 1..Len(t) /\ b + 1 \in 1..Records /\ c + 1 \in 1..Len(t) /\ d + 1 \in 1..Records
        /\ f[k] = [ticket |-> t[a + 1], record |-> b + 1]
        /\ f[l] = [ticket |-> t[c + 1], record |-> d + 1]
    BY <2>1, <2>2, <2>3, <1>3, <1>5 DEF R
  <2>7. a + 1 < c + 1 \/ (a + 1 = c + 1 /\ b + 1 < d + 1)
    BY <2>5
  <2> QED BY <2>6, <2>7
<1> QED BY <1>8, <1>9, <1>10, <1>11 DEF f, total

------------------------------------------------------------------------------
(* The log *)

\* The places that Replay reads in segments s.
Places(s) == UNION {{j} \X ReplayFile(s[j]) : j \in DOMAIN s}

\* A place that Replay reads has nothing incomplete before it in its segment.
LEMMA PlacesAre ==
  ASSUME NEW s \in Seq(Seq(Frames))
  PROVE  /\ \A p \in Places(s) : \E j \in 1..Len(s) : \E k \in 1..Len(s[j]) :
              p = <<j, k>> /\ \A i \in 1..k : s[j][i] # Torn
         /\ \A j \in 1..Len(s) : \A k \in 1..Len(s[j]) :
              (\A i \in 1..k : s[j][i] # Torn) => <<j, k>> \in Places(s)
         /\ \A p \in Places(s) : s[p[1]][p[2]] \in [ticket : Callers, record : 1..Records]
<1>1. \A j \in 1..Len(s) : s[j] \in Seq(Frames) /\ DOMAIN s[j] = 1..Len(s[j])
  OBVIOUS
<1>2. \A j \in 1..Len(s) : \A k : k \in ReplayFile(s[j]) <=> k \in 1..Len(s[j]) /\ \A i \in 1..k : s[j][i] # Torn
  BY <1>1 DEF ReplayFile
<1>3. ASSUME NEW p \in Places(s)
      PROVE  \E j \in 1..Len(s) : \E k \in 1..Len(s[j]) : p = <<j, k>> /\ \A i \in 1..k : s[j][i] # Torn
  <2>1. PICK j \in 1..Len(s) : p \in {j} \X ReplayFile(s[j])
    BY DEF Places
  <2>2. PICK k \in ReplayFile(s[j]) : p = <<j, k>>
    BY <2>1
  <2> QED BY <2>2, <1>2
<1>4. ASSUME NEW j \in 1..Len(s), NEW k \in 1..Len(s[j]), \A i \in 1..k : s[j][i] # Torn
      PROVE  <<j, k>> \in Places(s)
  <2>1. k \in ReplayFile(s[j])
    BY <1>4, <1>2
  <2>0. j \in DOMAIN s
    OBVIOUS
  <2>2. <<j, k>> \in {j} \X ReplayFile(s[j])
    BY <2>1
  <2> QED BY <2>0, <2>2 DEF Places
<1>5. ASSUME NEW p \in Places(s) PROVE s[p[1]][p[2]] \in [ticket : Callers, record : 1..Records]
  <2>1. PICK j \in 1..Len(s) : \E k \in 1..Len(s[j]) : p = <<j, k>> /\ \A i \in 1..k : s[j][i] # Torn
    BY <1>3
  <2>2. PICK k \in 1..Len(s[j]) : p = <<j, k>> /\ \A i \in 1..k : s[j][i] # Torn
    BY <2>1
  <2>3. p[1] = j /\ p[2] = k /\ k \in 1..k
    BY <2>2, <1>1
  <2>4. s[j][k] \in Frames /\ s[j][k] # Torn
    BY <2>2, <2>3, <1>1
  <2> QED BY <2>3, <2>4 DEF Frames
<1> QED BY <1>3, <1>4, <1>5

\* Segments t are segments s with frames x added at the end: the places that were
\* read before stay as they are, and the others are in x.
Grown(s, x, t) ==
  LET n == Len(s)
      l == Len(s[n])
  IN  /\ t \in Seq(Seq(Frames)) /\ Len(t) = n
      /\ \A p \in Places(s) : p \in Places(t) /\ t[p[1]][p[2]] = s[p[1]][p[2]]
      /\ \A p \in Places(t) : p \notin Places(s) =>
           \E k \in 1..Len(x) : p = <<n, l + k>> /\ t[p[1]][p[2]] = x[k]
      /\ \A k \in 1..Len(x) : l + k \in 1..Len(t[n]) /\ t[n][l + k] = x[k]
      /\ \A j \in 1..n : \A i \in 1..Len(t[j]) :
           (i \in 1..Len(s[j]) /\ t[j][i] = s[j][i]) \/ \E k \in 1..Len(x) : t[j][i] = x[k]

\* That is what a write to the last segment does.
LEMMA PlacesExtended ==
  ASSUME NEW s \in Seq(Seq(Frames)), Len(s) >= 1, NEW x \in Seq(Frames),
         NEW t, t = [s EXCEPT ![Len(s)] = @ \o x]
  PROVE  Grown(s, x, t)
<1> DEFINE n == Len(s)
           l == Len(s[n])
           last == s[n] \o x
<1>1. n \in Nat /\ n >= 1 /\ n \in 1..n /\ DOMAIN s = 1..n
  OBVIOUS
<1>2. s[n] \in Seq(Frames) /\ l \in Nat /\ Len(x) \in Nat
  BY <1>1
<1>3. last \in Seq(Frames) /\ Len(last) = l + Len(x)
  BY <1>2
<1>4. (\A i \in 1..l : last[i] = s[n][i]) /\ (\A k \in 1..Len(x) : last[l + k] = x[k])
  BY <1>2
<1>5. t \in Seq(Seq(Frames)) /\ Len(t) = n /\ t[n] = last /\ \A j \in 1..n : j # n => t[j] = s[j]
  <2> HIDE DEF last
  <2>1. t = [s EXCEPT ![n] = last]
    BY DEF last
  <2>2. \A j \in 1..n : (IF j = n THEN last ELSE s[j]) \in Seq(Frames)
    BY <1>3
  <2>3. t = [j \in 1..n |-> IF j = n THEN last ELSE s[j]]
    BY <2>1, <1>1
  <2> HIDE DEF n
  <2>4. t \in [1..n -> Seq(Frames)]
    BY <2>2, <2>3
  <2> QED BY <2>3, <2>4, <1>1
<1> HIDE DEF last, n, l
<1>6. ASSUME NEW p \in Places(s) PROVE p \in Places(t) /\ t[p[1]][p[2]] = s[p[1]][p[2]]
  <2>1. PICK j \in 1..n : \E k \in 1..Len(s[j]) : p = <<j, k>> /\ \A i \in 1..k : s[j][i] # Torn
    BY PlacesAre DEF n
  <2>2. PICK k \in 1..Len(s[j]) : p = <<j, k>> /\ \A i \in 1..k : s[j][i] # Torn
    BY <2>1
  <2>3. s[j] \in Seq(Frames) /\ Len(s[j]) \in Nat /\ k \in Nat /\ k \in 1..k
    BY DEF n
  <2>4. k \in 1..Len(t[j]) /\ \A i \in 1..k : t[j][i] = s[j][i]
    <3>1. CASE j = n
      <4>1. k \in 1..l /\ \A i \in 1..k : i \in 1..l
        BY <3>1, <2>3 DEF l
      <4>2. \A i \in 1..k : t[j][i] = s[j][i]
        BY <3>1, <4>1, <1>4, <1>5
      <4>3. k \in 1..Len(t[j])
        BY <3>1, <4>1, <1>2, <1>3, <1>5
      <4> QED BY <4>2, <4>3
    <3>2. CASE j # n
      BY <3>2, <1>5
    <3> QED BY <3>1, <3>2
  <2>5. \A i \in 1..k : t[j][i] # Torn
    BY <2>2, <2>4
  <2>6. j \in 1..Len(t)
    BY <1>5
  <2>7. <<j, k>> \in Places(t)
    BY <2>4, <2>5, <2>6, <1>5, PlacesAre
  <2>8. p[1] = j /\ p[2] = k
    BY <2>2
  <2> QED BY <2>2, <2>3, <2>4, <2>7, <2>8
<1>7. ASSUME NEW p \in Places(t), p \notin Places(s)
      PROVE  \E k \in 1..Len(x) : p = <<n, l + k>> /\ t[p[1]][p[2]] = x[k]
  <2>1. PICK j \in 1..n : \E k \in 1..Len(t[j]) : p = <<j, k>> /\ \A i \in 1..k : t[j][i] # Torn
    BY PlacesAre, <1>5
  <2>2. PICK k \in 1..Len(t[j]) : p = <<j, k>> /\ \A i \in 1..k : t[j][i] # Torn
    BY <2>1
  <2>3. t[j] \in Seq(Frames) /\ Len(t[j]) \in Nat /\ k \in Nat
    BY <1>5
  <2>4. s[j] \in Seq(Frames) /\ Len(s[j]) \in Nat
    BY DEF n
  <2>5. \A i \in 1..Len(s[j]) : t[j][i] = s[j][i]
    BY <1>4, <1>5 DEF l
  <2>6. ~(k \in 1..Len(s[j]))
    <3> SUFFICES ASSUME k \in 1..Len(s[j]) PROVE FALSE
      OBVIOUS
    <3>1. \A i \in 1..k : s[j][i] # Torn
      BY <2>2, <2>3, <2>4, <2>5
    <3>2. j \in 1..Len(s)
      BY DEF n
    <3>3. <<j, k>> \in Places(s)
      BY <3>1, <3>2, PlacesAre
    <3> QED BY <3>3, <2>2, <1>7
  <2>7. j = n
    BY <2>6, <1>5
  <2>8. k > l /\ k <= l + Len(x)
    BY <2>3, <2>4, <2>6, <2>7, <1>2, <1>3, <1>5 DEF l
  <2>9. PICK m \in 1..Len(x) : k = l + m
    <3>1. k - l \in 1..Len(x) /\ k = l + (k - l)
      BY <2>3, <2>8, <1>2
    <3> QED BY <3>1
  <2>10. t[j][k] = x[m]
    BY <2>7, <2>9, <1>4, <1>5
  <2>11. p[1] = j /\ p[2] = k
    BY <2>2
  <2> QED BY <2>2, <2>7, <2>9, <2>10, <2>11
<1>8. ASSUME NEW k \in 1..Len(x) PROVE l + k \in 1..Len(t[n]) /\ t[n][l + k] = x[k]
  <2>1. l + k \in 1..(l + Len(x))
    BY <1>2
  <2> QED BY <2>1, <1>3, <1>4, <1>5
<1>9. ASSUME NEW j \in 1..n, NEW i \in 1..Len(t[j])
      PROVE  (i \in 1..Len(s[j]) /\ t[j][i] = s[j][i]) \/ \E k \in 1..Len(x) : t[j][i] = x[k]
  <2>1. CASE j # n
    BY <2>1, <1>5
  <2>2. CASE j = n
    <3>1. i \in 1..(l + Len(x)) /\ t[j] = last
      BY <2>2, <1>3, <1>5
    <3>2. CASE i \in 1..l
      BY <3>1, <3>2, <2>2, <1>4 DEF l
    <3>3. CASE i > l
      <4>1. i - l \in 1..Len(x) /\ i = l + (i - l)
        BY <3>1, <3>3, <1>2
      <4> QED BY <4>1, <3>1, <1>4
    <3> QED BY <3>1, <3>2, <3>3, <1>2
  <2> QED BY <2>1, <2>2
<1> QED BY <1>5, <1>6, <1>7, <1>8, <1>9 DEF n, l, Grown

\* A new segment is empty.
LEMMA PlacesAdded ==
  ASSUME NEW s \in Seq(Seq(Frames)), NEW t, t = Append(s, <<>>)
  PROVE  /\ t \in Seq(Seq(Frames)) /\ Len(t) = Len(s) + 1
         /\ \A p \in Places(s) : p \in Places(t) /\ t[p[1]][p[2]] = s[p[1]][p[2]]
         /\ \A p \in Places(t) : p \in Places(s)
<1>1. /\ t \in Seq(Seq(Frames)) /\ Len(t) = Len(s) + 1 /\ Len(s) \in Nat
      /\ \A j \in 1..Len(s) : t[j] = s[j]
      /\ t[Len(s) + 1] = <<>>
  <2>1. <<>> \in Seq(Frames)
    OBVIOUS
  <2> QED BY <2>1
<1>2. ASSUME NEW p \in Places(s) PROVE p \in Places(t) /\ t[p[1]][p[2]] = s[p[1]][p[2]]
  <2>1. PICK j \in 1..Len(s) : \E k \in 1..Len(s[j]) : p = <<j, k>> /\ \A i \in 1..k : s[j][i] # Torn
    BY PlacesAre
  <2>2. PICK k \in 1..Len(s[j]) : p = <<j, k>> /\ \A i \in 1..k : s[j][i] # Torn
    BY <2>1
  <2>3. j \in 1..Len(t) /\ t[j] = s[j]
    BY <1>1
  <2>4. <<j, k>> \in Places(t)
    BY <2>2, <2>3, <1>1, PlacesAre
  <2>5. p[1] = j /\ p[2] = k
    BY <2>2
  <2> QED BY <2>2, <2>3, <2>4, <2>5
<1>3. ASSUME NEW p \in Places(t) PROVE p \in Places(s)
  <2>1. PICK j \in 1..Len(t) : \E k \in 1..Len(t[j]) : p = <<j, k>> /\ \A i \in 1..k : t[j][i] # Torn
    BY <1>1, PlacesAre
  <2>2. PICK k \in 1..Len(t[j]) : p = <<j, k>> /\ \A i \in 1..k : t[j][i] # Torn
    BY <2>1
  <2>3. j # Len(s) + 1
    <3> SUFFICES ASSUME j = Len(s) + 1 PROVE FALSE
      OBVIOUS
    <3>1. Len(t[j]) = 0
      BY <1>1
    <3> QED BY <3>1
  <2>4. j \in 1..Len(s) /\ t[j] = s[j]
    BY <2>3, <1>1
  <2> QED BY <2>2, <2>4, PlacesAre
<1> QED BY <1>1, <1>2, <1>3

\* The log in a step that acknowledges nothing: what could be replayed stays, and
\* what is added is of tickets that fail.
LEMMA LogKept ==
  ASSUME TypeInv, TypeInv', Logged, ~DrainsBroken => Durable /\ Ordered,
         \A p \in Replayed : p \in Replayed' /\ FrameAt(p)' = FrameAt(p),
         \A p \in Replayed' : p \notin Replayed =>
           \E i \in 1..Len(queued') :
             i <= Settled' /\ queued'[i] = (FrameAt(p)').ticket /\ pc'[queued'[i]] # "ok",
         Settled \in Int, Settled' \in Int, Settled <= Settled',
         Len(queued) <= Len(queued'), \A i \in 1..Len(queued) : queued'[i] = queued[i],
         \A c \in Callers : pc'[c] = "ok" <=> pc[c] = "ok",
         DrainsBroken => DrainsBroken'
  PROVE  Logged' /\ (~DrainsBroken' => Durable' /\ Ordered')
<1>1. Len(queued) \in Nat /\ Len(queued') \in Nat
  BY DEF TypeInv
<1>2. \A i \in 1..Len(queued) : i \in 1..Len(queued')
  BY <1>1
<1>3. \A p \in Replayed : FrameAt(p) \in [ticket : Callers, record : 1..Records]
  BY PlacesAre DEF Replayed, Places, FrameAt, TypeInv
<1>4. Logged'
  <2> SUFFICES ASSUME NEW p \in Replayed'
               PROVE  \E i \in 1..Len(queued') : i <= Settled' /\ queued'[i] = (FrameAt(p)').ticket
    BY DEF Logged
  <2>1. CASE p \in Replayed
    <3>1. PICK i \in 1..Len(queued) : i <= Settled /\ queued[i] = FrameAt(p).ticket
      BY <2>1 DEF Logged
    <3>2. i \in 1..Len(queued') /\ i <= Settled' /\ queued'[i] = queued[i]
      BY <3>1, <1>2
    <3> QED BY <3>1, <3>2, <2>1
  <2>2. CASE p \notin Replayed
    BY <2>2
  <2> QED BY <2>1, <2>2
<1>5. ASSUME ~DrainsBroken' PROVE Durable'
  <2>1. Durable
    BY <1>5
  <2> SUFFICES ASSUME NEW c \in Callers, NEW n \in 1..Records, pc'[c] = "ok"
               PROVE  \E p \in Replayed' : FrameAt(p)' = [ticket |-> c, record |-> n]
    BY DEF Durable
  <2>2. PICK p \in Replayed : FrameAt(p) = [ticket |-> c, record |-> n]
    BY <2>1 DEF Durable
  <2> QED BY <2>2
<1>6. ASSUME ~DrainsBroken' PROVE Ordered'
  <2>1. Ordered
    BY <1>6
  <2> SUFFICES ASSUME NEW p \in Replayed', NEW q \in Replayed', ReadBefore(p, q),
                      pc'[(FrameAt(p)').ticket] = "ok", pc'[(FrameAt(q)').ticket] = "ok"
               PROVE  Precedes(FrameAt(p), FrameAt(q))'
    BY DEF Ordered, ReadBefore
  <2>2. p \in Replayed /\ q \in Replayed
    OBVIOUS
  <2>3. FrameAt(p)' = FrameAt(p) /\ FrameAt(q)' = FrameAt(q)
    BY <2>2
  <2>4. FrameAt(p).ticket \in Callers /\ FrameAt(q).ticket \in Callers
    BY <2>2, <1>3
  <2>5. Precedes(FrameAt(p), FrameAt(q))
    BY <2>1, <2>2, <2>3, <2>4 DEF Ordered
  <2>6. DOMAIN queued = 1..Len(queued) /\ DOMAIN queued' = 1..Len(queued')
    BY DEF TypeInv
  <2>7. PICK i \in 1..Len(queued), j \in 1..Len(queued) :
          /\ queued[i] = FrameAt(p).ticket /\ queued[j] = FrameAt(q).ticket
          /\ i < j \/ (i = j /\ FrameAt(p).record < FrameAt(q).record)
    BY <2>5, <2>6 DEF Precedes
  <2>8. /\ i \in DOMAIN queued' /\ j \in DOMAIN queued'
        /\ queued'[i] = (FrameAt(p)').ticket /\ queued'[j] = (FrameAt(q)').ticket
        /\ i < j \/ (i = j /\ (FrameAt(p)').record < (FrameAt(q)').record)
    BY <2>3, <2>6, <2>7, <1>2
  <2> QED BY <2>8 DEF Precedes
<1> QED BY <1>4, <1>5, <1>6

------------------------------------------------------------------------------
(* The queue *)

\* The counts of tickets are numbers that add up.
LEMMA Counts ==
  ASSUME TypeInv
  PROVE  /\ Len(queued) \in Nat /\ Len(channel) \in Nat /\ Len(batch) \in Nat /\ Held \in 0..1
         /\ Settled \in Int /\ Settled + Len(batch) + Held + Len(channel) = Len(queued)
         /\ leftover = NoOne <=> Held = 0
<1>1. Len(queued) \in Nat /\ Len(channel) \in Nat /\ Len(batch) \in Nat
  BY DEF TypeInv
<1>2. Held \in 0..1 /\ (leftover = NoOne <=> Held = 0)
  BY DEF Held
<1> QED BY <1>1, <1>2 DEF Settled

\* A new ticket goes to the end of the queue and of the channel.
LEMMA QueueEnqueue ==
  ASSUME Inv, NEW c \in Callers, pc[c] \in {"idle", "blocked"}, Enqueue(c), UNCHANGED <<batch, leftover>>
  PROVE  Queue' /\ Answers' /\ Settled' = Settled
<1> DEFINE q == Len(queued)
           m == Len(channel)
<1>1. TypeInv /\ Queue /\ Answers
  BY DEF Inv
<1>2. /\ q \in Nat /\ m \in Nat /\ Len(batch) \in Nat /\ Held \in 0..1
      /\ Settled \in Int /\ Settled + Len(batch) + Held + m = q
  BY <1>1, Counts
<1>3. /\ channel \in Seq(Callers) /\ queued \in Seq(Callers) /\ channel' = Append(channel, c) /\ queued' = Append(queued, c)
      /\ pc' = [pc EXCEPT ![c] = "waiting"] /\ batch' = batch /\ leftover' = leftover
  BY <1>1 DEF TypeInv, Enqueue
<1>4. /\ Len(queued') = q + 1 /\ queued'[q + 1] = c /\ \A i \in 1..q : queued'[i] = queued[i]
      /\ Len(channel') = m + 1 /\ channel'[m + 1] = c /\ \A i \in 1..m : channel'[i] = channel[i]
  BY <1>3
<1>5. Held' = Held /\ Len(batch') = Len(batch)
  BY <1>3 DEF Held
<1>6. Settled' = Settled
  BY <1>2, <1>4, <1>5 DEF Settled
<1>7. Settled >= 0
  BY <1>1 DEF Queue
<1>8. \A i \in 1..q : queued[i] \in Callers /\ queued[i] # c
  <2> SUFFICES ASSUME NEW i \in 1..q PROVE queued[i] \in Callers /\ queued[i] # c
    OBVIOUS
  <2>1. pc[queued[i]] \in {"ok", "error", "waiting"}
    BY <1>1, <1>2 DEF Answers
  <2> QED BY <2>1, <1>3
<1> HIDE DEF q, m
<1>9. Queue'
  <2>1. \A i, j \in 1..(q + 1) : queued'[i] = queued'[j] => i = j
    <3>1. \A i \in 1..(q + 1) : i \in 1..q \/ i = q + 1
      BY <1>2
    <3>2. \A i, j \in 1..q : queued[i] = queued[j] => i = j
      BY <1>1 DEF Queue, q
    <3> QED BY <3>1, <3>2, <1>4, <1>8
  <2>2. \A i \in 1..Len(batch) : batch[i] = queued'[Settled + i]
    <3> SUFFICES ASSUME NEW i \in 1..Len(batch) PROVE batch[i] = queued'[Settled + i]
      OBVIOUS
    <3>1. batch[i] = queued[Settled + i]
      BY <1>1 DEF Queue
    <3>2. Settled + i \in 1..q
      BY <1>2, <1>7
    <3> QED BY <3>1, <3>2, <1>4
  <2>3. leftover # NoOne => leftover = queued'[Settled + Len(batch) + 1]
    <3> SUFFICES ASSUME leftover # NoOne PROVE leftover = queued'[Settled + Len(batch) + 1]
      OBVIOUS
    <3>1. leftover = queued[Settled + Len(batch) + 1]
      BY <1>1 DEF Queue
    <3>2. Settled + Len(batch) + 1 \in 1..q
      BY <1>1, <1>2, <1>7, Counts
    <3> QED BY <3>1, <3>2, <1>4
  <2>4. \A i \in 1..(m + 1) : channel'[i] = queued'[Settled + Len(batch) + Held + i]
    <3> SUFFICES ASSUME NEW i \in 1..(m + 1) PROVE channel'[i] = queued'[Settled + Len(batch) + Held + i]
      OBVIOUS
    <3>1. CASE i = m + 1
      <4>1. Settled + Len(batch) + Held + i = q + 1
        BY <3>1, <1>2
      <4> QED BY <4>1, <3>1, <1>4
    <3>2. CASE i \in 1..m
      <4>1. channel[i] = queued[Settled + Len(batch) + Held + i]
        BY <3>2, <1>1 DEF Queue, m
      <4>2. Settled + Len(batch) + Held + i \in 1..q
        BY <3>2, <1>2, <1>7
      <4> QED BY <4>1, <4>2, <3>2, <1>4
    <3> QED BY <3>1, <3>2, <1>2
  <2>5. \A i, j \in 1..Len(queued') : queued'[i] = queued'[j] => i = j
    BY <2>1, <1>4
  <2>6. \A i \in 1..Len(batch') : batch'[i] = queued'[Settled' + i]
    BY <2>2, <1>3, <1>6
  <2>7. leftover' # NoOne => leftover' = queued'[Settled' + Len(batch') + 1]
    BY <2>3, <1>3, <1>6
  <2>8. \A i \in 1..Len(channel') : channel'[i] = queued'[Settled' + Len(batch') + Held' + i]
    BY <2>4, <1>3, <1>4, <1>5, <1>6
  <2>9. Settled' >= 0
    BY <1>6, <1>7
  <2> QED BY <2>5, <2>6, <2>7, <2>8, <2>9 DEF Queue
<1>10. Answers'
  <2>1. \A d \in Callers : pc'[d] = IF d = c THEN "waiting" ELSE pc[d]
    BY <1>1, <1>3 DEF TypeInv
  <2>2. \A i \in 1..q : pc'[queued'[i]] = pc[queued[i]]
    BY <2>1, <1>4, <1>8
  <2>3. \A i \in 1..(q + 1) : i <= Settled => pc'[queued'[i]] \in {"ok", "error"}
    <3> SUFFICES ASSUME NEW i \in 1..(q + 1), i <= Settled PROVE pc'[queued'[i]] \in {"ok", "error"}
      OBVIOUS
    <3>1. i \in 1..q
      BY <1>2
    <3> QED BY <3>1, <2>2, <1>1 DEF Answers, q
  <2>4. \A i \in 1..(q + 1) : i > Settled => pc'[queued'[i]] = "waiting"
    <3> SUFFICES ASSUME NEW i \in 1..(q + 1), i > Settled PROVE pc'[queued'[i]] = "waiting"
      OBVIOUS
    <3>1. CASE i = q + 1
      BY <3>1, <2>1, <1>4
    <3>2. CASE i \in 1..q
      BY <3>2, <2>2, <1>1 DEF Answers, q
    <3> QED BY <3>1, <3>2, <1>2
  <2>5. \A d \in Callers : pc'[d] \in {"waiting", "ok"} => \E i \in 1..(q + 1) : queued'[i] = d
    <3> SUFFICES ASSUME NEW d \in Callers, pc'[d] \in {"waiting", "ok"}
                 PROVE  \E i \in 1..(q + 1) : queued'[i] = d
      OBVIOUS
    <3>1. CASE d = c
      <4>1. q + 1 \in 1..(q + 1)
        BY <1>2
      <4> QED BY <4>1, <3>1, <1>4
    <3>2. CASE d # c
      <4>1. pc[d] \in {"waiting", "ok"}
        BY <3>2, <2>1
      <4>2. PICK i \in 1..q : queued[i] = d
        BY <4>1, <1>1 DEF Answers, q
      <4>3. i \in 1..(q + 1)
        BY <1>2
      <4> QED BY <4>2, <4>3, <1>4
    <3> QED BY <3>1, <3>2
  <2> QED BY <2>3, <2>4, <2>5, <1>4, <1>6 DEF Answers
<1> QED BY <1>6, <1>9, <1>10

\* Tickets that only move between channel, leftover and batch keep their place in
\* the queue.
LEMMA QueueMoved ==
  ASSUME Inv, UNCHANGED <<queued, pc>>, Settled' = Settled,
         \A i \in 1..Len(batch') : batch'[i] = queued[Settled + i],
         leftover' # NoOne => leftover' = queued[Settled + Len(batch') + 1],
         \A i \in 1..Len(channel') : channel'[i] = queued[Settled + Len(batch') + Held' + i]
  PROVE  Queue' /\ Answers'
<1>1. Queue'
  BY DEF Inv, Queue
<1>2. Answers'
  BY DEF Inv, Answers
<1> QED BY <1>1, <1>2

\* The first of the channel becomes the batch.
LEMMA QueueReceive ==
  ASSUME Inv, batch = <<>>, leftover = NoOne, Receive, UNCHANGED <<leftover, pc, queued>>
  PROVE  Queue' /\ Answers' /\ Settled' = Settled
<1> DEFINE m == Len(channel)
<1>1. TypeInv /\ Queue /\ Held = 0 /\ Len(batch) = 0
  BY DEF Inv, Held
<1>2. Len(queued) \in Nat /\ m \in Nat /\ Settled \in Int /\ Settled + m = Len(queued)
  BY <1>1, Counts
<1>3. /\ channel \in Seq(Callers) /\ channel # <<>> /\ channel' = Tail(channel) /\ batch' = <<channel[1]>>
      /\ queued' = queued /\ leftover' = NoOne /\ pc' = pc
  BY <1>1 DEF TypeInv, Receive
<1>4. /\ m >= 1 /\ Len(channel') = m - 1 /\ \A i \in 1..(m - 1) : channel'[i] = channel[i + 1]
      /\ Len(batch') = 1 /\ batch'[1] = channel[1]
  BY <1>3
<1>5. Held' = 0
  BY <1>3 DEF Held
<1>6. Settled' = Settled
  BY <1>1, <1>2, <1>3, <1>4, <1>5 DEF Settled
<1>7. \A i \in 1..m : channel[i] = queued[Settled + i]
  <2> SUFFICES ASSUME NEW i \in 1..m PROVE channel[i] = queued[Settled + i]
    OBVIOUS
  <2>1. channel[i] = queued[Settled + Len(batch) + Held + i]
    BY <1>1 DEF Queue
  <2>2. Settled + Len(batch) + Held + i = Settled + i
    BY <1>1, <1>2
  <2> QED BY <2>1, <2>2
<1> HIDE DEF m
<1>8. \A i \in 1..Len(batch') : batch'[i] = queued[Settled + i]
  BY <1>4, <1>7, <1>2
<1>9. \A i \in 1..Len(channel') : channel'[i] = queued[Settled + Len(batch') + Held' + i]
  <2> SUFFICES ASSUME NEW i \in 1..(m - 1) PROVE channel'[i] = queued[Settled + 1 + 0 + i]
    BY <1>4, <1>5
  <2>1. i + 1 \in 1..m /\ Settled + 1 + 0 + i = Settled + (i + 1)
    BY <1>2
  <2> QED BY <2>1, <1>4, <1>7
<1> QED BY <1>3, <1>6, <1>8, <1>9, QueueMoved

\* The leftover becomes the batch.
LEMMA QueueLeftover ==
  ASSUME Inv, batch = <<>>, leftover # NoOne, batch' = <<leftover>>, leftover' = NoOne,
         UNCHANGED <<channel, pc, queued>>
  PROVE  Queue' /\ Answers' /\ Settled' = Settled
<1>1. TypeInv /\ Queue /\ Held = 1 /\ Len(batch) = 0 /\ Held' = 0 /\ Len(batch') = 1 /\ batch'[1] = leftover
  BY DEF Inv, Held
<1>2. Len(queued) \in Nat /\ Len(channel) \in Nat /\ Settled \in Int
  BY <1>1, Counts
<1>3. queued' = queued /\ channel' = channel /\ pc' = pc
  OBVIOUS
<1>4. Settled' = Settled
  BY <1>1, <1>2, <1>3 DEF Settled
<1>5. leftover = queued[Settled + 1]
  <2>1. leftover = queued[Settled + Len(batch) + 1] /\ Settled + Len(batch) + 1 = Settled + 1
    BY <1>1, <1>2 DEF Queue
  <2> QED BY <2>1
<1>6. \A i \in 1..Len(channel) : channel[i] = queued[Settled + 1 + 0 + i]
  <2> SUFFICES ASSUME NEW i \in 1..Len(channel) PROVE channel[i] = queued[Settled + 1 + 0 + i]
    OBVIOUS
  <2>1. channel[i] = queued[Settled + Len(batch) + Held + i]
    BY <1>1 DEF Queue
  <2>2. Settled + Len(batch) + Held + i = Settled + 1 + 0 + i
    BY <1>1, <1>2
  <2> QED BY <2>1, <2>2
<1>7. \A i \in 1..Len(batch') : batch'[i] = queued[Settled + i]
  BY <1>1, <1>2, <1>5
<1>8. \A i \in 1..Len(channel') : channel'[i] = queued[Settled + Len(batch') + Held' + i]
  BY <1>1, <1>3, <1>6
<1> QED BY <1>3, <1>4, <1>7, <1>8, QueueMoved

\* The first of the channel joins the batch or is left over.
LEMMA QueueGather ==
  ASSUME Inv, leftover = NoOne, channel # <<>>, channel' = Tail(channel), UNCHANGED <<pc, queued>>,
         \/ batch' = Append(batch, Head(channel)) /\ leftover' = leftover
         \/ batch' = batch /\ leftover' = Head(channel)
  PROVE  Queue' /\ Answers' /\ Settled' = Settled
<1> DEFINE m == Len(channel)
           b == Len(batch)
<1>1. TypeInv /\ Queue /\ Held = 0
  BY DEF Inv, Held
<1>2. Len(queued) \in Nat /\ m \in Nat /\ b \in Nat /\ Settled \in Int /\ Settled + b + m = Len(queued)
  BY <1>1, Counts
<1>3. /\ channel \in Seq(Callers) /\ batch \in Seq(Callers) /\ channel' = Tail(channel)
      /\ queued' = queued /\ pc' = pc
  BY <1>1 DEF TypeInv
<1>4. m >= 1 /\ Len(channel') = m - 1 /\ \A i \in 1..(m - 1) : channel'[i] = channel[i + 1]
  BY <1>3
<1>5. \A i \in 1..m : channel[i] = queued[Settled + b + i]
  <2> SUFFICES ASSUME NEW i \in 1..m PROVE channel[i] = queued[Settled + b + i]
    OBVIOUS
  <2>1. channel[i] = queued[Settled + Len(batch) + Held + i]
    BY <1>1 DEF Queue
  <2>2. Settled + Len(batch) + Held + i = Settled + b + i
    BY <1>1, <1>2
  <2> QED BY <2>1, <2>2
<1>6. \A i \in 1..b : batch[i] = queued[Settled + i]
  BY <1>1 DEF Queue
<1>7. Head(channel) = channel[1] /\ channel[1] \in Callers /\ channel[1] # NoOne
  BY <1>3, <1>4, WalAssumption DEF WalAssumption
<1>8. /\ Len(batch') + Held' = b + 1 /\ Len(batch') \in Nat /\ Held' \in 0..1
      /\ \A i \in 1..Len(batch') : batch'[i] = queued[Settled + i]
      /\ leftover' # NoOne => leftover' = queued[Settled + Len(batch') + 1]
  <2>1. CASE batch' = Append(batch, Head(channel)) /\ leftover' = leftover
    <3>1. Len(batch') = b + 1 /\ batch'[b + 1] = channel[1] /\ (\A i \in 1..b : batch'[i] = batch[i]) /\ Held' = 0
      BY <2>1, <1>3, <1>7 DEF Held
    <3>2. channel[1] = queued[Settled + b + 1] /\ Settled + b + 1 = Settled + (b + 1)
      BY <1>2, <1>4, <1>5
    <3>3. \A i \in 1..(b + 1) : i \in 1..b \/ i = b + 1
      BY <1>2
    <3> HIDE DEF b, m
    <3>4. \A i \in 1..(b + 1) : batch'[i] = queued[Settled + i]
      BY <3>1, <3>2, <3>3, <1>6
    <3> QED BY <3>1, <3>4, <2>1, <1>2
  <2>2. CASE batch' = batch /\ leftover' = Head(channel)
    <3>1. Held' = 1 /\ leftover' = channel[1]
      BY <2>2, <1>7 DEF Held
    <3>2. channel[1] = queued[Settled + b + 1]
      BY <1>4, <1>5, <1>2
    <3> QED BY <3>1, <3>2, <2>2, <1>2, <1>6
  <2> QED BY <2>1, <2>2
<1> HIDE DEF m, b
<1>9. Settled' = Settled
  <2>1. Settled' = Len(queued) - (m - 1) - Held' - Len(batch')
    BY <1>3, <1>4 DEF Settled
  <2>2. Len(batch') + Held' = b + 1 /\ Len(batch') \in Nat /\ Held' \in Int
    BY <1>8
  <2>3. PICK x, y : x = Len(batch') /\ y = Held'
    OBVIOUS
  <2>4. Len(queued) - (m - 1) - y - x = Settled
    <3>1. x + y = b + 1 /\ x \in Int /\ y \in Int
      BY <2>2, <2>3
    <3>2. PICK q \in Int : q = Len(queued)
      BY <1>2
    <3>3. m \in Int /\ b \in Int /\ Settled \in Int /\ Settled + b + m = q
      BY <1>2, <3>2
    <3> QED BY <3>1, <3>2, <3>3
  <2> QED BY <2>1, <2>3, <2>4
<1>10. \A i \in 1..Len(channel') : channel'[i] = queued[Settled + Len(batch') + Held' + i]
  <2> SUFFICES ASSUME NEW i \in 1..(m - 1) PROVE channel'[i] = queued[Settled + Len(batch') + Held' + i]
    BY <1>4
  <2>1. i + 1 \in 1..m /\ Settled + Len(batch') + Held' + i = Settled + b + (i + 1)
    BY <1>2, <1>8
  <2> QED BY <2>1, <1>4, <1>5
<1> QED BY <1>3, <1>8, <1>9, <1>10, QueueMoved

\* The next n tickets of the queue are answered.
LEMMA QueueAnswered ==
  ASSUME Inv, NEW n \in Nat, Settled' = Settled + n, Settled + n <= Len(queued), queued' = queued,
         NEW cs, NEW result \in {"ok", "error"}, Answer(cs, result),
         \A c \in Callers : c \in cs <=> \E i \in 1..n : queued[Settled + i] = c
  PROVE  Answers'
<1>1. TypeInv /\ Queue /\ Answers
  BY DEF Inv
<1>2. Len(queued) \in Nat /\ Settled \in Int /\ Settled >= 0
  BY <1>1, Counts DEF Queue
<1>3. \A c \in Callers : pc'[c] = IF c \in cs THEN result ELSE pc[c]
  BY DEF Answer
<1>4. \A i \in 1..Len(queued) : queued[i] \in Callers
  BY <1>1 DEF TypeInv
<1>5. ASSUME NEW i \in 1..Len(queued)
      PROVE  queued[i] \in cs <=> Settled < i /\ i <= Settled + n
  <2>1. ASSUME queued[i] \in cs PROVE Settled < i /\ i <= Settled + n
    <3>1. PICK j \in 1..n : queued[Settled + j] = queued[i]
      BY <2>1, <1>4
    <3>2. Settled + j \in 1..Len(queued)
      BY <1>2
    <3>3. Settled + j = i
      BY <3>1, <3>2, <1>1 DEF Queue
    <3> QED BY <3>3, <1>2
  <2>2. ASSUME Settled < i, i <= Settled + n PROVE queued[i] \in cs
    <3>1. i - Settled \in 1..n /\ Settled + (i - Settled) = i
      BY <2>2, <1>2
    <3> QED BY <3>1, <1>4
  <2> QED BY <2>1, <2>2
<1>6. ASSUME NEW i \in 1..Len(queued), i <= Settled + n PROVE pc'[queued[i]] \in {"ok", "error"}
  <2>1. CASE i <= Settled
    <3>1. pc[queued[i]] \in {"ok", "error"} /\ queued[i] \notin cs
      BY <2>1, <1>1, <1>2, <1>5 DEF Answers
    <3> QED BY <3>1, <1>3, <1>4
  <2>2. CASE i > Settled
    <3>1. queued[i] \in cs
      BY <2>2, <1>2, <1>5, <1>6
    <3> QED BY <3>1, <1>3, <1>4
  <2> QED BY <2>1, <2>2, <1>2
<1>7. ASSUME NEW i \in 1..Len(queued), i > Settled + n PROVE pc'[queued[i]] = "waiting"
  <2>1. i > Settled /\ queued[i] \notin cs
    BY <1>7, <1>2, <1>5
  <2>2. pc[queued[i]] = "waiting"
    BY <2>1, <1>1 DEF Answers
  <2> QED BY <2>1, <2>2, <1>3, <1>4
<1>8. ASSUME NEW c \in Callers, pc'[c] \in {"waiting", "ok"} PROVE \E i \in 1..Len(queued) : queued[i] = c
  <2>1. CASE c \in cs
    <3>1. PICK i \in 1..n : queued[Settled + i] = c
      BY <2>1
    <3>2. Settled + i \in 1..Len(queued)
      BY <1>2
    <3> QED BY <3>1, <3>2
  <2>2. CASE c \notin cs
    <3>1. pc[c] \in {"waiting", "ok"}
      BY <2>2, <1>3, <1>8
    <3> QED BY <3>1, <1>1 DEF Answers
  <2> QED BY <2>1, <2>2
<1> QED BY <1>6, <1>7, <1>8 DEF Answers

\* The worker gives up its leftover.
LEMMA QueueGiveUp ==
  ASSUME Inv, batch = <<>>, Answer({leftover}, "error"), leftover' = NoOne, UNCHANGED <<batch, channel, queued>>
  PROVE  Queue' /\ Answers' /\ Settled' = Settled + Held
<1>1. TypeInv /\ Queue /\ Len(batch) = 0 /\ Len(batch') = 0 /\ Held' = 0
  BY DEF Inv, Held
<1>2. /\ Len(queued) \in Nat /\ Len(channel) \in Nat /\ Settled \in Int /\ Held \in 0..1
      /\ Settled + Held + Len(channel) = Len(queued) /\ (leftover = NoOne <=> Held = 0)
  BY <1>1, Counts
<1>3. queued' = queued /\ channel' = channel /\ leftover' = NoOne
  OBVIOUS
<1>4. Settled' = Settled + Held
  BY <1>1, <1>2, <1>3 DEF Settled
<1>5. \A i \in 1..Len(channel) : channel[i] = queued[(Settled + Held) + 0 + 0 + i]
  <2> SUFFICES ASSUME NEW i \in 1..Len(channel) PROVE channel[i] = queued[(Settled + Held) + 0 + 0 + i]
    OBVIOUS
  <2>1. channel[i] = queued[Settled + Len(batch) + Held + i]
    BY <1>1 DEF Queue
  <2>2. Settled + Len(batch) + Held + i = (Settled + Held) + 0 + 0 + i
    BY <1>1, <1>2
  <2> QED BY <2>1, <2>2
<1>6. Queue'
  <2>1. \A i, j \in 1..Len(queued) : queued[i] = queued[j] => i = j
    BY <1>1 DEF Queue
  <2>2. Settled >= 0
    BY <1>1 DEF Queue
  <2>3. Settled' >= 0
    BY <2>2, <1>2, <1>4
  <2>4. \A i \in 1..Len(batch') : batch'[i] = queued'[Settled' + i]
    BY <1>1
  <2>5. \A i \in 1..Len(channel') : channel'[i] = queued'[Settled' + Len(batch') + Held' + i]
    BY <1>1, <1>3, <1>4, <1>5
  <2> QED BY <2>1, <2>3, <2>4, <2>5, <1>3 DEF Queue
<1>7. ASSUME NEW c \in Callers PROVE c \in {leftover} <=> \E i \in 1..Held : queued[Settled + i] = c
  <2>1. CASE leftover = NoOne
    <3>1. c # leftover /\ Held = 0
      BY <2>1, <1>2, WalAssumption DEF WalAssumption
    <3> QED BY <3>1
  <2>2. CASE leftover # NoOne
    <3>1. Held = 1 /\ leftover = queued[Settled + Len(batch) + 1]
      BY <2>2, <1>1, <1>2 DEF Queue
    <3>2. Settled + Len(batch) + 1 = Settled + 1
      BY <1>1, <1>2
    <3>3. \A i \in 1..Held : i = 1
      BY <3>1
    <3>4. 1 \in 1..Held
      BY <3>1
    <3>5. leftover = queued[Settled + 1]
      BY <3>1, <3>2
    <3> QED BY <3>3, <3>4, <3>5
  <2> QED BY <2>1, <2>2
<1>8. Held \in Nat /\ Settled + Held <= Len(queued)
  BY <1>2
<1>9. Answers'
  BY <1>3, <1>4, <1>7, <1>8, QueueAnswered
<1> QED BY <1>4, <1>6, <1>9

\* The worker of a broken log refuses the first of the channel.
LEMMA QueueRefuse ==
  ASSUME Inv, batch = <<>>, leftover = NoOne, channel # <<>>, Answer({Head(channel)}, "error"),
         channel' = Tail(channel), UNCHANGED <<batch, leftover, queued>>
  PROVE  Queue' /\ Answers' /\ Settled' = Settled + 1
<1> DEFINE m == Len(channel)
<1>1. TypeInv /\ Queue /\ Len(batch) = 0 /\ Len(batch') = 0 /\ Held = 0 /\ Held' = 0
  BY DEF Inv, Held
<1>2. Len(queued) \in Nat /\ m \in Nat /\ Settled \in Int /\ Settled + m = Len(queued)
  BY <1>1, Counts
<1>3. channel \in Seq(Callers) /\ channel' = Tail(channel) /\ queued' = queued /\ leftover' = NoOne
  BY <1>1 DEF TypeInv
<1>4. /\ m >= 1 /\ Len(channel') = m - 1 /\ \A i \in 1..(m - 1) : channel'[i] = channel[i + 1]
      /\ Head(channel) = channel[1]
  BY <1>3
<1>5. \A i \in 1..m : channel[i] = queued[Settled + i]
  <2> SUFFICES ASSUME NEW i \in 1..m PROVE channel[i] = queued[Settled + i]
    OBVIOUS
  <2>1. channel[i] = queued[Settled + Len(batch) + Held + i]
    BY <1>1 DEF Queue
  <2>2. Settled + Len(batch) + Held + i = Settled + i
    BY <1>1, <1>2
  <2> QED BY <2>1, <2>2
<1> HIDE DEF m
<1>6. Settled' = Settled + 1
  BY <1>1, <1>2, <1>3, <1>4 DEF Settled, m
<1>7. \A i \in 1..(m - 1) : channel'[i] = queued[(Settled + 1) + 0 + 0 + i]
  <2> SUFFICES ASSUME NEW i \in 1..(m - 1) PROVE channel'[i] = queued[(Settled + 1) + 0 + 0 + i]
    OBVIOUS
  <2>1. i + 1 \in 1..m /\ (Settled + 1) + 0 + 0 + i = Settled + (i + 1)
    BY <1>2
  <2> QED BY <2>1, <1>4, <1>5
<1>8. Queue'
  <2>1. \A i, j \in 1..Len(queued) : queued[i] = queued[j] => i = j
    BY <1>1 DEF Queue
  <2>2. Settled >= 0
    BY <1>1 DEF Queue
  <2>3. Settled' >= 0
    BY <2>2, <1>2, <1>6
  <2>4. \A i \in 1..Len(batch') : batch'[i] = queued'[Settled' + i]
    BY <1>1
  <2>5. \A i \in 1..Len(channel') : channel'[i] = queued'[Settled' + Len(batch') + Held' + i]
    BY <1>1, <1>3, <1>4, <1>6, <1>7
  <2> QED BY <2>1, <2>3, <2>4, <2>5, <1>3 DEF Queue
<1>9. ASSUME NEW c \in Callers PROVE c \in {Head(channel)} <=> \E i \in 1..1 : queued[Settled + i] = c
  BY <1>2, <1>4, <1>5
<1>10. Answers'
  BY <1>2, <1>3, <1>4, <1>6, <1>9, QueueAnswered
<1> QED BY <1>6, <1>8, <1>10

\* The batch is answered.
LEMMA QueueCommit ==
  ASSUME Inv, NEW result \in {"ok", "error"}, Answer(Range(batch), result), batch' = <<>>,
         UNCHANGED <<channel, leftover, queued>>
  PROVE  Queue' /\ Answers' /\ Settled' = Settled + Len(batch)
<1> DEFINE b == Len(batch)
<1>1. TypeInv /\ Queue /\ Len(batch') = 0 /\ Held' = Held
  BY DEF Inv, Held
<1>2. /\ Len(queued) \in Nat /\ Len(channel) \in Nat /\ b \in Nat /\ Settled \in Int /\ Held \in 0..1
      /\ Settled + b + Held + Len(channel) = Len(queued)
  BY <1>1, Counts
<1>3. queued' = queued /\ channel' = channel /\ leftover' = leftover /\ batch \in Seq(Callers)
  BY <1>1 DEF TypeInv
<1>4. Settled' = Settled + b
  BY <1>1, <1>2, <1>3 DEF Settled
<1>5. \A i \in 1..b : batch[i] = queued[Settled + i]
  BY <1>1 DEF Queue
<1>6. \A c : c \in Range(batch) <=> \E i \in 1..b : queued[Settled + i] = c
  <2>1. DOMAIN batch = 1..b
    BY <1>3
  <2> HIDE DEF b
  <2> QED BY <2>1, <1>5 DEF Range
<1> HIDE DEF b
<1>7. Queue'
  <2>1. \A i, j \in 1..Len(queued) : queued[i] = queued[j] => i = j
    BY <1>1 DEF Queue
  <2>2. Settled >= 0
    BY <1>1 DEF Queue
  <2>3. Settled' >= 0
    BY <2>2, <1>2, <1>4
  <2>4. \A i \in 1..Len(batch') : batch'[i] = queued'[Settled' + i]
    BY <1>1
  <2>5. leftover # NoOne => leftover = queued[(Settled + b) + 0 + 1]
    <3>1. leftover # NoOne => leftover = queued[Settled + Len(batch) + 1]
      BY <1>1 DEF Queue
    <3>2. Settled + Len(batch) + 1 = (Settled + b) + 0 + 1
      BY <1>2 DEF b
    <3> QED BY <3>1, <3>2
  <2>6. \A i \in 1..Len(channel) : channel[i] = queued[(Settled + b) + 0 + Held + i]
    <3> SUFFICES ASSUME NEW i \in 1..Len(channel) PROVE channel[i] = queued[(Settled + b) + 0 + Held + i]
      OBVIOUS
    <3>1. channel[i] = queued[Settled + Len(batch) + Held + i]
      BY <1>1 DEF Queue
    <3>2. Settled + Len(batch) + Held + i = (Settled + b) + 0 + Held + i
      BY <1>2 DEF b
    <3> QED BY <3>1, <3>2
  <2>7. leftover' # NoOne => leftover' = queued'[Settled' + Len(batch') + 1]
    BY <2>5, <1>1, <1>3, <1>4
  <2>8. \A i \in 1..Len(channel') : channel'[i] = queued'[Settled' + Len(batch') + Held' + i]
    BY <2>6, <1>1, <1>3, <1>4
  <2> QED BY <2>1, <2>3, <2>4, <2>7, <2>8, <1>3 DEF Queue
<1>8. Settled + b <= Len(queued)
  BY <1>2
<1>9. Answers'
  BY <1>2, <1>3, <1>4, <1>6, <1>8, QueueAnswered
<1> QED BY <1>4, <1>7, <1>9 DEF b

\* A group commit that succeeds adds its frames at the end of the log and
\* acknowledges its tickets.
LEMMA LogCommitted ==
  ASSUME Inv, wpc \in {"write", "commit"}, segments' = Extend(FramesOf(batch)),
         Answer(Range(batch), "ok"), batch' = <<>>,
         UNCHANGED <<channel, leftover, queued, terminal, draining>>
  PROVE  Log' /\ segments' \in Seq(Seq(Frames)) /\ Len(segments') = Len(segments)
<1>s. PICK s : s = segments
  OBVIOUS
<1>t. PICK t : t = segments'
  OBVIOUS
<1> DEFINE f == FramesOf(batch)
           n == Len(s)
           l == Len(s[n])
           b == Len(batch)
<1>1. TypeInv /\ Control /\ Queue /\ Answers /\ Logged /\ Unbroken /\ (~DrainsBroken => Durable /\ Ordered)
  BY DEF Inv, Log
<1>2. s \in Seq(Seq(Frames)) /\ n >= 1 /\ batch \in Seq(Callers) /\ n \in Nat /\ n \in 1..n
  BY <1>1, <1>s DEF TypeInv
<1>3. /\ f \in Seq(Frames)
      /\ \A k \in 1..Len(f) : \E i \in 1..b, r \in 1..Records : f[k] = [ticket |-> batch[i], record |-> r]
      /\ \A i \in 1..b, r \in 1..Records : \E k \in 1..Len(f) : f[k] = [ticket |-> batch[i], record |-> r]
  BY <1>2, FramesAre
<1>4. \A k, m \in 1..Len(f) : k < m =>
        \E i, j \in 1..b, r, v \in 1..Records :
          /\ f[k] = [ticket |-> batch[i], record |-> r]
          /\ f[m] = [ticket |-> batch[j], record |-> v]
          /\ i < j \/ (i = j /\ r < v)
  BY <1>2, FramesAre
<1> HIDE DEF f
<1>5. t = [s EXCEPT ![Len(s)] = @ \o f]
  BY <1>s, <1>t DEF Extend, f
<1>x. s \in Seq(Seq(Frames)) /\ Len(s) >= 1 /\ f \in Seq(Frames)
  BY <1>2, <1>3
<1>g. Grown(s, f, t)
  BY <1>x, <1>5, PlacesExtended
<1>6. t \in Seq(Seq(Frames)) /\ Len(t) = n
  BY <1>g DEF Grown
<1>7. /\ \A p \in Replayed : p \in Replayed' /\ FrameAt(p)' = FrameAt(p)
      /\ \A p \in Replayed' : p \notin Replayed => \E k \in 1..Len(f) : p = <<n, l + k>> /\ FrameAt(p)' = f[k]
  <2>1. Replayed = Places(s) /\ Replayed' = Places(t)
    BY <1>s, <1>t DEF Replayed, Places
  <2>2. \A p : FrameAt(p) = s[p[1]][p[2]] /\ FrameAt(p)' = t[p[1]][p[2]]
    BY <1>s, <1>t DEF FrameAt
  <2>3. \A p \in Places(s) : p \in Places(t) /\ t[p[1]][p[2]] = s[p[1]][p[2]]
    BY <1>g DEF Grown
  <2>4. \A p \in Places(t) : p \notin Places(s) =>
          \E k \in 1..Len(f) : p = <<n, l + k>> /\ t[p[1]][p[2]] = f[k]
    BY <1>g DEF Grown
  <2> QED BY <2>1, <2>2, <2>3, <2>4
<1>8. \A k \in 1..Len(f) : l + k \in 1..Len(t[n]) /\ t[n][l + k] = f[k]
  BY <1>g DEF Grown
<1>9. \A j \in 1..n : \A i \in 1..Len(t[j]) :
        (i \in 1..Len(s[j]) /\ t[j][i] = s[j][i]) \/ \E k \in 1..Len(f) : t[j][i] = f[k]
  BY <1>g DEF Grown
<1>10. /\ Len(queued) \in Nat /\ Len(channel) \in Nat /\ b \in Nat /\ Settled \in Int /\ Held \in 0..1
       /\ Settled + b + Held + Len(channel) = Len(queued)
  BY <1>1, Counts
<1>11. Settled >= 0 /\ \A i \in 1..b : batch[i] = queued[Settled + i] /\ batch[i] \in Callers
  BY <1>1, <1>2 DEF Queue
<1>12. Settled' = Settled + b /\ queued' = queued
  BY QueueCommit
<1>13. \A i \in 1..b : Settled + i \in 1..Len(queued) /\ Settled + i <= Settled'
  BY <1>10, <1>11, <1>12
<1>14. \A c \in Callers : pc'[c] = IF c \in Range(batch) THEN "ok" ELSE pc[c]
  BY DEF Answer
<1>15. \A k \in 1..Len(f) : f[k] # Torn
  <2> SUFFICES ASSUME NEW k \in 1..Len(f) PROVE f[k] # Torn
    OBVIOUS
  <2>1. PICK i \in 1..b, r \in 1..Records : f[k] = [ticket |-> batch[i], record |-> r]
    BY <1>3
  <2>2. f[k] \in [ticket : Callers, record : 1..Records]
    BY <2>1, <1>11
  <2> QED BY <2>2, WalAssumption DEF WalAssumption
<1> HIDE DEF n, l, b
<1>16. Logged'
  <2> SUFFICES ASSUME NEW p \in Replayed'
               PROVE  \E i \in 1..Len(queued) : i <= Settled' /\ queued[i] = (FrameAt(p)').ticket
    BY <1>12 DEF Logged
  <2>1. CASE p \in Replayed
    <3>1. PICK i \in 1..Len(queued) : i <= Settled /\ queued[i] = FrameAt(p).ticket
      BY <2>1, <1>1 DEF Logged
    <3>2. i <= Settled'
      BY <3>1, <1>10, <1>12
    <3> QED BY <3>1, <3>2, <2>1, <1>7
  <2>2. CASE p \notin Replayed
    <3>1. PICK k \in 1..Len(f) : FrameAt(p)' = f[k]
      BY <2>2, <1>7
    <3>2. PICK i \in 1..b, r \in 1..Records : f[k] = [ticket |-> batch[i], record |-> r]
      BY <1>3
    <3> QED BY <3>1, <3>2, <1>11, <1>13
  <2> QED BY <2>1, <2>2
<1>17. Unbroken'
  <2> SUFFICES ASSUME ~terminal', NEW j \in 1..n, NEW k \in 1..Len(t[j]) PROVE t[j][k] # Torn
    BY <1>t, <1>6 DEF Unbroken
  <2>1. ~terminal
    OBVIOUS
  <2>2. \A i \in 1..Len(s[j]) : s[j][i] # Torn
    BY <2>1, <1>1, <1>s DEF Unbroken, n
  <2> QED BY <2>2, <1>9, <1>15
<1>18. ASSUME ~DrainsBroken' PROVE Durable' /\ Ordered'
  <2>1. ~DrainsBroken /\ ~terminal'
    BY <1>18, <1>1 DEF DrainsBroken, Control
  <2>2. Durable /\ Ordered
    BY <2>1, <1>1
  <2>3. \A k \in 1..Len(f) : <<n, l + k>> \in Replayed' /\ FrameAt(<<n, l + k>>)' = f[k]
    <3> SUFFICES ASSUME NEW k \in 1..Len(f) PROVE <<n, l + k>> \in Replayed' /\ FrameAt(<<n, l + k>>)' = f[k]
      OBVIOUS
    <3>1. PICK m \in 1..Len(t[n]) : m = l + k
      BY <1>8
    <3>2. \A i \in 1..Len(t[n]) : t[n][i] # Torn
      BY <2>1, <1>2, <1>6, <1>17, <1>t DEF Unbroken
    <3>3. t[n] \in Seq(Frames) /\ Len(t[n]) \in Nat
      BY <1>2, <1>6
    <3>4. \A i \in 1..m : t[n][i] # Torn
      BY <3>2, <3>3
    <3>5. n \in 1..Len(t)
      BY <1>2, <1>6
    <3>6. <<n, m>> \in Places(t)
      BY <3>4, <3>5, <1>6, PlacesAre
    <3>7. Replayed' = Places(t)
      BY <1>t DEF Replayed, Places
    <3>8. t[n][m] = f[k]
      BY <3>1, <1>8
    <3>9. FrameAt(<<n, m>>)' = t[n][m]
      BY <1>t DEF FrameAt
    <3> QED BY <3>1, <3>6, <3>7, <3>8, <3>9
  <2>4. Durable'
    <3> SUFFICES ASSUME NEW c \in Callers, NEW r \in 1..Records, pc'[c] = "ok"
                 PROVE  \E p \in Replayed' : FrameAt(p)' = [ticket |-> c, record |-> r]
      BY DEF Durable
    <3>1. CASE c \in Range(batch)
      <4>1. PICK i \in 1..b : c = batch[i]
        BY <3>1, <1>2 DEF Range, b
      <4>2. PICK k \in 1..Len(f) : f[k] = [ticket |-> c, record |-> r]
        BY <4>1, <1>3
      <4>3. PICK p : p = <<n, l + k>>
        OBVIOUS
      <4>4. p \in Replayed' /\ FrameAt(p)' = f[k]
        BY <4>3, <2>3
      <4> QED BY <4>2, <4>4
    <3>2. CASE c \notin Range(batch)
      <4>1. pc[c] = "ok"
        BY <3>2, <1>14
      <4>2. PICK p \in Replayed : FrameAt(p) = [ticket |-> c, record |-> r]
        BY <4>1, <2>2 DEF Durable
      <4> QED BY <4>2, <1>7
    <3> QED BY <3>1, <3>2
  <2>5. Ordered'
    <3> SUFFICES ASSUME NEW p \in Replayed', NEW q \in Replayed', ReadBefore(p, q),
                        pc'[(FrameAt(p)').ticket] = "ok", pc'[(FrameAt(q)').ticket] = "ok"
                 PROVE  \E i, j \in 1..Len(queued) :
                          /\ queued[i] = (FrameAt(p)').ticket /\ queued[j] = (FrameAt(q)').ticket
                          /\ i < j \/ (i = j /\ (FrameAt(p)').record < (FrameAt(q)').record)
      <4>1. DOMAIN queued' = 1..Len(queued)
        BY <1>1, <1>12 DEF TypeInv
      <4> QED BY <4>1, <1>12 DEF Ordered, Precedes, ReadBefore
    <3>1. CASE p \in Replayed /\ q \in Replayed
      <4>1. FrameAt(p)' = FrameAt(p) /\ FrameAt(q)' = FrameAt(q)
        BY <3>1, <1>7
      <4>2. pc[FrameAt(p).ticket] = "ok" /\ pc[FrameAt(q).ticket] = "ok"
        <5>1. ASSUME NEW x \in Replayed, pc'[FrameAt(x).ticket] = "ok" PROVE pc[FrameAt(x).ticket] = "ok"
          <6>1. PICK i \in 1..Len(queued) : i <= Settled /\ queued[i] = FrameAt(x).ticket
            BY <1>1 DEF Logged
          <6>2. queued[i] \in Callers
            BY <1>1 DEF TypeInv
          <6>3. queued[i] \notin Range(batch)
            <7> SUFFICES ASSUME queued[i] \in Range(batch) PROVE FALSE
              OBVIOUS
            <7>1. PICK j \in 1..b : queued[i] = batch[j]
              BY <1>2 DEF Range, b
            <7>2. queued[i] = queued[Settled + j] /\ Settled + j \in 1..Len(queued)
              BY <7>1, <1>11, <1>13
            <7>3. i = Settled + j
              BY <7>2, <1>1 DEF Queue
            <7> QED BY <7>3, <6>1, <1>10
          <6> QED BY <6>1, <6>2, <6>3, <5>1, <1>14
        <5> QED BY <5>1, <3>1, <4>1
      <4>3. Precedes(FrameAt(p), FrameAt(q))
        BY <4>2, <3>1, <2>2 DEF Ordered
      <4>4. DOMAIN queued = 1..Len(queued)
        BY <1>1 DEF TypeInv
      <4> QED BY <4>1, <4>3, <4>4 DEF Precedes
    <3>2. CASE p \in Replayed /\ q \notin Replayed
      <4>1. PICK i \in 1..Len(queued) : i <= Settled /\ queued[i] = FrameAt(p).ticket
        BY <3>2, <1>1 DEF Logged
      <4>2. PICK k \in 1..Len(f) : FrameAt(q)' = f[k]
        BY <3>2, <1>7
      <4>3. PICK j \in 1..b, r \in 1..Records : f[k] = [ticket |-> batch[j], record |-> r]
        BY <1>3
      <4>4. (FrameAt(q)').ticket = queued[Settled + j] /\ Settled + j \in 1..Len(queued) /\ i < Settled + j
        BY <4>1, <4>2, <4>3, <1>10, <1>11, <1>13
      <4>5. (FrameAt(p)').ticket = queued[i]
        BY <4>1, <3>2, <1>7
      <4> QED BY <4>4, <4>5
    <3>3. CASE p \notin Replayed /\ q \in Replayed
      <4>1. PICK k \in 1..Len(f) : p = <<n, l + k>>
        BY <3>3, <1>7
      <4>2. q \in Places(s)
        BY <3>3, <1>s DEF Replayed, Places
      <4>3. PICK j \in 1..Len(s) : \E i \in 1..Len(s[j]) : q = <<j, i>>
        BY <4>2, <1>2, PlacesAre
      <4>4. PICK i \in 1..Len(s[j]) : q = <<j, i>>
        BY <4>3
      <4>5. p[1] = n /\ p[2] = l + k /\ q[1] = j /\ q[2] = i
        BY <4>1, <4>4
      <4>6. n < j \/ (n = j /\ l + k < i)
        BY <4>5, ReadBefore(p, q) DEF ReadBefore
      <4>7. j <= n /\ j \in Nat
        BY <1>2 DEF n
      <4>8. n = j /\ l + k < i
        BY <4>6, <4>7, <1>2
      <4>9. i <= l /\ l \in Nat /\ Len(f) \in Nat
        BY <4>8, <1>2, <1>3 DEF l
      <4> QED BY <4>8, <4>9
    <3>4. CASE p \notin Replayed /\ q \notin Replayed
      <4>1. PICK k \in 1..Len(f) : p = <<n, l + k>> /\ FrameAt(p)' = f[k]
        BY <3>4, <1>7
      <4>2. PICK m \in 1..Len(f) : q = <<n, l + m>> /\ FrameAt(q)' = f[m]
        BY <3>4, <1>7
      <4>3. p[1] = n /\ p[2] = l + k /\ q[1] = n /\ q[2] = l + m
        BY <4>1, <4>2
      <4>4. l \in Nat /\ Len(f) \in Nat
        BY <1>2, <1>3 DEF l
      <4>5. l + k < l + m
        BY <4>3, <1>2, ReadBefore(p, q) DEF ReadBefore
      <4>6. k < m
        BY <4>4, <4>5
      <4>7. PICK i \in 1..b, j \in 1..b, r \in 1..Records, v \in 1..Records :
              /\ f[k] = [ticket |-> batch[i], record |-> r]
              /\ f[m] = [ticket |-> batch[j], record |-> v]
              /\ i < j \/ (i = j /\ r < v)
        BY <4>6, <1>4
      <4>8. /\ (FrameAt(p)').ticket = queued[Settled + i] /\ (FrameAt(p)').record = r
            /\ (FrameAt(q)').ticket = queued[Settled + j] /\ (FrameAt(q)').record = v
        BY <4>1, <4>2, <4>7, <1>11
      <4>9. Settled + i < Settled + j \/ (Settled + i = Settled + j /\ r < v)
        BY <4>7, <1>10
      <4>10. Settled + i \in 1..Len(queued) /\ Settled + j \in 1..Len(queued)
        BY <1>13
      <4> QED BY <4>8, <4>9, <4>10
    <3> QED BY <3>1, <3>2, <3>3, <3>4
  <2> QED BY <2>4, <2>5
<1> QED BY <1>6, <1>16, <1>17, <1>18, <1>s, <1>t DEF Log, n

\* Whoever is in the batch, the leftover or the channel waits for an answer.
LEMMA PendingWait ==
  ASSUME Inv
  PROVE  /\ \A i \in 1..Len(batch) : pc[batch[i]] = "waiting"
         /\ leftover # NoOne => pc[leftover] = "waiting"
         /\ \A i \in 1..Len(channel) : pc[channel[i]] = "waiting"
<1>1. TypeInv /\ Queue /\ Answers
  BY DEF Inv
<1>2. /\ Len(queued) \in Nat /\ Len(channel) \in Nat /\ Len(batch) \in Nat /\ Settled \in Int /\ Held \in 0..1
      /\ Settled + Len(batch) + Held + Len(channel) = Len(queued) /\ (leftover = NoOne <=> Held = 0)
  BY <1>1, Counts
<1>3. Settled >= 0
  BY <1>1 DEF Queue
<1>4. ASSUME NEW i \in 1..Len(batch) PROVE pc[batch[i]] = "waiting"
  <2>1. PICK j : j = Settled + i
    OBVIOUS
  <2>2. j \in 1..Len(queued) /\ j > Settled /\ batch[i] = queued[j]
    BY <2>1, <1>1, <1>2, <1>3 DEF Queue
  <2> QED BY <2>2, <1>1 DEF Answers
<1>5. ASSUME leftover # NoOne PROVE pc[leftover] = "waiting"
  <2>1. PICK j : j = Settled + Len(batch) + 1
    OBVIOUS
  <2>2. leftover = queued[j]
    BY <2>1, <1>5, <1>1 DEF Queue
  <2>3. j \in 1..Len(queued) /\ j > Settled
    BY <2>1, <1>2, <1>3, <1>5
  <2> QED BY <2>2, <2>3, <1>1 DEF Answers
<1>6. ASSUME NEW i \in 1..Len(channel) PROVE pc[channel[i]] = "waiting"
  <2>1. PICK j : j = Settled + Len(batch) + Held + i
    OBVIOUS
  <2>2. channel[i] = queued[j]
    BY <2>1, <1>1 DEF Queue
  <2>3. j \in 1..Len(queued) /\ j > Settled
    BY <2>1, <1>2, <1>3
  <2> QED BY <2>2, <2>3, <1>1 DEF Answers
<1> QED BY <1>4, <1>5, <1>6

\* The log in a step that writes no frame.
LEMMA LogSame ==
  ASSUME Inv, TypeInv', segments' = segments \/ segments' = Append(segments, <<>>),
         Settled' \in Int, Settled <= Settled',
         Len(queued) <= Len(queued'), \A i \in 1..Len(queued) : queued'[i] = queued[i],
         \A c \in Callers : pc'[c] = "ok" <=> pc[c] = "ok",
         terminal => terminal', draining => draining'
  PROVE  Log'
<1>1. TypeInv /\ Logged /\ Unbroken /\ (~DrainsBroken => Durable /\ Ordered)
  BY DEF Inv, Log
<1>2. PICK s : s = segments
  OBVIOUS
<1>3. PICK t : t = segments'
  OBVIOUS
<1>4. s \in Seq(Seq(Frames)) /\ Len(s) \in Nat
  BY <1>1, <1>2 DEF TypeInv
<1>5. t = s \/ t = Append(s, <<>>)
  BY <1>2, <1>3
<1>6. (\A p \in Places(s) : p \in Places(t) /\ t[p[1]][p[2]] = s[p[1]][p[2]]) /\ \A p \in Places(t) : p \in Places(s)
  BY <1>4, <1>5, PlacesAdded
<1>7. Replayed = Places(s) /\ Replayed' = Places(t)
  BY <1>2, <1>3 DEF Replayed, Places
<1>8. \A p : FrameAt(p) = s[p[1]][p[2]] /\ FrameAt(p)' = t[p[1]][p[2]]
  BY <1>2, <1>3 DEF FrameAt
<1>9. (\A p \in Replayed : p \in Replayed' /\ FrameAt(p)' = FrameAt(p)) /\ \A p \in Replayed' : p \in Replayed
  BY <1>6, <1>7, <1>8
<1>10. Settled \in Int
  BY <1>1, Counts
<1>11. DrainsBroken => DrainsBroken'
  BY DEF DrainsBroken
<1>12. Logged' /\ (~DrainsBroken' => Durable' /\ Ordered')
  BY <1>1, <1>9, <1>10, <1>11, LogKept
<1>13. Unbroken'
  <2> SUFFICES ASSUME ~terminal', NEW j \in 1..Len(t), NEW k \in 1..Len(t[j]) PROVE t[j][k] # Torn
    BY <1>3 DEF Unbroken
  <2>1. \A i \in 1..Len(s) : \A m \in 1..Len(s[i]) : s[i][m] # Torn
    BY <1>1, <1>2 DEF Unbroken
  <2>2. CASE t = s
    BY <2>1, <2>2
  <2>3. CASE t = Append(s, <<>>)
    <3>1. Len(t) = Len(s) + 1 /\ t[Len(s) + 1] = <<>> /\ \A i \in 1..Len(s) : t[i] = s[i]
      BY <2>3, <1>4
    <3>2. CASE j = Len(s) + 1
      <4>1. Len(t[j]) = 0
        BY <3>1, <3>2
      <4> QED BY <4>1
    <3>3. CASE j \in 1..Len(s)
      BY <2>1, <3>1, <3>3
    <3> QED BY <3>1, <3>2, <3>3, <1>4
  <2> QED BY <2>2, <2>3, <1>5
<1> QED BY <1>12, <1>13 DEF Log

\* A group commit that fails leaves some of its frames, perhaps an incomplete one,
\* and acknowledges nothing.
LEMMA LogFailed ==
  ASSUME Inv, TypeInv', NEW x \in Seq(Frames), segments' = Extend(x), terminal' = TRUE,
         \A k \in 1..Len(x) :
           x[k] = Torn \/ \E i \in 1..Len(batch), r \in 1..Records : x[k] = [ticket |-> batch[i], record |-> r],
         Answer(Range(batch), "error"), batch' = <<>>,
         UNCHANGED <<channel, leftover, queued, draining>>
  PROVE  Log'
<1>1. TypeInv /\ Queue /\ Logged /\ Unbroken /\ (~DrainsBroken => Durable /\ Ordered)
  BY DEF Inv, Log
<1>2. PICK s : s = segments
  OBVIOUS
<1>3. PICK t : t = segments'
  OBVIOUS
<1>4. s \in Seq(Seq(Frames)) /\ Len(s) >= 1 /\ batch \in Seq(Callers) /\ Len(batch) \in Nat
  BY <1>1, <1>2 DEF TypeInv
<1>5. t = [s EXCEPT ![Len(s)] = @ \o x]
  BY <1>2, <1>3 DEF Extend
<1>6. Grown(s, x, t)
  BY <1>4, <1>5, PlacesExtended
<1>7. Replayed = Places(s) /\ Replayed' = Places(t)
  BY <1>2, <1>3 DEF Replayed, Places
<1>8. \A p : FrameAt(p) = s[p[1]][p[2]] /\ FrameAt(p)' = t[p[1]][p[2]]
  BY <1>2, <1>3 DEF FrameAt
<1>9. \A p \in Replayed : p \in Replayed' /\ FrameAt(p)' = FrameAt(p)
  <2>1. \A p \in Places(s) : p \in Places(t) /\ t[p[1]][p[2]] = s[p[1]][p[2]]
    BY <1>6 DEF Grown
  <2> QED BY <2>1, <1>7, <1>8
<1>10. /\ Len(queued) \in Nat /\ Len(channel) \in Nat /\ Settled \in Int /\ Held \in 0..1
       /\ Settled + Len(batch) + Held + Len(channel) = Len(queued)
  BY <1>1, Counts
<1>11. Settled >= 0 /\ \A i \in 1..Len(batch) : batch[i] = queued[Settled + i] /\ batch[i] \in Callers
  BY <1>1, <1>4 DEF Queue
<1>12. Settled' = Settled + Len(batch) /\ queued' = queued
  BY QueueCommit
<1>13. \A c \in Callers : pc'[c] = IF c \in Range(batch) THEN "error" ELSE pc[c]
  BY DEF Answer
<1>14. \A c : c \in Range(batch) <=> \E i \in 1..Len(batch) : c = batch[i]
  BY <1>4 DEF Range
<1>15. ASSUME NEW p \in Replayed', p \notin Replayed
       PROVE  \E i \in 1..Len(queued') :
                i <= Settled' /\ queued'[i] = (FrameAt(p)').ticket /\ pc'[queued'[i]] # "ok"
  <2>1. PICK k \in 1..Len(x) : FrameAt(p)' = x[k]
    <3>1. \E k \in 1..Len(x) : t[p[1]][p[2]] = x[k]
      BY <1>6, <1>7, <1>15 DEF Grown
    <3> QED BY <3>1, <1>8
  <2>2. FrameAt(p)' \in [ticket : Callers, record : 1..Records]
    <3>1. t \in Seq(Seq(Frames))
      BY <1>6 DEF Grown
    <3>2. t[p[1]][p[2]] \in [ticket : Callers, record : 1..Records]
      BY <3>1, <1>7, PlacesAre
    <3> QED BY <3>2, <1>8
  <2>3. x[k] # Torn
    BY <2>1, <2>2, WalAssumption DEF WalAssumption
  <2>4. PICK i \in 1..Len(batch), r \in 1..Records : x[k] = [ticket |-> batch[i], record |-> r]
    BY <2>3
  <2>5. (FrameAt(p)').ticket = batch[i] /\ pc'[batch[i]] = "error"
    BY <2>1, <2>4, <1>11, <1>13, <1>14
  <2>6. PICK j : j = Settled + i
    OBVIOUS
  <2>7. j \in 1..Len(queued) /\ j <= Settled + Len(batch) /\ queued[j] = batch[i]
    BY <2>6, <1>4, <1>10, <1>11
  <2> QED BY <2>5, <2>7, <1>12
<1>16. \A c \in Callers : pc'[c] = "ok" <=> pc[c] = "ok"
  <2>1. \A i \in 1..Len(batch) : pc[batch[i]] = "waiting"
    BY PendingWait
  <2> QED BY <2>1, <1>13, <1>14
<1>17. DrainsBroken => DrainsBroken'
  BY DEF DrainsBroken
<1>18. Settled' \in Int /\ Settled <= Settled' /\ Len(queued) <= Len(queued') /\ \A i \in 1..Len(queued) : queued'[i] = queued[i]
  BY <1>4, <1>10, <1>12
<1>19. Logged' /\ (~DrainsBroken' => Durable' /\ Ordered')
  BY <1>1, <1>9, <1>10, <1>15, <1>16, <1>17, <1>18, LogKept
<1>20. Unbroken'
  BY DEF Unbroken
<1> QED BY <1>19, <1>20 DEF Log

------------------------------------------------------------------------------
(* The steps *)

LEMMA InvInit == Init => Inv
<1> SUFFICES ASSUME Init PROVE Inv
  OBVIOUS
<1>1. segments = <<<<>>>> /\ channel = <<>> /\ batch = <<>> /\ queued = <<>> /\ leftover = NoOne
  BY DEF Init
<1>2. segments \in Seq(Seq(Frames)) /\ Len(segments) = 1 /\ segments[1] = <<>>
  BY <1>1
<1>3. TypeInv
  <2>1. active \in BOOLEAN /\ isClosed \in BOOLEAN /\ terminal \in BOOLEAN /\ draining \in BOOLEAN
    BY DEF Init
  <2>2. channel \in Seq(Callers) /\ batch \in Seq(Callers) /\ queued \in Seq(Callers) /\ Len(channel) = 0
    BY <1>1
  <2>3. Len(channel) <= ChanCap
    BY <2>2, WalAssumption DEF WalAssumption
  <2>4. /\ size \in Nat /\ pc \in [Callers -> {"idle", "blocked", "waiting", "ok", "error", "closed"}]
        /\ wpc \in {"top", "gather", "write", "commit", "drain", "fail", "exit"} /\ kpc \in {"none", "join", "done"}
    BY DEF Init
  <2> QED BY <2>1, <2>2, <2>3, <2>4, <1>1, <1>2 DEF TypeInv
<1>4. Control
  BY DEF Init, Control
<1>5. Len(batch) = 0 /\ Len(channel) = 0 /\ Len(queued) = 0 /\ Held = 0
  BY <1>1 DEF Held
<1>6. Sizes
  <2>1. size = 0 /\ wpc = "top"
    BY DEF Init
  <2> QED BY <2>1, <1>5, WalAssumption DEF Sizes, WalAssumption
<1>7. Queue
  <2>1. Settled = 0
    BY <1>5 DEF Settled
  <2> QED BY <2>1, <1>1, <1>5 DEF Queue
<1>8. Answers
  <2>1. \A c \in Callers : pc[c] = "idle"
    BY DEF Init
  <2> QED BY <2>1, <1>5 DEF Answers
<1>9. \A p : p \notin Replayed
  <2>1. \A p \in Places(segments) : \E j \in 1..Len(segments) : \E k \in 1..Len(segments[j]) : p = <<j, k>>
    BY <1>2, PlacesAre
  <2>2. \A j \in 1..Len(segments) : Len(segments[j]) = 0
    BY <1>2
  <2>3. Replayed = Places(segments)
    BY DEF Replayed, Places
  <2> QED BY <2>1, <2>2, <2>3
<1>10. Log
  <2>1. Logged /\ Ordered
    BY <1>9 DEF Logged, Ordered
  <2>2. Durable
    BY DEF Init, Durable
  <2>3. Unbroken
    BY <1>2 DEF Unbroken
  <2> QED BY <2>1, <2>2, <2>3 DEF Log
<1> QED BY <1>3, <1>4, <1>6, <1>7, <1>8, <1>10 DEF Inv

\* A caller that changes only its own step, without a ticket.
LEMMA CallerSteps ==
  ASSUME Inv, NEW c \in Callers, pc[c] \in {"idle", "blocked"}, NEW result \in {"closed", "error", "blocked"},
         pc' = [pc EXCEPT ![c] = result],
         UNCHANGED <<disk, isClosed, terminal, worker, kpc, channel, queued>>
  PROVE  Inv'
<1>1. TypeInv /\ Control /\ Sizes /\ Queue /\ Answers /\ Log
  BY DEF Inv
<1>2. /\ segments' = segments /\ active' = active /\ size' = size /\ isClosed' = isClosed /\ terminal' = terminal
      /\ wpc' = wpc /\ batch' = batch /\ leftover' = leftover /\ draining' = draining /\ kpc' = kpc
      /\ channel' = channel /\ queued' = queued
  BY DEF disk, worker
<1>3. TypeInv'
  BY <1>1, <1>2 DEF TypeInv
<1>4. Control' /\ Sizes' /\ Held' = Held
  BY <1>1, <1>2 DEF Control, Sizes, Held
<1>5. Settled' = Settled
  BY <1>2, <1>4 DEF Settled
<1>6. Queue'
  BY <1>1, <1>2, <1>4, <1>5 DEF Queue
<1>7. \A d \in Callers : pc'[d] = IF d = c THEN result ELSE pc[d]
  BY <1>1 DEF TypeInv
<1>8. Settled \in Int /\ Len(queued) \in Nat
  BY <1>1, Counts
<1>9. \A i \in 1..Len(queued) : queued[i] \in Callers /\ pc'[queued[i]] = pc[queued[i]]
  <2> SUFFICES ASSUME NEW i \in 1..Len(queued) PROVE queued[i] \in Callers /\ pc'[queued[i]] = pc[queued[i]]
    OBVIOUS
  <2>1. queued[i] \in Callers
    BY <1>1 DEF TypeInv
  <2>2. pc[queued[i]] \in {"ok", "error", "waiting"}
    BY <1>1, <1>8 DEF Answers
  <2> QED BY <2>1, <2>2, <1>7
<1>10. Answers'
  <2>1. \A d \in Callers : pc'[d] \in {"waiting", "ok"} => pc[d] \in {"waiting", "ok"}
    BY <1>7
  <2>2. \A d \in Callers : pc[d] \in {"waiting", "ok"} => \E i \in 1..Len(queued) : queued[i] = d
    BY <1>1 DEF Answers
  <2>3. \A i \in 1..Len(queued) : i <= Settled => pc'[queued[i]] \in {"ok", "error"}
    BY <1>1, <1>9 DEF Answers
  <2>4. \A i \in 1..Len(queued) : i > Settled => pc'[queued[i]] = "waiting"
    BY <1>1, <1>9 DEF Answers
  <2> QED BY <2>1, <2>2, <2>3, <2>4, <1>2, <1>5 DEF Answers
<1>11. Log'
  <2>1. \A d \in Callers : pc'[d] = "ok" <=> pc[d] = "ok"
    BY <1>7
  <2> QED BY <2>1, <1>2, <1>3, <1>5, <1>8, LogSame
<1> QED BY <1>3, <1>4, <1>6, <1>10, <1>11 DEF Inv

\* A caller that hands in its ticket.
LEMMA CallerEnqueues ==
  ASSUME Inv, NEW c \in Callers, pc[c] \in {"idle", "blocked"}, Enqueue(c),
         UNCHANGED <<disk, isClosed, terminal, worker, kpc>>
  PROVE  Inv'
<1>1. TypeInv /\ Control /\ Sizes
  BY DEF Inv
<1>2. /\ segments' = segments /\ active' = active /\ size' = size /\ isClosed' = isClosed /\ terminal' = terminal
      /\ wpc' = wpc /\ batch' = batch /\ leftover' = leftover /\ draining' = draining /\ kpc' = kpc
  BY DEF disk, worker
<1>3. /\ Len(channel) < ChanCap /\ channel' = Append(channel, c) /\ queued' = Append(queued, c)
      /\ pc' = [pc EXCEPT ![c] = "waiting"]
  BY DEF Enqueue
<1>4. /\ channel' \in Seq(Callers) /\ queued' \in Seq(Callers) /\ Len(channel') = Len(channel) + 1
      /\ Len(queued') = Len(queued) + 1 /\ \A i \in 1..Len(queued) : queued'[i] = queued[i]
  BY <1>1, <1>3 DEF TypeInv
<1>5. Len(channel') <= ChanCap /\ Len(queued) <= Len(queued')
  BY <1>1, <1>3, <1>4, Counts, WalAssumption DEF WalAssumption
<1>6. TypeInv'
  BY <1>1, <1>2, <1>3, <1>4, <1>5 DEF TypeInv
<1>7. Control' /\ Sizes'
  BY <1>1, <1>2 DEF Control, Sizes
<1>8. Queue' /\ Answers' /\ Settled' = Settled
  BY <1>2, QueueEnqueue
<1>9. Log'
  <2>1. \A d \in Callers : pc'[d] = "ok" <=> pc[d] = "ok"
    BY <1>1, <1>3 DEF TypeInv
  <2>2. Settled' \in Int /\ Settled <= Settled'
    BY <1>1, <1>8, Counts
  <2> QED BY <2>1, <2>2, <1>2, <1>4, <1>5, <1>6, LogSame
<1> QED BY <1>6, <1>7, <1>8, <1>9 DEF Inv

LEMMA InvAppendBatch ==
  ASSUME Inv, NEW c \in Callers, AppendBatch(c) PROVE Inv'
<1>1. pc[c] = "idle" /\ UNCHANGED <<disk, isClosed, terminal, worker, kpc>>
  BY DEF AppendBatch
<1>2. \/ \E result \in {"closed", "error", "blocked"} : pc' = [pc EXCEPT ![c] = result] /\ UNCHANGED <<channel, queued>>
      \/ Enqueue(c)
  BY DEF AppendBatch
<1>3. CASE Enqueue(c)
  BY <1>1, <1>3, CallerEnqueues
<1>4. CASE \E result \in {"closed", "error", "blocked"} : pc' = [pc EXCEPT ![c] = result] /\ UNCHANGED <<channel, queued>>
  BY <1>1, <1>4, CallerSteps
<1> QED BY <1>2, <1>3, <1>4

LEMMA InvBlocked ==
  ASSUME Inv, NEW c \in Callers, Blocked(c) PROVE Inv'
<1>1. pc[c] = "blocked" /\ UNCHANGED <<disk, isClosed, terminal, worker, kpc>>
  BY DEF Blocked
<1>2. Enqueue(c) \/ (pc' = [pc EXCEPT ![c] = "closed"] /\ UNCHANGED <<channel, queued>>)
  BY DEF Blocked
<1>3. CASE Enqueue(c)
  BY <1>1, <1>3, CallerEnqueues
<1>4. CASE pc' = [pc EXCEPT ![c] = "closed"] /\ UNCHANGED <<channel, queued>>
  BY <1>1, <1>4, CallerSteps
<1> QED BY <1>2, <1>3, <1>4

\* Steps of the worker that leave the log, the files and the other goroutines
\* alone.
Elsewhere == UNCHANGED <<disk, isClosed, terminal, kpc, queued>>

\* The invariant from its parts, when the step acknowledges nothing.
LEMMA WorkerSteps ==
  ASSUME Inv, Elsewhere, TypeInv', Control', Sizes', Queue', Answers', Settled <= Settled',
         \A c \in Callers : pc'[c] = "ok" <=> pc[c] = "ok", draining => draining'
  PROVE  Inv'
<1>1. segments' = segments /\ terminal' = terminal /\ queued' = queued
  BY DEF Elsewhere, disk
<1>2. TypeInv
  BY DEF Inv
<1>3. Len(queued) \in Nat
  BY <1>2, Counts
<1>4. Settled' \in Int
  <2>1. Len(queued') \in Nat /\ Len(channel') \in Nat /\ Len(batch') \in Nat
    BY DEF TypeInv
  <2>2. Held' \in Int
    BY DEF Held
  <2> QED BY <2>1, <2>2 DEF Settled
<1>5. Log'
  BY <1>1, <1>3, <1>4, LogSame
<1> QED BY <1>5 DEF Inv

\* One ticket from the channel or the leftover starts a batch.
LEMMA WorkerStarts ==
  ASSUME Inv, Elsewhere, batch = <<>>, pc' = pc, draining' = draining, wpc' = "gather", ~terminal \/ draining,
         \/ leftover # NoOne /\ batch' = <<leftover>> /\ leftover' = NoOne /\ channel' = channel
         \/ leftover = NoOne /\ Receive /\ leftover' = leftover
  PROVE  Inv'
<1>1. TypeInv /\ Control /\ Sizes
  BY DEF Inv
<1>2. /\ segments' = segments /\ active' = active /\ size' = size /\ isClosed' = isClosed /\ terminal' = terminal
      /\ kpc' = kpc /\ queued' = queued /\ leftover' = NoOne
  BY DEF Elsewhere, disk
<1>3. /\ channel' \in Seq(Callers) /\ Len(channel') <= Len(channel)
      /\ batch' \in Seq(Callers) /\ Len(batch') = 1
  <2>1. channel \in Seq(Callers) /\ leftover \in Callers \cup {NoOne}
    BY <1>1 DEF TypeInv
  <2>2. CASE leftover # NoOne /\ batch' = <<leftover>> /\ channel' = channel
    BY <2>1, <2>2
  <2>3. CASE Receive
    <3>1. channel # <<>> /\ batch' = <<Head(channel)>> /\ channel' = Tail(channel)
      BY <2>3 DEF Receive
    <3>2. Head(channel) \in Callers /\ Tail(channel) \in Seq(Callers) /\ Len(Tail(channel)) = Len(channel) - 1
      BY <3>1, <2>1
    <3>3. Len(channel) \in Nat
      BY <2>1
    <3>4. batch' \in Seq(Callers) /\ Len(batch') = 1
      <4>1. PICK c \in Callers : c = Head(channel)
        BY <3>2
      <4>2. batch' = <<c>>
        BY <3>1, <4>1
      <4> QED BY <4>2
    <3>5. channel' \in Seq(Callers) /\ Len(channel') = Len(channel) - 1
      BY <3>1, <3>2
    <3> QED BY <3>3, <3>4, <3>5
  <2> QED BY <2>2, <2>3
<1>4. Len(channel') <= ChanCap
  <2>1. Len(channel) <= ChanCap /\ Len(channel) \in Nat /\ Len(channel') \in Nat /\ ChanCap \in Nat
    BY <1>1, <1>3, WalAssumption DEF TypeInv, WalAssumption
  <2> QED BY <2>1, <1>3
<1>5. TypeInv'
  BY <1>1, <1>2, <1>3, <1>4 DEF TypeInv
<1>6. Control'
  BY <1>2 DEF Control
<1>7. Sizes'
  BY <1>1, <1>2, <1>3 DEF Sizes
<1>8. Queue' /\ Answers' /\ Settled' = Settled
  BY <1>2, QueueLeftover, QueueReceive
<1>9. Settled <= Settled'
  BY <1>1, <1>8, Counts
<1> QED BY <1>5, <1>6, <1>7, <1>8, <1>9, WorkerSteps

\* The worker only changes its step.
LEMMA WorkerTurns ==
  ASSUME Inv, Elsewhere, batch' = batch, leftover' = leftover, channel' = channel, pc' = pc,
         draining' \in BOOLEAN, draining => draining', Control',
         wpc' \in {"top", "gather", "write", "drain", "fail", "exit"}
  PROVE  Inv'
<1>1. TypeInv /\ Sizes /\ Queue /\ Answers
  BY DEF Inv
<1>2. /\ segments' = segments /\ active' = active /\ size' = size /\ isClosed' = isClosed /\ terminal' = terminal
      /\ kpc' = kpc /\ queued' = queued
  BY DEF Elsewhere, disk
<1>3. TypeInv'
  BY <1>1, <1>2 DEF TypeInv
<1>4. Sizes' /\ Held' = Held
  BY <1>1, <1>2 DEF Sizes, Held
<1>5. Settled' = Settled
  BY <1>2, <1>4 DEF Settled
<1>6. Queue' /\ Answers'
  BY <1>1, <1>2, <1>4, <1>5 DEF Queue, Answers
<1>7. Settled <= Settled'
  BY <1>1, <1>5, Counts
<1> QED BY <1>3, <1>4, <1>6, <1>7, WorkerSteps

LEMMA InvWorkerNext == ASSUME Inv, WorkerNext PROVE Inv'
<1>1. Elsewhere /\ wpc = "top" /\ batch = <<>>
  BY DEF WorkerNext, Elsewhere, Inv, Control
<1>2. TypeInv /\ Control /\ Sizes
  BY DEF Inv
<1>3. CASE terminal /\ wpc' = "fail" /\ Answer(GivenUp, "error") /\ leftover' = NoOne /\ UNCHANGED <<batch, channel, draining>>
  <2>1. /\ segments' = segments /\ active' = active /\ size' = size /\ isClosed' = isClosed /\ terminal' = terminal
        /\ kpc' = kpc /\ queued' = queued /\ batch' = batch /\ channel' = channel /\ draining' = draining
    BY <1>1, <1>3 DEF Elsewhere, disk
  <2>2. Answer({leftover}, "error")
    BY <1>3 DEF GivenUp
  <2>3. \A c \in Callers : pc'[c] = IF c \in {leftover} THEN "error" ELSE pc[c]
    BY <2>2 DEF Answer
  <2>4. pc' \in [Callers -> {"idle", "blocked", "waiting", "ok", "error", "closed"}]
    BY <2>2, <1>2 DEF Answer, TypeInv
  <2>5. TypeInv'
    BY <2>1, <2>4, <1>2, <1>3 DEF TypeInv
  <2>6. Control'
    BY <2>1, <1>1, <1>3 DEF Control
  <2>7. Sizes'
    BY <2>1, <1>2, <1>3 DEF Sizes
  <2>8. Queue' /\ Answers' /\ Settled' = Settled + Held
    BY <2>1, <2>2, <1>1, <1>3, QueueGiveUp
  <2>9. \A c \in Callers : pc'[c] = "ok" <=> pc[c] = "ok"
    <3>1. leftover \in Callers => pc[leftover] = "waiting"
      BY PendingWait, WalAssumption DEF WalAssumption
    <3> QED BY <3>1, <2>3
  <2>10. Settled <= Settled'
    BY <2>8, <1>2, Counts
  <2> QED BY <2>1, <2>5, <2>6, <2>7, <2>8, <2>9, <2>10, <1>1, WorkerSteps
<1>4. CASE /\ ~terminal /\ LeftoverNext /\ batch' = <<leftover>> /\ leftover' = NoOne /\ wpc' = "gather"
           /\ UNCHANGED <<channel, pc, draining>>
  BY <1>1, <1>4, WorkerStarts DEF LeftoverNext
<1>5. CASE ~terminal /\ ~LeftoverNext /\ Receive /\ UNCHANGED <<leftover, pc, draining>>
  <2>1. leftover = NoOne /\ wpc' = "gather"
    BY <1>5 DEF LeftoverNext, Receive
  <2> QED BY <2>1, <1>1, <1>5, WorkerStarts
<1>6. CASE /\ ~terminal /\ ~LeftoverNext /\ SeesClose /\ draining' = TRUE /\ wpc' = "drain"
           /\ UNCHANGED <<batch, leftover, channel, pc>>
  <2>1. Control'
    <3>1. batch' = <<>> /\ wpc' = "drain" /\ draining'
      BY <1>1, <1>6
    <3> QED BY <3>1 DEF Control
  <2> QED BY <2>1, <1>1, <1>6, WorkerTurns
<1> QED BY <1>3, <1>4, <1>5, <1>6 DEF WorkerNext

LEMMA InvWorkerFails == ASSUME Inv, WorkerFails PROVE Inv'
<1>1. Elsewhere /\ wpc = "fail" /\ batch = <<>> /\ leftover = NoOne /\ batch' = batch /\ leftover' = leftover /\ draining' = draining
  BY DEF WorkerFails, Elsewhere, Inv, Control
<1>2. TypeInv /\ Control /\ Sizes
  BY DEF Inv
<1>3. CASE channel # <<>> /\ Answer({Head(channel)}, "error") /\ channel' = Tail(channel) /\ UNCHANGED wpc
  <2>1. /\ segments' = segments /\ active' = active /\ size' = size /\ isClosed' = isClosed /\ terminal' = terminal
        /\ kpc' = kpc /\ queued' = queued /\ wpc' = wpc
    BY <1>1, <1>3 DEF Elsewhere, disk
  <2>2. channel \in Seq(Callers) /\ Len(channel) <= ChanCap /\ Len(channel) \in Nat /\ ChanCap \in Nat
    BY <1>2, WalAssumption DEF TypeInv, WalAssumption
  <2>3. /\ channel' \in Seq(Callers) /\ Len(channel') = Len(channel) - 1
        /\ Head(channel) = channel[1] /\ 1 \in 1..Len(channel)
    BY <2>2, <1>3
  <2>4. Len(channel') <= ChanCap
    BY <2>2, <2>3
  <2>5. \A c \in Callers : pc'[c] = IF c \in {Head(channel)} THEN "error" ELSE pc[c]
    BY <1>3 DEF Answer
  <2>6. pc' \in [Callers -> {"idle", "blocked", "waiting", "ok", "error", "closed"}]
    BY <1>2, <1>3 DEF Answer, TypeInv
  <2>7. TypeInv'
    BY <2>1, <2>3, <2>4, <2>6, <1>1, <1>2 DEF TypeInv
  <2>8. Control' /\ Sizes'
    BY <2>1, <1>1, <1>2 DEF Control, Sizes
  <2>9. Queue' /\ Answers' /\ Settled' = Settled + 1
    BY <2>1, <1>1, <1>3, QueueRefuse
  <2>10. \A c \in Callers : pc'[c] = "ok" <=> pc[c] = "ok"
    <3>1. pc[Head(channel)] = "waiting"
      BY <2>3, PendingWait
    <3> QED BY <3>1, <2>5
  <2>11. Settled <= Settled'
    BY <2>9, <1>2, Counts
  <2> QED BY <2>7, <2>8, <2>9, <2>10, <2>11, <1>1, WorkerSteps
<1>4. CASE channel = <<>> /\ wpc' = "exit" /\ UNCHANGED <<channel, pc>>
  <2>1. draining' \in BOOLEAN /\ Control'
    <3>1. draining \in BOOLEAN
      BY <1>2 DEF TypeInv
    <3> QED BY <3>1, <1>1, <1>4 DEF Control
  <2> QED BY <2>1, <1>1, <1>4, WorkerTurns
<1> QED BY <1>3, <1>4 DEF WorkerFails

LEMMA InvWorkerDrains == ASSUME Inv, WorkerDrains PROVE Inv'
<1>1. Elsewhere /\ wpc = "drain" /\ batch = <<>> /\ pc' = pc /\ draining' = draining
  BY DEF WorkerDrains, Elsewhere, Inv, Control
<1>2. ~terminal \/ draining
  BY <1>1 DEF Inv, Control
<1>3. CASE leftover # NoOne /\ batch' = <<leftover>> /\ leftover' = NoOne /\ wpc' = "gather" /\ UNCHANGED channel
  BY <1>1, <1>2, <1>3, WorkerStarts
<1>4. CASE leftover = NoOne /\ Receive /\ UNCHANGED leftover
  <2>1. wpc' = "gather"
    BY <1>4 DEF Receive
  <2> QED BY <2>1, <1>1, <1>2, <1>4, WorkerStarts
<1>5. CASE leftover = NoOne /\ channel = <<>> /\ wpc' = "exit" /\ UNCHANGED <<batch, leftover, channel>>
  <2>1. draining' \in BOOLEAN
    BY <1>1 DEF Inv, TypeInv
  <2>2. Control'
    BY <1>1, <1>5 DEF Control
  <2> QED BY <2>1, <2>2, <1>1, <1>5, WorkerTurns
<1> QED BY <1>3, <1>4, <1>5 DEF WorkerDrains

LEMMA InvGatherBatch == ASSUME Inv, GatherBatch PROVE Inv'
<1>1. Elsewhere /\ wpc = "gather" /\ leftover = NoOne /\ pc' = pc /\ draining' = draining
  BY DEF GatherBatch, Elsewhere, Inv, Control
<1>2. TypeInv /\ Control /\ Sizes
  BY DEF Inv
<1>3. CASE /\ channel # <<>> /\ channel' = Tail(channel)
           /\ \/ /\ Fits(Len(batch) + 1) /\ batch' = Append(batch, Head(channel)) /\ UNCHANGED <<wpc, leftover>>
              \/ leftover' = Head(channel) /\ wpc' = "write" /\ UNCHANGED batch
  <2>1. /\ segments' = segments /\ active' = active /\ size' = size /\ isClosed' = isClosed /\ terminal' = terminal
        /\ kpc' = kpc /\ queued' = queued
    BY <1>1 DEF Elsewhere, disk
  <2>2. channel \in Seq(Callers) /\ batch \in Seq(Callers) /\ Len(channel) <= ChanCap /\ Len(channel) \in Nat /\ ChanCap \in Nat
    BY <1>2, WalAssumption DEF TypeInv, WalAssumption
  <2>3. channel' \in Seq(Callers) /\ Len(channel') = Len(channel) - 1 /\ Head(channel) \in Callers
    BY <2>2, <1>3
  <2>4. Len(channel') <= ChanCap
    BY <2>2, <2>3
  <2>5. batch' \in Seq(Callers) /\ leftover' \in Callers \cup {NoOne} /\ wpc' \in {"gather", "write"}
    <3>1. PICK c \in Callers : c = Head(channel)
      BY <2>3
    <3>2. Append(batch, c) \in Seq(Callers)
      BY <2>2
    <3> QED BY <2>2, <3>1, <3>2, <1>1, <1>3
  <2>6. TypeInv'
    BY <2>1, <2>3, <2>4, <2>5, <1>1, <1>2 DEF TypeInv
  <2>7. Control'
    BY <2>1, <1>1, <1>2, <1>3 DEF Control
  <2>8. Sizes'
    <3>1. Len(batch') <= 1 \/ Fits(Len(batch'))
      <4>1. CASE Fits(Len(batch) + 1) /\ batch' = Append(batch, Head(channel))
        <5>1. Len(batch') = Len(batch) + 1
          BY <4>1, <2>2
        <5> QED BY <5>1, <4>1
      <4>2. CASE batch' = batch
        BY <4>2, <1>2 DEF Sizes
      <4> QED BY <4>1, <4>2, <1>3
    <3>2. wpc' # "commit"
      BY <2>5
    <3>3. size' <= SegCap \/ size' <= BatchCap \/ size' <= Records
      BY <2>1, <1>2 DEF Sizes
    <3> QED BY <3>1, <3>2, <3>3 DEF Sizes, Fits
  <2>9. Queue' /\ Answers' /\ Settled' = Settled
    BY <2>1, <1>1, <1>3, QueueGather
  <2>10. Settled <= Settled'
    BY <2>9, <1>2, Counts
  <2> QED BY <2>6, <2>7, <2>8, <2>9, <2>10, <1>1, WorkerSteps
<1>4. CASE channel = <<>> /\ wpc' = "write" /\ UNCHANGED <<batch, leftover, channel>>
  <2>1. draining' \in BOOLEAN
    BY <1>1, <1>2 DEF TypeInv
  <2>2. Control'
    <3>1. terminal' = terminal /\ (terminal => draining)
      BY <1>1, <1>2 DEF Control, Elsewhere
    <3> QED BY <3>1, <1>1, <1>4 DEF Control
  <2> QED BY <2>1, <2>2, <1>1, <1>4, WorkerTurns
<1> QED BY <1>3, <1>4 DEF GatherBatch

\* A group commit is over, one way or the other: what does not depend on the log.
LEMMA CommitEnds ==
  ASSUME Inv, wpc \in {"write", "commit"}, NEW result \in {"ok", "error"}, Answer(Range(batch), result),
         batch' = <<>>, wpc' = NextStep, segments' \in Seq(Seq(Frames)), Len(segments') >= 1,
         active' \in BOOLEAN, size' \in Nat, size' <= SegCap \/ size' <= BatchCap \/ size' <= Records,
         terminal' \in BOOLEAN, UNCHANGED <<channel, isClosed, leftover, draining, kpc, queued>>
  PROVE  TypeInv' /\ Control' /\ Sizes' /\ Queue' /\ Answers' /\ Settled' \in Int /\ Settled <= Settled'
<1>1. TypeInv /\ Control /\ Sizes
  BY DEF Inv
<1>2. /\ channel' = channel /\ isClosed' = isClosed /\ leftover' = leftover /\ draining' = draining
      /\ kpc' = kpc /\ queued' = queued
  OBVIOUS
<1>3. pc' \in [Callers -> {"idle", "blocked", "waiting", "ok", "error", "closed"}]
  BY <1>1 DEF Answer, TypeInv
<1>4. (draining => wpc' = "drain") /\ (~draining => wpc' = "top")
  BY DEF NextStep
<1>5. TypeInv'
  <2>1. draining \in BOOLEAN
    BY <1>1 DEF TypeInv
  <2>2. wpc' \in {"drain", "top"}
    BY <1>4
  <2>3. batch' \in Seq(Callers)
    OBVIOUS
  <2> QED BY <2>1, <2>2, <2>3, <1>1, <1>2, <1>3 DEF TypeInv
<1>6. Control'
  BY <1>2, <1>4 DEF Control
<1>7. Sizes'
  <2>1. Len(batch') = 0
    OBVIOUS
  <2>2. wpc' # "commit"
    BY <1>4
  <2> QED BY <2>1, <2>2 DEF Sizes
<1>8. Queue' /\ Answers' /\ Settled' = Settled + Len(batch)
  BY QueueCommit
<1>9. Settled' \in Int /\ Settled <= Settled'
  BY <1>1, <1>8, Counts
<1> QED BY <1>5, <1>6, <1>7, <1>8, <1>9

\* A group commit that fails without writing.
LEMMA CommitRefused ==
  ASSUME Inv, wpc \in {"write", "commit"}, CommitFails, active' \in BOOLEAN,
         UNCHANGED <<segments, size, channel, isClosed, leftover, draining, kpc, queued>>
  PROVE  Inv'
<1>1. TypeInv /\ Sizes
  BY DEF Inv
<1>2. terminal' = TRUE /\ Answer(Range(batch), "error") /\ batch' = <<>> /\ wpc' = NextStep
  BY DEF CommitFails, MarkTerminalError
<1>3. segments' = segments /\ size' = size /\ queued' = queued /\ draining' = draining
  OBVIOUS
<1>4. /\ segments' \in Seq(Seq(Frames)) /\ Len(segments') >= 1 /\ size' \in Nat
      /\ size' <= SegCap \/ size' <= BatchCap \/ size' <= Records
  BY <1>1, <1>3 DEF TypeInv, Sizes
<1>5. terminal' \in BOOLEAN
  BY <1>2
<1>6. TypeInv' /\ Control' /\ Sizes' /\ Queue' /\ Answers' /\ Settled' \in Int /\ Settled <= Settled'
  BY <1>2, <1>4, <1>5, CommitEnds
<1>7. \A c \in Callers : pc'[c] = "ok" <=> pc[c] = "ok"
  <2>1. \A c \in Callers : pc'[c] = IF c \in Range(batch) THEN "error" ELSE pc[c]
    BY <1>2 DEF Answer
  <2>2. \A c \in Range(batch) : \E i \in 1..Len(batch) : c = batch[i]
    BY <1>1 DEF Range, TypeInv
  <2> QED BY <2>1, <2>2, PendingWait
<1>8. Len(queued) <= Len(queued') /\ \A i \in 1..Len(queued) : queued'[i] = queued[i]
  BY <1>1, <1>3, Counts
<1>9. (terminal => terminal') /\ (draining => draining')
  BY <1>2, <1>3
<1>10. Log'
  BY <1>3, <1>6, <1>7, <1>8, <1>9, LogSame
<1> QED BY <1>6, <1>10 DEF Inv

LEMMA InvRotate == ASSUME Inv, RotateActiveFile PROVE Inv'
<1>1. /\ wpc = "write" /\ channel' = channel /\ isClosed' = isClosed /\ leftover' = leftover
      /\ draining' = draining /\ kpc' = kpc /\ queued' = queued
  BY DEF RotateActiveFile
<1>2. TypeInv /\ Control /\ Sizes /\ Queue /\ Answers
  BY DEF Inv
<1>3. CASE /\ segments' = Append(segments, <<>>) /\ active' = TRUE /\ size' = 0
           /\ wpc' = "commit" /\ UNCHANGED <<terminal, pc, batch>>
  <2>1. segments' \in Seq(Seq(Frames)) /\ Len(segments') >= 1
    <3>1. segments \in Seq(Seq(Frames)) /\ Len(segments) \in Nat
      BY <1>2 DEF TypeInv
    <3>2. segments' \in Seq(Seq(Frames)) /\ Len(segments') = Len(segments) + 1
      BY <3>1, <1>3, PlacesAdded
    <3> QED BY <3>1, <3>2
  <2>2. size' \in Nat /\ active' \in BOOLEAN /\ terminal' = terminal /\ pc' = pc /\ batch' = batch
    BY <1>3
  <2>3. TypeInv'
    BY <2>1, <2>2, <1>1, <1>2, <1>3 DEF TypeInv
  <2>4. Control'
    BY <2>2, <1>1, <1>2, <1>3 DEF Control
  <2>5. Sizes'
    <3>1. 0 <= SegCap
      BY WalAssumption DEF WalAssumption
    <3> QED BY <3>1, <2>2, <1>2, <1>3 DEF Sizes
  <2>6. Held' = Held
    BY <1>1 DEF Held
  <2>7. Settled' = Settled
    BY <2>2, <2>6, <1>1 DEF Settled
  <2>8. Queue' /\ Answers'
    BY <2>2, <2>6, <2>7, <1>1, <1>2 DEF Queue, Answers
  <2>9. Settled' \in Int /\ Settled <= Settled' /\ Len(queued) <= Len(queued')
    BY <2>7, <1>1, <1>2, Counts
  <2>10. Log'
    BY <2>2, <2>3, <2>9, <1>1, <1>3, LogSame
  <2> QED BY <2>3, <2>4, <2>5, <2>8, <2>10 DEF Inv
<1>4. CASE active' \in {active, FALSE} /\ CommitFails /\ UNCHANGED <<segments, size>>
  <2>1. active' \in BOOLEAN
    BY <1>2, <1>4 DEF TypeInv
  <2> QED BY <2>1, <1>1, <1>4, CommitRefused
<1> QED BY <1>3, <1>4 DEF RotateActiveFile

LEMMA InvCommit == ASSUME Inv, Commit PROVE Inv'
<1>1. /\ wpc \in {"write", "commit"} /\ active' = active /\ channel' = channel /\ isClosed' = isClosed
      /\ leftover' = leftover /\ draining' = draining /\ kpc' = kpc /\ queued' = queued
  BY DEF Commit
<1>2. TypeInv /\ Control /\ Sizes
  BY DEF Inv
<1>3. PICK frames : frames = FramesOf(batch)
  OBVIOUS
<1>4. /\ frames \in Seq(Frames) /\ Len(frames) = Len(batch) * Records /\ Len(frames) \in Nat
      /\ \A k \in 1..Len(frames) : \E i \in 1..Len(batch), n \in 1..Records :
           frames[k] = [ticket |-> batch[i], record |-> n]
  <2>1. batch \in Seq(Callers)
    BY <1>2 DEF TypeInv
  <2>2. frames \in Seq(Frames) /\ Len(frames) = Len(batch) * Records
    BY <2>1, <1>3, FramesAre
  <2>3. \A k \in 1..Len(frames) : \E i \in 1..Len(batch), n \in 1..Records :
          frames[k] = [ticket |-> batch[i], record |-> n]
    <3>1. \A k \in 1..Len(FramesOf(batch)) : \E i \in 1..Len(batch), n \in 1..Records :
            FramesOf(batch)[k] = [ticket |-> batch[i], record |-> n]
      BY <2>1, FramesAre
    <3> QED BY <3>1, <1>3
  <2>4. Len(frames) \in Nat
    BY <2>2
  <2> QED BY <2>2, <2>3, <2>4
<1>5. CASE /\ segments' = Extend(frames) /\ size' = size + Len(frames)
           /\ Answer(Range(batch), "ok") /\ batch' = <<>> /\ wpc' = NextStep /\ UNCHANGED terminal
  <2>1. Log' /\ segments' \in Seq(Seq(Frames)) /\ Len(segments') = Len(segments)
    BY <1>1, <1>3, <1>5, LogCommitted
  <2>2. Len(segments') >= 1 /\ active' \in BOOLEAN /\ terminal' \in BOOLEAN
    BY <2>1, <1>1, <1>2, <1>5 DEF TypeInv
  <2>3. size \in Nat /\ Len(batch) \in Nat /\ Records \in Nat /\ BatchCap \in Nat /\ SegCap \in Nat
    BY <1>2, WalAssumption DEF TypeInv, WalAssumption
  <2>4. size' \in Nat
    BY <2>3, <1>4, <1>5
  <2>5. size' <= SegCap \/ size' <= BatchCap \/ size' <= Records
    <3>1. CASE wpc = "commit"
      <4>1. size' = Len(batch) * Records
        <5>1. size = 0
          BY <3>1, <1>2 DEF Sizes
        <5> QED BY <5>1, <1>4, <1>5
      <4>2. Len(batch) <= 1 \/ Len(batch) * Records <= BatchCap
        BY <1>2 DEF Sizes, Fits
      <4>3. CASE Len(batch) <= 1
        <5>1. Len(batch) * Records <= 1 * Records
          BY <4>3, <2>3
        <5> QED BY <5>1, <4>1, <2>3
      <4> QED BY <4>1, <4>2, <4>3
    <3>2. CASE wpc # "commit"
      <4>1. ~NeedsRotation
        BY <3>2 DEF Commit
      <4>2. size + Len(batch) * Records <= SegCap
        BY <4>1, <2>3, <1>4 DEF NeedsRotation
      <4> QED BY <4>2, <1>4, <1>5
    <3> QED BY <3>1, <3>2
  <2>6. TypeInv' /\ Control' /\ Sizes' /\ Queue' /\ Answers'
    BY <2>1, <2>2, <2>4, <2>5, <1>1, <1>5, CommitEnds
  <2> QED BY <2>1, <2>6 DEF Inv
<1>6. CASE /\ CommitFails /\ UNCHANGED size
           /\ \E n \in 0..Len(frames), tail \in {<<>>, <<Torn>>} :
                segments' = Extend(SubSeq(frames, 1, n) \o (IF n < Len(frames) THEN tail ELSE <<>>))
  <2>1. PICK n \in 0..Len(frames), tail \in {<<>>, <<Torn>>} :
          segments' = Extend(SubSeq(frames, 1, n) \o tail)
    BY <1>6
  <2>2. PICK x : x = SubSeq(frames, 1, n) \o tail
    OBVIOUS
  <2>3. /\ x \in Seq(Frames)
        /\ \A k \in 1..Len(x) : x[k] = Torn \/ \E i \in 1..Len(batch), r \in 1..Records :
             x[k] = [ticket |-> batch[i], record |-> r]
    <3>1. PICK w : w = SubSeq(frames, 1, n)
      OBVIOUS
    <3>2. w \in Seq(Frames) /\ Len(w) = n /\ n \in Nat /\ \A k \in 1..n : w[k] = frames[k] /\ k \in 1..Len(frames)
      BY <3>1, <1>4
    <3>3. tail \in Seq(Frames) /\ Len(tail) \in 0..1 /\ \A k \in 1..Len(tail) : tail[k] = Torn
      <4>1. CASE tail = <<>>
        BY <4>1
      <4>2. CASE tail = <<Torn>>
        <5>1. Torn \in Frames
          BY DEF Frames
        <5> QED BY <4>2, <5>1
      <4> QED BY <4>1, <4>2
    <3>4. x = w \o tail
      BY <2>2, <3>1
    <3>5. x \in Seq(Frames) /\ Len(x) = n + Len(tail)
      BY <3>2, <3>3, <3>4
    <3>6. (\A k \in 1..n : x[k] = w[k]) /\ \A k \in 1..Len(tail) : x[n + k] = tail[k]
      BY <3>2, <3>3, <3>4
    <3>7. ASSUME NEW k \in 1..Len(x)
          PROVE  x[k] = Torn \/ \E i \in 1..Len(batch), r \in 1..Records : x[k] = [ticket |-> batch[i], record |-> r]
      <4>1. CASE k \in 1..n
        BY <4>1, <3>2, <3>6, <1>4
      <4>2. CASE k > n
        <5>1. k - n \in 1..Len(tail) /\ k = n + (k - n)
          BY <4>2, <3>2, <3>3, <3>5
        <5> QED BY <5>1, <3>3, <3>6
      <4> QED BY <4>1, <4>2, <3>2, <3>5
    <3> QED BY <3>5, <3>7
  <2>4. segments' = Extend(x)
    BY <2>1, <2>2
  <2>5. terminal' = TRUE /\ Answer(Range(batch), "error") /\ batch' = <<>> /\ wpc' = NextStep /\ size' = size
    BY <1>6 DEF CommitFails, MarkTerminalError
  <2>6. segments' \in Seq(Seq(Frames)) /\ Len(segments') = Len(segments)
    <3>1. segments \in Seq(Seq(Frames)) /\ Len(segments) >= 1
      BY <1>2 DEF TypeInv
    <3>2. segments' = [segments EXCEPT ![Len(segments)] = @ \o x]
      BY <2>4 DEF Extend
    <3>3. Grown(segments, x, segments')
      BY <2>3, <3>1, <3>2, PlacesExtended
    <3> QED BY <3>3 DEF Grown
  <2>7. /\ Len(segments') >= 1 /\ active' \in BOOLEAN /\ terminal' \in BOOLEAN /\ size' \in Nat
        /\ size' <= SegCap \/ size' <= BatchCap \/ size' <= Records
    BY <2>5, <2>6, <1>1, <1>2 DEF TypeInv, Sizes
  <2>8. TypeInv' /\ Control' /\ Sizes' /\ Queue' /\ Answers'
    BY <2>5, <2>6, <2>7, <1>1, CommitEnds
  <2>9. Log'
    BY <2>3, <2>4, <2>5, <2>8, <1>1, LogFailed
  <2> QED BY <2>8, <2>9 DEF Inv
<1>7. CASE CommitFails /\ UNCHANGED <<segments, size>>
  <2>1. active' \in BOOLEAN
    BY <1>1, <1>2 DEF TypeInv
  <2> QED BY <2>1, <1>1, <1>7, CommitRefused
<1> QED BY <1>3, <1>5, <1>6, <1>7 DEF Commit

\* Close touches only its own step and the flag; a stuttering step nothing.
LEMMA InvClose ==
  ASSUME Inv, UNCHANGED <<disk, channel, terminal, pc, worker, queued>>,
         isClosed' \in BOOLEAN, kpc' \in {"none", "join", "done"}
  PROVE  Inv'
<1>1. TypeInv /\ Control /\ Sizes /\ Queue /\ Answers
  BY DEF Inv
<1>2. /\ segments' = segments /\ active' = active /\ size' = size /\ channel' = channel /\ terminal' = terminal
      /\ wpc' = wpc /\ batch' = batch /\ leftover' = leftover /\ draining' = draining /\ pc' = pc
      /\ queued' = queued
  BY DEF disk, worker
<1>3. TypeInv'
  BY <1>1, <1>2 DEF TypeInv
<1>4. Control' /\ Sizes' /\ Held' = Held
  BY <1>1, <1>2 DEF Control, Sizes, Held
<1>5. Settled' = Settled
  BY <1>2, <1>4 DEF Settled
<1>6. Queue' /\ Answers'
  BY <1>1, <1>2, <1>4, <1>5 DEF Queue, Answers
<1>7. Settled' \in Int /\ Settled <= Settled' /\ Len(queued) <= Len(queued')
  BY <1>1, <1>2, <1>5, Counts
<1>8. Log'
  BY <1>2, <1>3, <1>7, LogSame
<1> QED BY <1>3, <1>4, <1>6, <1>8 DEF Inv

LEMMA InvNext == Inv /\ [Next]_vars => Inv'
<1> SUFFICES ASSUME Inv, [Next]_vars PROVE Inv'
  OBVIOUS
<1>1. ASSUME NEW c \in Callers, AppendBatch(c) \/ Blocked(c) PROVE Inv'
  BY <1>1, InvAppendBatch, InvBlocked
<1>2. CASE BatchWorker
  BY <1>2, InvWorkerNext, InvWorkerFails, InvWorkerDrains, InvGatherBatch, InvRotate, InvCommit DEF BatchWorker
<1>3. isClosed \in BOOLEAN /\ kpc \in {"none", "join", "done"}
  BY DEF Inv, TypeInv
<1>4. CASE CloseStart
  <2>1. UNCHANGED <<disk, channel, terminal, pc, worker, queued>> /\ isClosed' \in BOOLEAN /\ kpc' = "join"
    BY <1>4 DEF CloseStart
  <2> QED BY <2>1, InvClose
<1>5. CASE CloseFinish
  <2>1. UNCHANGED <<disk, channel, terminal, pc, worker, queued>> /\ isClosed' = isClosed /\ kpc' = "done"
    BY <1>5 DEF CloseFinish
  <2> QED BY <2>1, <1>3, InvClose
<1>6. CASE UNCHANGED vars
  <2>1. UNCHANGED <<disk, channel, terminal, pc, worker, queued>> /\ isClosed' = isClosed /\ kpc' = kpc
    BY <1>6 DEF vars, disk, worker
  <2> QED BY <2>1, <1>3, InvClose
<1> QED BY <1>1, <1>2, <1>4, <1>5, <1>6 DEF Next

LEMMA InvHolds == Spec => []Inv
BY InvInit, InvNext, PTL DEF Spec

------------------------------------------------------------------------------
(* The theorems *)

\* Types are kept, whatever fails: the group commit of writeAndSyncBatch stays within
\* BatchSizeBytes unless it is a single call, a segment within SegmentSizeBytes
\* unless it is a single group commit, the channel within its capacity.
THEOREM TypeCorrect == Spec => []TypeOK
<1>1. Inv => TypeOK
  <2> SUFFICES ASSUME Inv PROVE TypeOK
    OBVIOUS
  <2>1. TypeInv /\ Sizes
    BY DEF Inv
  <2>2. \A j \in DOMAIN segments : Range(segments[j]) \subseteq Frames
    BY <2>1 DEF TypeInv, Range
  <2>3. Range(channel) \subseteq Callers /\ Range(batch) \subseteq Callers /\ Range(queued) \subseteq Callers
    BY <2>1 DEF TypeInv, Range
  <2>4. size \in 0..Max({SegCap, BatchCap, Records})
    <3>1. SegCap \in Nat /\ BatchCap \in Nat /\ Records \in Nat /\ size \in Nat
      BY <2>1, WalAssumption DEF TypeInv, WalAssumption
    <3>2. PICK m \in {SegCap, BatchCap, Records} : \A y \in {SegCap, BatchCap, Records} : m >= y
      <4>1. CASE SegCap >= BatchCap /\ SegCap >= Records
        BY <4>1, <3>1
      <4>2. CASE BatchCap >= SegCap /\ BatchCap >= Records
        BY <4>2, <3>1
      <4>3. CASE Records >= SegCap /\ Records >= BatchCap
        BY <4>3, <3>1
      <4> QED BY <4>1, <4>2, <4>3, <3>1
    <3>3. PICK z : z = Max({SegCap, BatchCap, Records})
      OBVIOUS
    <3>4. z \in {SegCap, BatchCap, Records} /\ \A y \in {SegCap, BatchCap, Records} : z >= y
      BY <3>2, <3>3, Zenon DEF Max
    <3>5. z \in Nat /\ z >= SegCap /\ z >= BatchCap /\ z >= Records
      BY <3>1, <3>4
    <3>6. size <= z
      BY <2>1, <3>1, <3>5 DEF Sizes
    <3> QED BY <3>1, <3>3, <3>5, <3>6
  <2> QED BY <2>1, <2>2, <2>3, <2>4 DEF TypeInv, TypeOK
<1> QED BY <1>1, InvHolds, PTL

\* AppendBatch is durable and in order: what it has acknowledged, a recovery replays,
\* record by record, each once and in the order of the queue, through group commits,
\* leftover tickets, rotations and failures, up to the drain of a broken log.
THEOREM AcknowledgedSurvive == Spec => []CommitOrder
<1>1. Inv => CommitOrder
  <2> SUFFICES ASSUME Inv, ~DrainsBroken
               PROVE  LET acked == {p \in Replayed : pc[FrameAt(p).ticket] = "ok"}
                      IN  /\ \A c \in Callers, n \in 1..Records :
                               pc[c] = "ok" => \E p \in acked : FrameAt(p) = [ticket |-> c, record |-> n]
                          /\ \A p, q \in acked : ReadBefore(p, q) => Precedes(FrameAt(p), FrameAt(q))
    BY DEF CommitOrder
  <2> DEFINE acked == {p \in Replayed : pc[FrameAt(p).ticket] = "ok"}
  <2>1. Durable /\ Ordered
    BY DEF Inv, Log
  <2>2. ASSUME NEW c \in Callers, NEW n \in 1..Records, pc[c] = "ok"
        PROVE  \E p \in acked : FrameAt(p) = [ticket |-> c, record |-> n]
    <3>1. PICK p \in Replayed : FrameAt(p) = [ticket |-> c, record |-> n]
      BY <2>1, <2>2 DEF Durable
    <3>2. p \in acked
      BY <3>1, <2>2
    <3> QED BY <3>1, <3>2
  <2>3. ASSUME NEW p \in acked, NEW q \in acked, ReadBefore(p, q) PROVE Precedes(FrameAt(p), FrameAt(q))
    BY <2>1, <2>3 DEF Ordered
  <2> QED BY <2>2, <2>3
<1> QED BY <1>1, InvHolds, PTL
==============================================================================
