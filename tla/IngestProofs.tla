---------------------------- MODULE IngestProofs ----------------------------
(***************************************************************************)
(* Proofs about Ingest, for any calls, payloads and chunk size: the ids    *)
(* computed for a chunk are those of its rows, every request refers to the *)
(* content of its own message, and a call is stored whole or not at all.   *)
(***************************************************************************)
EXTENDS Ingest, TLAPS

-----------------------------------------------------------------------------
(* The strengthening.                                                      *)

(* The rows of t that c is inserting follow the committed ones, in order,  *)
(* and the ids known so far are theirs.                                    *)
Filling(c, t) ==
    /\ c \in locked <=> done[c] + fresh[c] > 0
    /\ Total(c, t) > 0 /\ done[c] + fresh[c] <= Total(c, t)
    /\ c \in locked => size[t] = committed[t] + done[c] + fresh[c]
    /\ fresh[c] > 0 => lastId[c] = size[t]
    /\ DOMAIN ids[c][t] = 1 .. done[c]
    /\ \A i \in 1 .. done[c] : ids[c][t][i] = Narrow(committed[t] + i)
    /\ \A i \in 1 .. done[c] + fresh[c] : table[t][committed[t] + i] = Row(c, t, i)

(* The rows of t that c has stored are there for good.                     *)
Placed(c, t) ==
    /\ DOMAIN ids[c][t] = 1 .. Total(c, t)
    /\ \A i \in 1 .. Total(c, t) : \E n \in 1 .. committed[t] :
          ids[c][t][i] = Narrow(n) /\ table[t][n] = Row(c, t, i)

\* The calls that got past storing their contents.
PastContents == Saved \cup {"requests", "ok", "400", "gone"}

CallInv(c) ==
    /\ pc[c] = "ok" => success[c] >= 0
    /\ pc[c] = "requestsSaved" => success[c] > 0
    /\ pc[c] \in {"new", "contentsSaved", "400", "500"} \cup Tables => success[c] = -1
    /\ pc[c] = "new" => done[c] = 0 /\ fresh[c] = 0 /\ DOMAIN ids[c]["contents"] = 1 .. 0
    /\ pc[c] = "contentsSaved" => fresh[c] = 0
    /\ pc[c] \in {"new", "contents", "contentsSaved"} => DOMAIN ids[c]["requests"] = 1 .. 0
    /\ \A t \in Tables : pc[c] = t => Filling(c, t)
    /\ pc[c] \in {"contentsSaved", "requests"} \/ success[c] > 0 => Placed(c, "contents")
    /\ success[c] > 0 => Placed(c, "requests") /\ Total(c, "requests") > 0

(* One writer at a time, and what is not being written is committed.       *)
LockInv ==
    /\ \A c, d \in locked : c = d
    /\ \A c \in locked : pc[c] \in Tables
    /\ \A t \in Tables : committed[t] <= size[t]
    /\ \A t \in Tables : (\A c \in locked : pc[c] # t) => size[t] = committed[t]

(* Stored requests are of calls that succeeded, no two the same; ...       *)
RequestsOwned ==
    /\ \A n \in 1 .. committed["requests"] : \E c \in Calls :
          /\ success[c] > 0
          /\ \E i \in 1 .. Total(c, "requests") : table["requests"][n] = Row(c, "requests", i)
    /\ \A m, n \in 1 .. committed["requests"] :
          /\ table["requests"][m].call = table["requests"][n].call
          /\ table["requests"][m].pos = table["requests"][n].pos
          => m = n

(* ... stored contents are of calls that got past storing them.            *)
ContentsOwned ==
    \A n \in 1 .. committed["contents"] : \E c \in Calls :
       /\ pc[c] \in PastContents
       /\ \E i \in 1 .. Total(c, "contents") :
             /\ table["contents"][n] = Row(c, "contents", i)
             /\ ids[c]["contents"][i] = Narrow(n)

IInv ==
    /\ TypeOK /\ LockInv /\ RequestsOwned /\ ContentsOwned
    /\ \A c \in Calls : CallInv(c)

-----------------------------------------------------------------------------
(* Ids that fit are not changed by the cut to 32 bits.                     *)
LEMMA Narrowed == ASSUME NEW n \in 1 .. MaxId PROVE Narrow(n) = n
<1>. DEFINE K == 2 * (MaxId + 1)
            a == n + MaxId + 1
<1>1. K \in Nat \ {0} /\ a \in 0 .. K - 1 /\ a = n + MaxId + 1 /\ MaxId \in Nat
  BY IngestAssumption
<1>2. a % K = a
  <2>. HIDE DEF K, a
  <2>. QED BY <1>1
<1>3. Narrow(n) = (a % K) - (MaxId + 1)
  BY DEF Narrow
<1>. HIDE DEF K, a
<1>. QED BY <1>1, <1>2, <1>3

LEMMA Totals ==
    ASSUME NEW c \in Calls
    PROVE  /\ Total(c, "contents") \in Nat /\ Total(c, "requests") \in Nat
           /\ Total(c, "contents") = Messages[c]
           /\ \A i \in 1 .. Total(c, "requests") :
                 Recipients[c][i] \in 1 .. Total(c, "contents")
BY PayloadAssumption DEF Total

LEMMA RowParts ==
    ASSUME NEW c, NEW t, NEW i
    PROVE  /\ Row(c, t, i).call = c /\ Row(c, t, i).pos = i
           /\ Row(c, "contents", i) = [call |-> c, pos |-> i, content |-> 0]
           /\ Row(c, "requests", i).content = ids[c]["contents"][Recipients[c][i]]
BY DEF Row, ContentOf

LEMMA RowKept ==
    ASSUME NEW c, NEW t, ids'[c]["contents"] = ids[c]["contents"] \/ t = "contents", NEW i
    PROVE  Row(c, t, i)' = Row(c, t, i)
BY DEF Row, ContentOf

LEMMA InitIInv == Init => IInv
<1>. SUFFICES ASSUME Init PROVE IInv
  OBVIOUS
<1>1. TypeOK
  BY DEF Init, TypeOK, NoIds, Ended, Answered
<1>2. LockInv /\ RequestsOwned /\ ContentsOwned
  BY DEF Init, LockInv, RequestsOwned, ContentsOwned, Tables
<1>3. ASSUME NEW c \in Calls PROVE CallInv(c)
  BY DEF Init, CallInv, NoIds, Tables
<1>. QED BY <1>1, <1>2, <1>3 DEF IInv

-----------------------------------------------------------------------------
(* What a step of one call leaves alone.                                   *)
CommittedKept ==
    \A t \in Tables : /\ committed[t] <= committed'[t] /\ committed'[t] \in Nat
                      /\ \A n \in 1 .. committed[t] : table'[t][n] = table[t][n]

SameCall(x) == UNCHANGED <<pc[x], done[x], fresh[x], lastId[x], ids[x], success[x]>>

LEMMA PlacedKept ==
    ASSUME IInv, CommittedKept, NEW x \in Calls, ids'[x] = ids[x], NEW t \in Tables,
           Placed(x, t)
    PROVE  Placed(x, t)'
<1>1. \A i : Row(x, t, i)' = Row(x, t, i)
  BY RowKept
<1>2. committed[t] \in Nat /\ committed'[t] \in Nat /\ committed[t] <= committed'[t]
  BY DEF IInv, TypeOK, CommittedKept
<1>3. \A n \in 1 .. committed[t] : n \in 1 .. committed'[t] /\ table'[t][n] = table[t][n]
  BY <1>2 DEF CommittedKept
<1>4. Total(x, t)' = Total(x, t)
  BY DEF Total
<1>. QED BY <1>1, <1>3, <1>4 DEF Placed

(* A call that does not step, and does not hold the lock while others      *)
(* write, keeps its invariant.                                             *)
LEMMA OtherCall ==
    ASSUME IInv, CommittedKept, NEW x \in Calls, SameCall(x),
           UNCHANGED dbVars \/ (x \notin locked /\ x \notin locked')
    PROVE  CallInv(x)'
<1>1. CallInv(x) /\ done[x] \in Nat /\ fresh[x] \in Nat
  BY DEF IInv, TypeOK
<1>2. ASSUME NEW t \in Tables, pc[x] = t PROVE Filling(x, t)'
  <2>1. Filling(x, t)
    BY <1>1, <1>2 DEF CallInv
  <2>2. \A i : Row(x, t, i)' = Row(x, t, i)
    BY RowKept DEF SameCall
  <2>3. Total(x, t)' = Total(x, t)
    BY DEF Total
  <2>4. CASE UNCHANGED dbVars
    BY <2>1, <2>2, <2>3, <2>4 DEF SameCall, Filling, dbVars
  <2>5. CASE x \notin locked /\ x \notin locked'
    <3>1. done[x] = 0 /\ fresh[x] = 0
      BY <1>1, <2>1, <2>5 DEF Filling
    <3>. QED BY <2>1, <2>3, <2>5, <3>1 DEF SameCall, Filling
  <2>. QED BY <2>4, <2>5
<1>3. ASSUME NEW t \in Tables, Placed(x, t) PROVE Placed(x, t)'
  BY <1>3, PlacedKept DEF SameCall
<1>4. "contents" \in Tables /\ "requests" \in Tables
  BY DEF Tables
<1>5. Total(x, "requests")' = Total(x, "requests")
  BY DEF Total
<1>. QED BY <1>1, <1>2, <1>3, <1>4, <1>5 DEF SameCall, CallInv

(* What is stored stays owned while a call steps without committing.       *)
LEMMA OwnedKept ==
    ASSUME IInv, CommittedKept, NEW c \in Calls,
           success[c] > 0 => success'[c] > 0 /\ UNCHANGED ids[c],
           \A x \in Calls : x # c => SameCall(x)
    PROVE  /\ UNCHANGED committed["requests"] => RequestsOwned'
           /\ /\ UNCHANGED committed["contents"]
              /\ pc[c] \in PastContents => pc'[c] \in PastContents
                                           /\ UNCHANGED ids[c]["contents"]
              => ContentsOwned'
<1>1. "contents" \in Tables /\ "requests" \in Tables
  BY DEF Tables
<1>3. ASSUME UNCHANGED committed["requests"] PROVE RequestsOwned'
  <2>1. \A n \in 1 .. committed["requests"] : table'["requests"][n] = table["requests"][n]
    BY <1>1 DEF CommittedKept
  <2>2. ASSUME NEW n \in 1 .. committed["requests"]
        PROVE  \E x \in Calls :
                  /\ success'[x] > 0
                  /\ \E i \in 1 .. Total(x, "requests") :
                        table'["requests"][n] = Row(x, "requests", i)'
    <3>. PICK x \in Calls :
            /\ success[x] > 0
            /\ \E i \in 1 .. Total(x, "requests") : table["requests"][n] = Row(x, "requests", i)
      BY DEF IInv, RequestsOwned
    <3>1. PICK i \in 1 .. Total(x, "requests") :
             success[x] > 0 /\ table["requests"][n] = Row(x, "requests", i)
      OBVIOUS
    <3>2. success'[x] > 0 /\ ids'[x] = ids[x]
      BY <3>1 DEF SameCall
    <3>3. Row(x, "requests", i)' = Row(x, "requests", i)
      BY <3>2, RowKept
    <3>. QED BY <2>1, <3>1, <3>2, <3>3
  <2>3. \A x : Total(x, "requests")' = Total(x, "requests")
    BY DEF Total
  <2>. QED BY <1>3, <2>1, <2>2, <2>3 DEF IInv, RequestsOwned
<1>4. ASSUME UNCHANGED committed["contents"],
             pc[c] \in PastContents => pc'[c] \in PastContents /\ UNCHANGED ids[c]["contents"]
      PROVE  ContentsOwned'
  <2>1. \A n \in 1 .. committed["contents"] : table'["contents"][n] = table["contents"][n]
    BY <1>1 DEF CommittedKept
  <2>2. ASSUME NEW n \in 1 .. committed["contents"]
        PROVE  \E x \in Calls :
                  /\ pc'[x] \in PastContents
                  /\ \E i \in 1 .. Total(x, "contents") :
                        /\ table'["contents"][n] = Row(x, "contents", i)'
                        /\ ids'[x]["contents"][i] = Narrow(n)
    <3>. PICK x \in Calls :
            /\ pc[x] \in PastContents
            /\ \E i \in 1 .. Total(x, "contents") :
                  /\ table["contents"][n] = Row(x, "contents", i)
                  /\ ids[x]["contents"][i] = Narrow(n)
      BY DEF IInv, ContentsOwned
    <3>1. PICK i \in 1 .. Total(x, "contents") :
             /\ pc[x] \in PastContents
             /\ table["contents"][n] = Row(x, "contents", i)
             /\ ids[x]["contents"][i] = Narrow(n)
      OBVIOUS
    <3>2. /\ pc'[x] \in PastContents
          /\ ids'[x]["contents"] = ids[x]["contents"]
      BY <1>4, <3>1 DEF SameCall
    <3>3. Row(x, "contents", i)' = Row(x, "contents", i)
      BY <3>2, RowKept
    <3>. QED BY <2>1, <3>1, <3>2, <3>3
  <2>3. \A x : Total(x, "contents")' = Total(x, "contents")
    BY DEF Total
  <2>. QED BY <1>4, <2>1, <2>2, <2>3 DEF ContentsOwned
<1>. QED BY <1>3, <1>4

-----------------------------------------------------------------------------
(* The call of c when nothing that it has stored changes.                  *)
LEMMA OwnCall ==
    ASSUME IInv, CommittedKept, NEW c \in Calls, NEW t \in Tables, pc[c] = t,
           UNCHANGED <<pc, success>>, Filling(c, t)',
           t = "requests" => UNCHANGED ids[c]["contents"],
           t = "contents" => UNCHANGED ids[c]["requests"]
    PROVE  CallInv(c)'
<1>1. CallInv(c) /\ "contents" \in Tables
  BY DEF IInv, Tables
<1>2. success[c] = -1 /\ pc[c] \in Tables
  BY <1>1 DEF CallInv
<1>3. t = "requests" => Placed(c, "contents")'
  <2>1. ASSUME t = "requests" PROVE Placed(c, "contents")
    BY <1>1, <2>1 DEF CallInv
  <2>2. committed["contents"] \in Nat
    BY <1>1 DEF IInv, TypeOK
  <2>3. ASSUME t = "requests" PROVE Placed(c, "contents")'
    <3>1. \A i : Row(c, "contents", i)' = Row(c, "contents", i)
      BY RowKept
    <3>2. \A n \in 1 .. committed["contents"] :
             n \in 1 .. committed'["contents"] /\ table'["contents"][n] = table["contents"][n]
      BY <1>1, <2>2 DEF CommittedKept
    <3>3. Total(c, "contents")' = Total(c, "contents")
      BY DEF Total
    <3>. QED BY <2>1, <2>3, <3>1, <3>2, <3>3 DEF Placed
  <2>. QED BY <2>3
<1>4. success'[c] = -1 /\ ~(success'[c] > 0) /\ pc'[c] = t
  BY <1>2
<1>. QED BY <1>1, <1>2, <1>3, <1>4 DEF CallInv, Tables

LEMMA InsertKeeps ==
    ASSUME IInv, NEW c \in Calls, NEW t \in Tables, NEW k \in 1 .. ChunkSize,
           InsertChunk(c, t, k)
    PROVE  IInv'
<1>1. /\ pc[c] = t /\ fresh[c] = 0 /\ done[c] < Total(c, t) /\ locked \subseteq {c}
      /\ k <= Total(c, t) - done[c]
  <2>1. Total(c, t) \in Nat /\ done[c] \in Nat /\ ChunkSize \in Nat
    BY Totals, IngestAssumption DEF Tables, IInv, TypeOK
  <2>. QED BY <2>1 DEF InsertChunk
<1>2. /\ k \in Nat \ {0} /\ done[c] \in Nat /\ size[t] \in Nat /\ committed[t] \in Nat
      /\ Total(c, t) \in Nat
  BY Totals, IngestAssumption DEF Tables, IInv, TypeOK
<1>3. Filling(c, t)
  BY <1>1 DEF IInv, CallInv
<1>4. size[t] = committed[t] + done[c] /\ \A t2 \in Tables \ {t} : size[t2] = committed[t2]
  BY <1>1, <1>2, <1>3 DEF Filling, IInv, LockInv
<1>5. /\ locked' = {c} /\ size' = [size EXCEPT ![t] = @ + k]
      /\ fresh' = [fresh EXCEPT ![c] = k] /\ lastId' = [lastId EXCEPT ![c] = size[t] + k]
      /\ UNCHANGED <<committed, pc, done, ids, success>>
      /\ \A t2 \in Tables \ {t} : table'[t2] = table[t2]
      /\ DOMAIN table' = Tables /\ DOMAIN table'[t] = 1 .. size[t] + k
      /\ \A n \in 1 .. size[t] + k :
            table'[t][n] = IF n <= size[t] THEN table[t][n] ELSE Row(c, t, done[c] + n - size[t])
  BY DEF InsertChunk, IInv, TypeOK
<1>6. TypeOK'
  <2>1. TypeOK /\ size[t] + k \in Nat
    BY <1>2 DEF IInv
  <2>2. size' \in [Tables -> Nat] /\ fresh' \in [Calls -> Nat] /\ lastId' \in [Calls -> Nat]
    BY <1>2, <1>5, <2>1 DEF TypeOK
  <2>3. \A t2 \in Tables : DOMAIN table'[t2] = 1 .. size'[t2]
    <3>1. size'[t] = size[t] + k /\ \A t2 \in Tables \ {t} : size'[t2] = size[t2]
      BY <1>5, <2>1 DEF TypeOK
    <3>. QED BY <1>5, <2>1, <3>1 DEF TypeOK
  <2>4. /\ DOMAIN table' = Tables /\ locked' \in SUBSET Calls
        /\ UNCHANGED <<committed, pc, done, ids, success>>
    BY <1>5
  <2>. QED BY <2>1, <2>2, <2>3, <2>4 DEF TypeOK
<1>7. CommittedKept
  <2>1. UNCHANGED committed /\ \A t2 \in Tables : committed[t2] \in Nat
    BY <1>5 DEF IInv, TypeOK
  <2>2. \A n \in 1 .. committed[t] : table'[t][n] = table[t][n]
    BY <1>2, <1>4, <1>5
  <2>3. \A t2 \in Tables \ {t} : table'[t2] = table[t2]
    BY <1>5
  <2>. QED BY <2>1, <2>2, <2>3 DEF CommittedKept
<1>8. LockInv'
  <2>1. /\ locked' = {c} /\ pc'[c] = t /\ UNCHANGED committed
        /\ size'[t] = size[t] + k /\ \A t2 \in Tables \ {t} : size'[t2] = size[t2]
    BY <1>1, <1>5 DEF IInv, TypeOK
  <2>2. committed[t] <= size'[t] /\ \A t2 \in Tables : committed[t2] \in Nat
    BY <1>2, <1>4, <2>1 DEF IInv, TypeOK
  <2>. QED BY <1>4, <2>1, <2>2 DEF LockInv
<1>9. CallInv(c)'
  <2>1. \A i : Row(c, t, i)' = Row(c, t, i)
    BY <1>5, RowKept
  <2>2. \A i \in 1 .. done[c] + k : table'[t][committed[t] + i] = Row(c, t, i)
    <3>1. ASSUME NEW i \in 1 .. done[c] PROVE table'[t][committed[t] + i] = Row(c, t, i)
      <4>1. table[t][committed[t] + i] = Row(c, t, i)
        BY <1>1, <1>2, <1>3 DEF Filling
      <4>. QED BY <1>2, <1>4, <1>5, <4>1
    <3>2. ASSUME NEW i \in (done[c] + 1) .. (done[c] + k)
          PROVE  table'[t][committed[t] + i] = Row(c, t, i)
      <4>1. done[c] + (committed[t] + i) - size[t] = i
        BY <1>2, <1>4
      <4>2. committed[t] + i \in 1 .. size[t] + k /\ ~(committed[t] + i <= size[t])
        BY <1>2, <1>4
      <4>. QED BY <1>5, <4>1, <4>2
    <3>. QED BY <1>2, <3>1, <3>2
  <2>3. done'[c] = done[c] /\ fresh'[c] = k /\ lastId'[c] = size'[t] /\ size'[t] = size[t] + k
    BY <1>5 DEF IInv, TypeOK
  <2>4. Total(c, t)' = Total(c, t)
    BY DEF Total
  <2>5. Filling(c, t)'
    BY <1>1, <1>2, <1>3, <1>4, <1>5, <2>1, <2>2, <2>3, <2>4 DEF Filling
  <2>. QED BY <1>1, <1>5, <1>7, <2>5, OwnCall
<1>10. ASSUME NEW x \in Calls, x # c PROVE CallInv(x)' /\ SameCall(x)
  <2>1. SameCall(x)
    BY <1>5, <1>10 DEF SameCall, IInv, TypeOK
  <2>. QED BY <1>1, <1>5, <1>7, <1>10, <2>1, OtherCall
<1>11. RequestsOwned' /\ ContentsOwned'
  <2>1. UNCHANGED <<committed, pc, success, ids>>
    BY <1>5
  <2>2. \A x \in Calls : x # c => SameCall(x)
    BY <1>10
  <2>. QED BY <1>7, <2>1, <2>2, OwnedKept
<1>. QED BY <1>6, <1>8, <1>9, <1>10, <1>11 DEF IInv

-----------------------------------------------------------------------------
LEMMA TakeIdsKeeps ==
    ASSUME IInv, NEW c \in Calls, NEW t \in Tables, TakeIds(c, t)
    PROVE  IInv'
<1>1. pc[c] = t /\ fresh[c] > 0 /\ UNCHANGED <<dbVars, pc, lastId, success>>
  BY DEF TakeIds
<1>2. /\ done[c] \in Nat /\ fresh[c] \in Nat /\ size[t] \in Nat /\ committed[t] \in Nat
      /\ Total(c, t) \in Nat
  BY Totals DEF Tables, IInv, TypeOK
<1>3. Filling(c, t)
  BY <1>1 DEF IInv, CallInv
<1>4. lastId[c] = size[t] /\ size[t] = committed[t] + done[c] + fresh[c] /\ c \in locked
  BY <1>1, <1>2, <1>3 DEF Filling
<1>5. /\ done' = [done EXCEPT ![c] = @ + fresh[c]] /\ fresh' = [fresh EXCEPT ![c] = 0]
      /\ DOMAIN ids' = Calls /\ \A x \in Calls \ {c} : ids'[x] = ids[x]
      /\ DOMAIN ids'[c] = Tables /\ \A t2 \in Tables \ {t} : ids'[c][t2] = ids[c][t2]
      /\ DOMAIN ids'[c][t] = 1 .. done[c] + fresh[c]
      /\ \A i \in 1 .. done[c] + fresh[c] :
            ids'[c][t][i] = IF i <= done[c] THEN ids[c][t][i]
                            ELSE ChunkId(lastId[c], fresh[c], i - done[c])
  BY DEF TakeIds, IInv, TypeOK
<1>6. TypeOK'
  <2>1. TypeOK /\ done[c] + fresh[c] \in Nat
    BY <1>2 DEF IInv
  <2>2. done' \in [Calls -> Nat] /\ fresh' \in [Calls -> Nat]
    BY <1>5, <2>1 DEF TypeOK
  <2>3. \A x \in Calls : DOMAIN ids'[x] = Tables
    BY <1>5, <2>1 DEF TypeOK
  <2>. QED BY <1>1, <1>5, <2>1, <2>2, <2>3 DEF TypeOK, dbVars
<1>7. CommittedKept
  BY <1>1 DEF CommittedKept, IInv, TypeOK, dbVars
<1>8. LockInv'
  BY <1>1 DEF IInv, LockInv, dbVars
<1>9. CallInv(c)'
  <2>1. \A i \in 1 .. done[c] + fresh[c] : ids'[c][t][i] = Narrow(committed[t] + i)
    <3>1. ASSUME NEW i \in 1 .. done[c] PROVE ids'[c][t][i] = Narrow(committed[t] + i)
      BY <1>2, <1>3, <1>5 DEF Filling
    <3>2. ASSUME NEW i \in (done[c] + 1) .. (done[c] + fresh[c])
          PROVE  ids'[c][t][i] = Narrow(committed[t] + i)
      <4>1. lastId[c] - (fresh[c] - (i - done[c])) = committed[t] + i
        BY <1>2, <1>4
      <4>2. i \in 1 .. done[c] + fresh[c] /\ ~(i <= done[c])
        BY <1>2
      <4>. QED BY <1>5, <4>1, <4>2 DEF ChunkId
    <3>. QED BY <1>2, <3>1, <3>2
  <2>2. \A i \in 1 .. done[c] + fresh[c] : table'[t][committed[t] + i] = Row(c, t, i)'
    <3>1. t = "contents" \/ ids'[c]["contents"] = ids[c]["contents"]
      BY <1>5 DEF Tables
    <3>2. \A i : Row(c, t, i)' = Row(c, t, i)
      BY <3>1, RowKept
    <3>. QED BY <1>1, <1>3, <3>2 DEF Filling, dbVars
  <2>3. done'[c] = done[c] + fresh[c] /\ fresh'[c] = 0
    BY <1>5 DEF IInv, TypeOK
  <2>4. Total(c, t)' = Total(c, t)
    BY DEF Total
  <2>5. Filling(c, t)'
    BY <1>1, <1>2, <1>3, <1>4, <1>5, <2>1, <2>2, <2>3, <2>4 DEF Filling, dbVars
  <2>6. /\ t = "requests" => UNCHANGED ids[c]["contents"]
        /\ t = "contents" => UNCHANGED ids[c]["requests"]
    BY <1>5 DEF Tables
  <2>. QED BY <1>1, <1>7, <2>5, <2>6, OwnCall
<1>10. ASSUME NEW x \in Calls, x # c PROVE CallInv(x)' /\ SameCall(x)
  <2>1. SameCall(x)
    BY <1>1, <1>5, <1>10 DEF SameCall, IInv, TypeOK
  <2>. QED BY <1>1, <1>7, <2>1, OtherCall
<1>11. RequestsOwned' /\ ContentsOwned'
  <2>1. /\ ~(success[c] > 0)
        /\ pc[c] \in PastContents => /\ pc'[c] \in PastContents
                                     /\ UNCHANGED ids[c]["contents"]
    <3>1. success[c] = -1
      BY <1>1 DEF IInv, CallInv
    <3>2. pc[c] \in PastContents => t = "requests"
      BY <1>1 DEF PastContents, Saved, Tables
    <3>. QED BY <1>1, <1>5, <3>1, <3>2 DEF Tables
  <2>2. \A x \in Calls : x # c => SameCall(x)
    BY <1>10
  <2>. QED BY <1>1, <1>7, <2>1, <2>2, OwnedKept DEF dbVars
<1>. QED BY <1>6, <1>8, <1>9, <1>10, <1>11 DEF IInv

-----------------------------------------------------------------------------
LEMMA ReceiveKeeps ==
    ASSUME IInv, NEW c \in Calls, Receive(c)
    PROVE  IInv'
<1>1. pc[c] = "new" /\ UNCHANGED <<dbVars, done, fresh, lastId, ids>> /\ CallInv(c)
  BY DEF Receive, Goto, IInv
<1>2. CommittedKept
  BY <1>1 DEF CommittedKept, IInv, TypeOK, dbVars
<1>3. c \notin locked
  BY <1>1 DEF IInv, LockInv, Tables
<1>4. /\ success' = [success EXCEPT ![c] = -1]
      /\ \/ pc' = [pc EXCEPT ![c] = "400"]
         \/ pc' = [pc EXCEPT ![c] = "contents"] /\ Messages[c] # 0
  BY DEF Receive, Goto
<1>5. success'[c] = -1 /\ pc'[c] \in {"400", "contents"} /\ (pc'[c] = "contents" => Messages[c] # 0)
  BY <1>1, <1>4 DEF CallInv, IInv, TypeOK
<1>6. TypeOK'
  <2>1. pc' \in [Calls -> {"new"} \cup Tables \cup Saved \cup Ended]
    BY <1>4 DEF IInv, TypeOK, Tables, Saved, Ended, Answered
  <2>2. success' \in [Calls -> Int]
    BY <1>4 DEF IInv, TypeOK
  <2>. QED BY <1>1, <2>1, <2>2 DEF IInv, TypeOK, dbVars
<1>7. LockInv'
  <2>1. \A x \in locked : x \in Calls /\ pc'[x] = pc[x]
    BY <1>3, <1>4 DEF IInv, TypeOK
  <2>. QED BY <1>1, <2>1 DEF IInv, LockInv, dbVars
<1>8. CallInv(c)'
  <2>1. ASSUME pc'[c] = "contents" PROVE Filling(c, "contents")'
    <3>1. Total(c, "contents")' = Total(c, "contents") /\ Total(c, "contents") > 0
      BY <1>5, <2>1, Totals DEF Total
    <3>2. /\ done'[c] = 0 /\ fresh'[c] = 0 /\ c \notin locked'
          /\ DOMAIN ids'[c]["contents"] = 1 .. 0
      BY <1>1, <1>3 DEF CallInv, dbVars
    <3>3. Total(c, "contents") \in Nat
      BY Totals
    <3>. QED BY <3>1, <3>2, <3>3 DEF Filling
  <2>. QED BY <1>1, <1>5, <2>1 DEF CallInv, Tables
<1>9. ASSUME NEW x \in Calls, x # c PROVE CallInv(x)' /\ SameCall(x)
  <2>1. SameCall(x)
    BY <1>1, <1>4, <1>9 DEF SameCall, IInv, TypeOK
  <2>. QED BY <1>1, <1>2, <2>1, OtherCall
<1>10. RequestsOwned' /\ ContentsOwned'
  <2>1. \A x \in Calls : x # c => SameCall(x)
    BY <1>9
  <2>2. pc[c] \notin PastContents /\ success[c] = -1
    BY <1>1 DEF PastContents, Saved, CallInv
  <2>. QED BY <1>1, <1>2, <2>1, <2>2, OwnedKept DEF dbVars
<1>. QED BY <1>6, <1>7, <1>8, <1>9, <1>10 DEF IInv

-----------------------------------------------------------------------------
(* A call that ends without success takes back what it has not committed.  *)
LEMMA EndKeeps ==
    ASSUME IInv, NEW c \in Calls, pc[c] \in Tables, Rollback(c),
           NEW how \in {"ok", "500", "gone"}, NEW n \in {0, -1}, Goto(c, how, n),
           how = "ok" <=> n = 0, pc[c] = "requests" => how # "500"
    PROVE  IInv'
<1>1. /\ pc' = [pc EXCEPT ![c] = how] /\ success' = [success EXCEPT ![c] = n]
      /\ UNCHANGED <<done, fresh, lastId, ids>>
  BY DEF Goto
<1>2. pc'[c] = how /\ success'[c] = n
  BY <1>1 DEF IInv, TypeOK
<1>o. success[c] = -1 /\ (pc[c] \in PastContents => pc'[c] \in PastContents)
  BY <1>2 DEF PastContents, Saved, Tables, IInv, CallInv
<1>3. CASE c \in locked
  <2>1. locked = {c}
    BY <1>3 DEF IInv, LockInv
  <2>2. /\ table' = [t \in Tables |-> [m \in 1 .. committed[t] |-> table[t][m]]]
        /\ size' = committed /\ locked' = {} /\ committed' = committed
    BY <2>1 DEF Rollback
  <2>3. CommittedKept
    BY <2>2 DEF CommittedKept, IInv, TypeOK
  <2>4. TypeOK'
    <3>1. pc' \in [Calls -> {"new"} \cup Tables \cup Saved \cup Ended] /\ success' \in [Calls -> Int]
      BY <1>1 DEF IInv, TypeOK, Saved, Ended, Answered
    <3>. QED BY <1>1, <2>2, <3>1 DEF IInv, TypeOK
  <2>5. LockInv'
    BY <2>2 DEF LockInv, IInv, TypeOK
  <2>6. ASSUME NEW x \in Calls, x # c PROVE CallInv(x)' /\ SameCall(x)
    <3>1. SameCall(x)
      BY <1>1, <2>6 DEF SameCall, IInv, TypeOK
    <3>. QED BY <2>1, <2>2, <2>3, <2>6, <3>1, OtherCall
  <2>. QED BY <1>1, <1>2, <1>o, <2>2, <2>3, <2>4, <2>5, <2>6, OwnedKept DEF IInv, CallInv, Tables
<1>4. CASE c \notin locked
  <2>1. UNCHANGED <<dbVars, table, size, committed, locked>>
    BY <1>4 DEF Rollback, dbVars
  <2>2. CommittedKept
    BY <2>1 DEF CommittedKept, IInv, TypeOK
  <2>3. TypeOK'
    <3>1. pc' \in [Calls -> {"new"} \cup Tables \cup Saved \cup Ended] /\ success' \in [Calls -> Int]
      BY <1>1 DEF IInv, TypeOK, Saved, Ended, Answered
    <3>. QED BY <1>1, <2>1, <3>1 DEF IInv, TypeOK
  <2>4. LockInv'
    <3>1. \A x \in locked : x \in Calls /\ pc'[x] = pc[x]
      BY <1>1, <1>4 DEF IInv, TypeOK
    <3>. QED BY <2>1, <3>1 DEF IInv, LockInv
  <2>5. ASSUME NEW x \in Calls, x # c PROVE CallInv(x)' /\ SameCall(x)
    <3>1. SameCall(x)
      BY <1>1, <2>5 DEF SameCall, IInv, TypeOK
    <3>. QED BY <2>1, <2>2, <3>1, OtherCall
  <2>. QED BY <1>1, <1>2, <1>o, <2>1, <2>2, <2>3, <2>4, <2>5, OwnedKept DEF IInv, CallInv, Tables
<1>. QED BY <1>3, <1>4

-----------------------------------------------------------------------------
(* A commit: the rows of c become stored rows, in order.                   *)
LEMMA Committing ==
    ASSUME IInv, NEW c \in Calls, NEW t \in Tables, AllInserted(c, t), Commit(t)
    PROVE  /\ locked = {c} /\ locked' = {} /\ UNCHANGED <<table, size>>
           /\ committed' = [committed EXCEPT ![t] = size[t]]
           /\ committed' \in [Tables -> Nat]
           /\ size[t] = committed[t] + Total(c, t) /\ Total(c, t) > 0
           /\ CommittedKept /\ DOMAIN ids[c][t] = 1 .. Total(c, t)
           /\ \A i \in 1 .. Total(c, t) :
                 /\ committed[t] + i \in 1 .. committed'[t]
                 /\ ids[c][t][i] = Narrow(committed[t] + i)
                 /\ table[t][committed[t] + i] = Row(c, t, i)
<1>1. pc[c] = t /\ fresh[c] = 0 /\ done[c] = Total(c, t) /\ Filling(c, t)
  BY DEF AllInserted, IInv, CallInv
<1>2. Total(c, t) \in Nat /\ committed[t] \in Nat /\ size \in [Tables -> Nat]
  BY Totals DEF Tables, IInv, TypeOK
<1>3. locked = {c}
  <2>1. c \in locked
    BY <1>1, <1>2 DEF Filling
  <2>. QED BY <2>1 DEF IInv, LockInv
<1>4. size[t] = committed[t] + Total(c, t)
  BY <1>1, <1>2, <1>3 DEF Filling
<1>5. /\ locked' = {} /\ UNCHANGED <<table, size>>
      /\ committed' = [committed EXCEPT ![t] = size[t]]
  BY DEF Commit
<1>6. committed' \in [Tables -> Nat] /\ committed'[t] = size[t]
      /\ \A t2 \in Tables : committed[t2] \in Nat /\ committed[t2] <= committed'[t2]
  <2>1. committed[t] <= size[t]
    BY <1>2, <1>4
  <2>. QED BY <1>2, <1>5, <2>1 DEF IInv, TypeOK
<1>7. CommittedKept
  BY <1>5, <1>6 DEF CommittedKept
<1>8. \A i \in 1 .. Total(c, t) : committed[t] + i \in 1 .. committed'[t]
  BY <1>2, <1>4, <1>6
<1>9. /\ DOMAIN ids[c][t] = 1 .. Total(c, t)
      /\ \A i \in 1 .. Total(c, t) : /\ ids[c][t][i] = Narrow(committed[t] + i)
                                     /\ table[t][committed[t] + i] = Row(c, t, i)
  BY <1>1, <1>2 DEF Filling
<1>. QED BY <1>1, <1>3, <1>4, <1>5, <1>6, <1>7, <1>8, <1>9 DEF Filling

LEMMA NowPlaced ==
    ASSUME IInv, NEW c \in Calls, NEW t \in Tables, AllInserted(c, t), Commit(t),
           UNCHANGED ids
    PROVE  Placed(c, t)'
<1>1. \A i : Row(c, t, i)' = Row(c, t, i)
  BY RowKept
<1>2. Total(c, t)' = Total(c, t)
  BY DEF Total
<1>3. /\ UNCHANGED table /\ DOMAIN ids[c][t] = 1 .. Total(c, t)
      /\ \A i \in 1 .. Total(c, t) :
            /\ committed[t] + i \in 1 .. committed'[t]
            /\ ids[c][t][i] = Narrow(committed[t] + i)
            /\ table[t][committed[t] + i] = Row(c, t, i)
  BY Committing
<1>. QED BY <1>1, <1>2, <1>3 DEF Placed

(* The parts that do not depend on which table it was.                     *)
LEMMA CommitCommon ==
    ASSUME IInv, NEW c \in Calls, NEW t \in Tables, AllInserted(c, t), Commit(t),
           \A x \in Calls : x # c => SameCall(x)
    PROVE  LockInv' /\ \A x \in Calls : x # c => CallInv(x)'
<1>1. /\ locked = {c} /\ locked' = {} /\ UNCHANGED <<table, size>> /\ CommittedKept
      /\ committed' = [committed EXCEPT ![t] = size[t]] /\ pc[c] = t
  BY Committing DEF AllInserted
<1>2. \A t2 \in Tables : size'[t2] = committed'[t2]
  BY <1>1 DEF IInv, LockInv, TypeOK
<1>3. LockInv'
  BY <1>1, <1>2 DEF LockInv, IInv, TypeOK
<1>4. ASSUME NEW x \in Calls, x # c PROVE CallInv(x)'
  BY <1>1, <1>4, OtherCall
<1>. QED BY <1>3, <1>4

LEMMA CommitContentsKeeps ==
    ASSUME IInv, NEW c \in Calls, CommitContents(c)
    PROVE  IInv'
<1>. DEFINE t == "contents"
<1>1. /\ t \in Tables /\ AllInserted(c, t) /\ Commit(t) /\ UNCHANGED <<done, fresh, lastId, ids>>
      /\ pc' = [pc EXCEPT ![c] = "contentsSaved"] /\ success' = [success EXCEPT ![c] = -1]
  BY DEF CommitContents, Goto, Tables
<1>2. /\ locked = {c} /\ locked' = {} /\ UNCHANGED <<table, size>>
      /\ committed' = [committed EXCEPT ![t] = size[t]] /\ committed' \in [Tables -> Nat]
      /\ size[t] = committed[t] + Total(c, t) /\ Total(c, t) > 0 /\ CommittedKept
  BY <1>1, Committing
<1>3. pc[c] = "contents" /\ success[c] = -1 /\ fresh[c] = 0 /\ DOMAIN ids[c]["requests"] = 1 .. 0
  BY <1>1 DEF AllInserted, IInv, CallInv
<1>5. pc'[c] = "contentsSaved" /\ success'[c] = -1
  BY <1>1 DEF IInv, TypeOK
<1>6. TypeOK'
  <2>1. pc' \in [Calls -> {"new"} \cup Tables \cup Saved \cup Ended] /\ success' \in [Calls -> Int]
    BY <1>1 DEF IInv, TypeOK, Saved
  <2>. QED BY <1>1, <1>2, <2>1 DEF IInv, TypeOK
<1>7. \A x \in Calls : x # c => SameCall(x)
  BY <1>1 DEF SameCall, IInv, TypeOK
<1>8. LockInv' /\ \A x \in Calls : x # c => CallInv(x)'
  BY <1>1, <1>7, CommitCommon
<1>9. Placed(c, "contents")'
  BY <1>1, NowPlaced
<1>10. CallInv(c)'
  BY <1>1, <1>3, <1>5, <1>9 DEF CallInv, Tables
<1>11. RequestsOwned'
  BY <1>1, <1>2, <1>3, <1>7, OwnedKept DEF Tables
<1>12. ContentsOwned'
  <2>1. \A i : \A x \in Calls : Row(x, "contents", i)' = Row(x, "contents", i)
    BY RowKept
  <2>2. \A x : Total(x, "contents")' = Total(x, "contents")
    BY DEF Total
  <2>3. ASSUME NEW n \in 1 .. committed["contents"]
        PROVE  \E x \in Calls :
                  /\ pc'[x] \in PastContents
                  /\ \E i \in 1 .. Total(x, "contents") :
                        /\ table["contents"][n] = Row(x, "contents", i)
                        /\ ids[x]["contents"][i] = Narrow(n)
    <3>1. PICK x \in Calls :
             /\ pc[x] \in PastContents
             /\ \E i \in 1 .. Total(x, "contents") :
                   /\ table["contents"][n] = Row(x, "contents", i)
                   /\ ids[x]["contents"][i] = Narrow(n)
      BY DEF IInv, ContentsOwned
    <3>2. pc'[x] = pc[x]
      BY <1>3, <1>7, <3>1 DEF SameCall, PastContents, Saved
    <3>. QED BY <3>1, <3>2
  <2>4. ASSUME NEW n \in (committed["contents"] + 1) .. size["contents"]
        PROVE  \E x \in Calls :
                  /\ pc'[x] \in PastContents
                  /\ \E i \in 1 .. Total(x, "contents") :
                        /\ table["contents"][n] = Row(x, "contents", i)
                        /\ ids[x]["contents"][i] = Narrow(n)
    <3>1. /\ n - committed["contents"] \in 1 .. Total(c, "contents")
          /\ committed["contents"] + (n - committed["contents"]) = n
      BY <1>1, <1>2, Totals DEF IInv, TypeOK
    <3>2. /\ table["contents"][n] = Row(c, "contents", n - committed["contents"])
          /\ ids[c]["contents"][n - committed["contents"]] = Narrow(n)
      BY <1>1, <3>1, Committing
    <3>. QED BY <1>5, <3>1, <3>2 DEF PastContents, Saved
  <2>5. /\ committed'["contents"] = size["contents"]
        /\ committed["contents"] \in Nat /\ size["contents"] \in Nat
    BY <1>1, <1>2 DEF IInv, TypeOK
  <2>6. \A n \in 1 .. committed'["contents"] : \E x \in Calls :
           /\ pc'[x] \in PastContents
           /\ \E i \in 1 .. Total(x, "contents") :
                 /\ table["contents"][n] = Row(x, "contents", i)
                 /\ ids[x]["contents"][i] = Narrow(n)
    BY <2>3, <2>4, <2>5
  <2>. QED BY <1>1, <1>2, <2>1, <2>2, <2>6 DEF ContentsOwned
<1>. QED BY <1>6, <1>8, <1>10, <1>11, <1>12 DEF IInv

LEMMA CommitRequestsKeeps ==
    ASSUME IInv, NEW c \in Calls, CommitRequests(c)
    PROVE  IInv'
<1>. DEFINE t == "requests"
<1>1. /\ t \in Tables /\ AllInserted(c, t) /\ Commit(t)
      /\ UNCHANGED <<done, fresh, lastId, ids>>
      /\ pc' = [pc EXCEPT ![c] = "requestsSaved"] /\ success' = [success EXCEPT ![c] = Total(c, t)]
  BY DEF CommitRequests, Goto, Tables
<1>2. /\ locked = {c} /\ locked' = {} /\ UNCHANGED <<table, size>>
      /\ committed' = [committed EXCEPT ![t] = size[t]] /\ committed' \in [Tables -> Nat]
      /\ size[t] = committed[t] + Total(c, t) /\ Total(c, t) > 0 /\ CommittedKept
      /\ \A i \in 1 .. Total(c, t) : table[t][committed[t] + i] = Row(c, t, i)
  BY <1>1, Committing
<1>3. pc[c] = "requests" /\ success[c] = -1 /\ Placed(c, "contents")
  BY <1>1 DEF AllInserted, IInv, CallInv
<1>4. pc'[c] = "requestsSaved" /\ success'[c] = Total(c, t) /\ Total(c, t) \in Nat
  BY <1>1, Totals DEF IInv, TypeOK
<1>5. TypeOK'
  <2>1. pc' \in [Calls -> {"new"} \cup Tables \cup Saved \cup Ended]
    BY <1>1 DEF IInv, TypeOK, Saved, Ended, Answered
  <2>2. success' \in [Calls -> Int]
    BY <1>1, <1>4 DEF IInv, TypeOK
  <2>. QED BY <1>1, <1>2, <2>1, <2>2 DEF IInv, TypeOK
<1>6. \A x \in Calls : x # c => SameCall(x)
  BY <1>1 DEF SameCall, IInv, TypeOK
<1>7. LockInv' /\ \A x \in Calls : x # c => CallInv(x)'
  BY <1>1, <1>6, CommitCommon
<1>8. CallInv(c)'
  <2>1. Placed(c, "requests")'
    BY <1>1, NowPlaced
  <2>2. Placed(c, "contents")'
    BY <1>1, <1>2, <1>3, PlacedKept DEF Tables
  <2>3. Total(c, "requests")' = Total(c, "requests")
    BY DEF Total
  <2>. QED BY <1>2, <1>4, <2>1, <2>2, <2>3 DEF CallInv, Tables
<1>9. ContentsOwned'
  <2>1. UNCHANGED committed["contents"]
    BY <1>2 DEF IInv, TypeOK, Tables
  <2>. QED BY <1>1, <1>2, <1>3, <1>4, <1>6, <2>1, OwnedKept DEF Tables, PastContents, Saved
<1>10. RequestsOwned'
  <2>1. \A i : \A x \in Calls : Row(x, t, i)' = Row(x, t, i)
    BY <1>1, RowKept
  <2>2. \A x : Total(x, t)' = Total(x, t)
    BY DEF Total
  <2>3. committed'[t] = size[t] /\ committed[t] \in Nat /\ size[t] \in Nat
    BY <1>1, <1>2 DEF IInv, TypeOK
  <2>4. ASSUME NEW n \in 1 .. committed[t]
        PROVE  /\ \E x \in Calls : success'[x] > 0 /\ \E i \in 1 .. Total(x, t) :
                                                         table[t][n] = Row(x, t, i)
               /\ table[t][n].call # c
    <3>1. PICK x \in Calls : success[x] > 0 /\ \E i \in 1 .. Total(x, t) :
                                                  table[t][n] = Row(x, t, i)
      BY DEF IInv, RequestsOwned
    <3>2. x # c /\ success'[x] = success[x]
      BY <1>3, <1>6, <3>1 DEF SameCall
    <3>. QED BY <3>1, <3>2, RowParts
  <2>5. ASSUME NEW n \in (committed[t] + 1) .. size[t]
        PROVE  /\ n - committed[t] \in 1 .. Total(c, t)
               /\ table[t][n] = Row(c, t, n - committed[t])
               /\ table[t][n].call = c /\ table[t][n].pos = n - committed[t]
    <3>1. n - committed[t] \in 1 .. Total(c, t) /\ committed[t] + (n - committed[t]) = n
      BY <1>2, <1>4, <2>3
    <3>2. table[t][n] = Row(c, t, n - committed[t])
      BY <1>2, <3>1
    <3>. QED BY <3>1, <3>2, RowParts
  <2>6. \A n \in 1 .. size[t] : n \in 1 .. committed[t] \/ n \in (committed[t] + 1) .. size[t]
    BY <2>3
  <2>7. \A n \in 1 .. size[t] : \E x \in Calls :
           success'[x] > 0 /\ \E i \in 1 .. Total(x, t) : table[t][n] = Row(x, t, i)
    BY <1>2, <1>4, <2>4, <2>5, <2>6
  <2>8. ASSUME NEW m \in 1 .. size[t], NEW n \in 1 .. size[t],
               table[t][m].call = table[t][n].call, table[t][m].pos = table[t][n].pos
        PROVE  m = n
    <3>1. CASE m \in 1 .. committed[t] /\ n \in 1 .. committed[t]
      BY <2>8, <3>1 DEF IInv, RequestsOwned
    <3>2. CASE m \notin 1 .. committed[t] /\ n \notin 1 .. committed[t]
      <4>1. m - committed[t] = n - committed[t]
        BY <2>5, <2>6, <2>8, <3>2
      <4>. QED BY <2>3, <4>1
    <3>3. CASE m \in 1 .. committed[t] /\ n \notin 1 .. committed[t]
      BY <2>4, <2>5, <2>6, <2>8, <3>3
    <3>4. CASE m \notin 1 .. committed[t] /\ n \in 1 .. committed[t]
      BY <2>4, <2>5, <2>6, <2>8, <3>4
    <3>. QED BY <3>1, <3>2, <3>3, <3>4
  <2>. QED BY <1>2, <2>1, <2>2, <2>3, <2>7, <2>8 DEF RequestsOwned
<1>. QED BY <1>5, <1>7, <1>8, <1>9, <1>10 DEF IInv

-----------------------------------------------------------------------------
(* What a handler does between its awaits on the database: it goes on to   *)
(* the requests, responds, or is dropped.                                  *)
LEMMA BetweenKeeps ==
    ASSUME IInv, NEW c \in Calls, pc[c] \in Saved,
           SavedContents(c) \/ Respond(c) \/ Disconnect(c)
    PROVE  IInv'
<1>1. c \notin locked /\ CallInv(c) /\ TypeOK
  BY DEF IInv, LockInv, Saved, Tables
<1>2. UNCHANGED <<dbVars, fresh, lastId, ids>>
  BY <1>1 DEF SavedContents, Respond, Disconnect, Rollback, Goto
<1>3. CommittedKept
  BY <1>1, <1>2 DEF CommittedKept, TypeOK, dbVars
<1>4. \/ /\ pc[c] = "contentsSaved" /\ pc' = [pc EXCEPT ![c] = "requests"] /\ success' = success
         /\ done' = [done EXCEPT ![c] = 0] /\ Total(c, "requests") # 0
      \/ /\ done' = done
         /\ \E how \in {"400", "ok", "gone"}, n \in {-1, 0, success[c]} :
               /\ pc' = [pc EXCEPT ![c] = how] /\ success' = [success EXCEPT ![c] = n]
               /\ pc[c] = "contentsSaved" => (how = "ok" /\ n = 0) \/ (how # "ok" /\ n = -1)
               /\ pc[c] = "requestsSaved" => how # "400" /\ n = success[c]
  <2>1. CASE SavedContents(c)
    <3>. pc[c] = "contentsSaved"
      BY <2>1 DEF SavedContents
    <3>1. CASE Goto(c, "400", -1)
      <4>1. /\ done' = done /\ pc' = [pc EXCEPT ![c] = "400"]
            /\ success' = [success EXCEPT ![c] = -1]
        BY <3>1 DEF Goto
      <4>. QED BY <4>1
    <3>2. CASE Goto(c, "ok", 0)
      <4>1. /\ done' = done /\ pc' = [pc EXCEPT ![c] = "ok"]
            /\ success' = [success EXCEPT ![c] = 0]
        BY <3>2 DEF Goto
      <4>. QED BY <4>1
    <3>3. CASE /\ Total(c, "requests") # 0
               /\ pc' = [pc EXCEPT ![c] = "requests"]
               /\ done' = [done EXCEPT ![c] = 0]
               /\ UNCHANGED <<fresh, lastId, ids, success>>
      BY <3>3
    <3>4. \/ Goto(c, "400", -1) \/ Goto(c, "ok", 0)
          \/ /\ Total(c, "requests") # 0
             /\ pc' = [pc EXCEPT ![c] = "requests"]
             /\ done' = [done EXCEPT ![c] = 0]
             /\ UNCHANGED <<fresh, lastId, ids, success>>
      BY <2>1 DEF SavedContents
    <3>. QED BY <3>1, <3>2, <3>3, <3>4
  <2>2. CASE Respond(c)
    <3>1. /\ done' = done /\ pc[c] = "requestsSaved"
          /\ pc' = [pc EXCEPT ![c] = "ok"] /\ success' = [success EXCEPT ![c] = success[c]]
      BY <2>2 DEF Respond, Goto
    <3>. QED BY <3>1
  <2>3. CASE Disconnect(c)
    <3>1. /\ done' = done /\ (pc[c] = "contentsSaved" => success[c] = -1)
          /\ pc' = [pc EXCEPT ![c] = "gone"] /\ success' = [success EXCEPT ![c] = success[c]]
      BY <1>1, <2>3 DEF Disconnect, Goto, CallInv
    <3>. QED BY <3>1
  <2>. QED BY <2>1, <2>2, <2>3
<1>5. /\ pc'[c] \in {"requests", "400", "ok", "gone"}
      /\ pc[c] = "contentsSaved" => success[c] = -1 /\ success'[c] \in {-1, 0}
      /\ pc[c] = "requestsSaved" => success'[c] = success[c] /\ success[c] > 0
      /\ pc'[c] = "ok" => success'[c] >= 0
      /\ pc'[c] \in {"400", "requests"} => success'[c] = -1
      /\ pc'[c] = "requests" => /\ pc[c] = "contentsSaved" /\ done'[c] = 0
                                /\ Total(c, "requests") # 0
  BY <1>1, <1>4 DEF TypeOK, CallInv, Saved
<1>6. TypeOK'
  <2>1. /\ pc' \in [Calls -> {"new"} \cup Tables \cup Saved \cup Ended]
        /\ success' \in [Calls -> Int] /\ done' \in [Calls -> Nat]
    <3>. DEFINE P == {"new"} \cup Tables \cup Saved \cup Ended
    <3>1. {"requests", "400", "ok", "gone"} \subseteq P
      BY DEF Tables, Ended, Answered
    <3>2. /\ pc \in [Calls -> P] /\ success \in [Calls -> Int] /\ done \in [Calls -> Nat]
          /\ {-1, 0, success[c]} \subseteq Int
      BY <1>1 DEF TypeOK
    <3>. HIDE DEF P
    <3>3. /\ \E how \in P : pc' = [pc EXCEPT ![c] = how]
          /\ success' = success \/ \E n \in Int : success' = [success EXCEPT ![c] = n]
          /\ done' = done \/ done' = [done EXCEPT ![c] = 0]
      BY <1>4, <3>1, <3>2
    <3>4. pc' \in [Calls -> P] /\ success' \in [Calls -> Int] /\ done' \in [Calls -> Nat]
      BY <3>2, <3>3
    <3>. QED BY <3>4 DEF P
  <2>. QED BY <1>1, <1>2, <2>1 DEF TypeOK, dbVars
<1>7. LockInv'
  <2>1. \A x \in locked : x \in Calls /\ pc'[x] = pc[x]
    BY <1>1, <1>4 DEF TypeOK
  <2>. QED BY <1>2, <2>1 DEF IInv, LockInv, dbVars
<1>8. ASSUME NEW t \in Tables, Placed(c, t) PROVE Placed(c, t)'
  BY <1>2, <1>3, <1>8, PlacedKept
<1>9. CallInv(c)'
  <2>1. "contents" \in Tables /\ "requests" \in Tables
    BY DEF Tables
  <2>2. ASSUME pc'[c] = "requests" PROVE Filling(c, "requests")'
    <3>1. Total(c, "requests")' = Total(c, "requests") /\ Total(c, "requests") \in Nat
      BY Totals DEF Total
    <3>2. DOMAIN ids[c]["requests"] = 1 .. 0 /\ fresh[c] = 0
      BY <1>1, <1>5, <2>2 DEF CallInv
    <3>3. /\ done'[c] = 0 /\ fresh'[c] = 0 /\ c \notin locked'
          /\ DOMAIN ids'[c]["requests"] = 1 .. 0 /\ Total(c, "requests") > 0
      BY <1>1, <1>2, <1>5, <2>2, <3>1, <3>2 DEF dbVars
    <3>. QED BY <3>1, <3>3 DEF Filling
  <2>3. Total(c, "requests")' = Total(c, "requests")
    BY DEF Total
  <2>4. pc'[c] = "requests" \/ success'[c] > 0 => Placed(c, "contents")'
    BY <1>1, <1>5, <1>8, <2>1 DEF CallInv, Saved
  <2>5. success'[c] > 0 => Placed(c, "requests")' /\ Total(c, "requests") > 0
    BY <1>1, <1>5, <1>8, <2>1 DEF CallInv, Saved
  <2>. QED BY <1>5, <2>2, <2>3, <2>4, <2>5 DEF CallInv, Tables
<1>10. ASSUME NEW x \in Calls, x # c PROVE CallInv(x)' /\ SameCall(x)
  <2>1. SameCall(x)
    BY <1>1, <1>2, <1>4, <1>10 DEF SameCall, TypeOK
  <2>. QED BY <1>2, <1>3, <2>1, OtherCall
<1>11. RequestsOwned' /\ ContentsOwned'
  <2>1. \A x \in Calls : x # c => SameCall(x)
    BY <1>10
  <2>2. pc'[c] \in PastContents /\ (success[c] > 0 => success'[c] > 0)
    BY <1>5 DEF PastContents, Saved
  <2>. QED BY <1>2, <1>3, <2>1, <2>2, OwnedKept DEF dbVars
<1>. QED BY <1>6, <1>7, <1>9, <1>10, <1>11 DEF IInv

-----------------------------------------------------------------------------
(* IInv is inductive.                                                      *)
LEMMA NextIInv == IInv /\ [Next]_vars => IInv'
<1>. SUFFICES ASSUME IInv, [Next]_vars PROVE IInv'
  OBVIOUS
<1>1. CASE UNCHANGED vars
  <2>. USE <1>1 DEF vars, dbVars, callVars
  <2>1. TypeOK' /\ LockInv'
    BY DEF IInv, TypeOK, LockInv
  <2>2. CommittedKept
    BY DEF CommittedKept, IInv, TypeOK
  <2>3. \A x \in Calls : CallInv(x)'
    BY <2>2, OtherCall DEF SameCall
  <2>4. RequestsOwned' /\ ContentsOwned'
    BY DEF IInv, RequestsOwned, ContentsOwned, Row, ContentOf, Total
  <2>. QED BY <2>1, <2>3, <2>4 DEF IInv
<1>2. CASE Next
  <2>1. PICK c \in Calls : Receive(c) \/ StoreStep(c) \/ StatementFails(c) \/ Disconnect(c)
    BY <1>2 DEF Next
  <2>2. CASE StatementFails(c)
    BY <2>2, EndKeeps DEF StatementFails
  <2>3. CASE Disconnect(c)
    <3>1. CASE pc[c] \in Tables
      <4>1. success[c] = -1
        BY <3>1 DEF IInv, CallInv
      <4>. QED BY <2>3, <3>1, <4>1, EndKeeps DEF Disconnect
    <3>2. CASE pc[c] \in Saved
      BY <2>3, <3>2, BetweenKeeps
    <3>. QED BY <2>3, <3>1, <3>2 DEF Disconnect
  <2>4. CASE StoreStep(c)
    <3>1. CASE SavedContents(c) \/ Respond(c)
      BY <3>1, BetweenKeeps DEF SavedContents, Respond, Saved
    <3>. QED BY <2>4, <3>1, InsertKeeps, TakeIdsKeeps, CommitContentsKeeps, CommitRequestsKeeps
                DEF StoreStep
  <2>. QED BY <2>1, <2>2, <2>3, <2>4, ReceiveKeeps
<1>. QED BY <1>1, <1>2

LEMMA Inductive == Spec => []IInv
BY InitIInv, NextIInv, PTL DEF Spec

(* Every variable of the calls and of the two tables keeps its type.       *)
THEOREM Typing == Spec => []TypeOK
<1>1. IInv => TypeOK
  BY DEF IInv
<1>. QED BY <1>1, Inductive, PTL

-----------------------------------------------------------------------------
(* The properties.                                                         *)

(* However the chunks of several calls interleave, the id a call computes  *)
(* for a value is that of the row that holds it.                           *)
THEOREM OwnIds == Spec => []IdsNameOwnRows
<1>1. IInv => IdsNameOwnRows
  <2>. SUFFICES ASSUME IInv, NEW c \in Calls, NEW t \in Tables,
                       pc[c] \in Tables \cup Saved \cup {"ok"}, success[c] # 0, InRange(t), NEW i \in DOMAIN ids[c][t]
                PROVE  /\ ids[c][t][i] \in 1 .. size[t]
                       /\ table[t][ids[c][t][i]] = Row(c, t, i)
    BY DEF IdsNameOwnRows
  <2>1. /\ committed[t] \in Nat /\ size[t] \in Nat /\ committed[t] <= size[t]
        /\ size[t] <= MaxId /\ MaxId \in Nat /\ success[c] \in Int /\ CallInv(c)
        /\ done[c] \in Nat /\ fresh[c] \in Nat
    BY IngestAssumption DEF IInv, TypeOK, LockInv, InRange
  <2>2. \E n \in 1 .. size[t] : ids[c][t][i] = Narrow(n) /\ table[t][n] = Row(c, t, i)
    <3>1. CASE pc[c] = t
      <4>1. Filling(c, t)
        BY <2>1, <3>1 DEF CallInv
      <4>2. i \in 1 .. done[c] /\ c \in locked
        BY <2>1, <4>1 DEF Filling
      <4>3. committed[t] + i \in 1 .. size[t] /\ i \in 1 .. done[c] + fresh[c]
        BY <2>1, <4>1, <4>2 DEF Filling
      <4>. QED BY <4>1, <4>2, <4>3 DEF Filling
    <3>2. CASE pc[c] # t
      <4>1. Placed(c, t)
        <5>1. pc[c] \notin {"contents", "contentsSaved"} \/ t = "contents"
          BY <2>1, <3>2, 1 .. 0 = {} DEF CallInv, Tables
        <5>. QED BY <2>1, <3>2, <5>1 DEF CallInv, Saved, Tables
      <4>2. 1 .. committed[t] \subseteq 1 .. size[t]
        BY <2>1
      <4>. QED BY <4>1, <4>2 DEF Placed
    <3>. QED BY <3>1, <3>2
  <2>3. 1 .. size[t] \subseteq 1 .. MaxId
    BY <2>1
  <2>. QED BY <2>2, <2>3, Narrowed
<1>. QED BY <1>1, Inductive, PTL

(* A stored request never refers to the content of another message, of     *)
(* this call or another.                                                   *)
THEOREM ContentsMatch == Spec => []OwnContent
<1>1. IInv => OwnContent
  <2>. SUFFICES ASSUME IInv, InRange("contents"), NEW n \in 1 .. committed["requests"],
                       NEW r, r = table["requests"][n]
                PROVE  /\ r.content \in 1 .. committed["contents"]
                       /\ table["contents"][r.content] =
                             [call |-> r.call, pos |-> Recipients[r.call][r.pos], content |-> 0]
    BY DEF OwnContent
  <2>1. PICK c \in Calls : /\ success[c] > 0
                           /\ \E i \in 1 .. Total(c, "requests") : r = Row(c, "requests", i)
    BY DEF IInv, RequestsOwned
  <2>2. PICK i \in 1 .. Total(c, "requests") : r = Row(c, "requests", i)
    BY <2>1
  <2>3. Placed(c, "contents") /\ Recipients[c][i] \in 1 .. Total(c, "contents")
    BY <2>1, Totals DEF IInv, CallInv
  <2>4. PICK m \in 1 .. committed["contents"] :
           /\ ids[c]["contents"][Recipients[c][i]] = Narrow(m)
           /\ table["contents"][m] = Row(c, "contents", Recipients[c][i])
    BY <2>3 DEF Placed
  <2>5. Narrow(m) = m
    <3>1. /\ committed["contents"] \in Nat /\ size["contents"] \in Nat /\ MaxId \in Nat
          /\ committed["contents"] <= size["contents"] /\ size["contents"] <= MaxId
      BY IngestAssumption DEF IInv, TypeOK, LockInv, InRange, Tables
    <3>2. m \in 1 .. MaxId
      BY <3>1
    <3>. QED BY <3>2, Narrowed
  <2>. QED BY <2>2, <2>4, <2>5, RowParts
<1>. QED BY <1>1, Inductive, PTL

(* A call is stored whole or not at all, and told so.                      *)
THEOREM WholeOrNothing == Spec => []AllOrNothing
<1>1. IInv => AllOrNothing
  <2>. SUFFICES ASSUME IInv PROVE AllOrNothing
    OBVIOUS
  <2>1. ASSUME NEW c \in Calls, NEW n \in Stored(c)
        PROVE  /\ success[c] > 0 /\ n \in 1 .. committed["requests"]
               /\ table["requests"][n].pos \in 1 .. Total(c, "requests")
               /\ table["requests"][n].call = c
    <3>1. n \in 1 .. committed["requests"] /\ table["requests"][n].call = c
      BY <2>1 DEF Stored
    <3>2. PICK x \in Calls : /\ success[x] > 0
                             /\ \E i \in 1 .. Total(x, "requests") :
                                   table["requests"][n] = Row(x, "requests", i)
      BY <3>1 DEF IInv, RequestsOwned
    <3>. QED BY <3>1, <3>2, RowParts
  <2>2. ASSUME NEW c \in Calls, success[c] > 0, NEW i \in 1 .. Total(c, "requests")
        PROVE  \E n \in Stored(c) : table["requests"][n].pos = i
    <3>1. Placed(c, "requests")
      BY <2>2 DEF IInv, CallInv
    <3>2. PICK n \in 1 .. committed["requests"] : table["requests"][n] = Row(c, "requests", i)
      BY <3>1 DEF Placed
    <3>. QED BY <3>2, RowParts DEF Stored
  <2>3. ASSUME NEW c \in Calls, success[c] > 0 PROVE Stored(c) # {}
    <3>1. Total(c, "requests") \in Nat /\ Total(c, "requests") > 0
      BY <2>3, Totals DEF IInv, CallInv
    <3>2. 1 \in 1 .. Total(c, "requests")
      BY <3>1
    <3>. QED BY <2>2, <2>3, <3>2
  <2>4. ASSUME NEW c \in Calls, Stored(c) # {}
        PROVE  /\ {table["requests"][n].pos : n \in Stored(c)} = 1 .. Total(c, "requests")
               /\ success[c] > 0
    <3>1. success[c] > 0
      BY <2>1, <2>4
    <3>. QED BY <2>1, <2>2, <3>1
  <2>5. ASSUME NEW c \in Calls, NEW m \in Stored(c), NEW n \in Stored(c),
               table["requests"][m].pos = table["requests"][n].pos
        PROVE  m = n
    BY <2>1, <2>5 DEF IInv, RequestsOwned
  <2>6. ASSUME NEW c \in Calls PROVE success[c] > 0 <=> Stored(c) # {}
    BY <2>3, <2>4
  <2>. QED BY <2>4, <2>5, <2>6 DEF AllOrNothing
<1>. QED BY <1>1, Inductive, PTL

(* Contents nobody refers to have one of the known reasons.                *)
THEOREM OrphansHaveReasons == Spec => []OrphansExplained
<1>1. IInv => OrphansExplained
  <2>. SUFFICES ASSUME IInv, NEW m \in 1 .. committed["contents"],
                       NEW k, k = table["contents"][m],
                       k.pos \in {Recipients[k.call][i] : i \in 1 .. Total(k.call, "requests")},
                       Stored(k.call) # {} \/ (pc[k.call] = "ok" /\ success[k.call] # 0)
                PROVE  \E n \in Stored(k.call) : table["requests"][n].content = Narrow(m)
    BY DEF OrphansExplained
  <2>1. PICK c \in Calls : /\ pc[c] \in PastContents
                           /\ \E i \in 1 .. Total(c, "contents") :
                                 k = Row(c, "contents", i) /\ ids[c]["contents"][i] = Narrow(m)
    BY DEF IInv, ContentsOwned
  <2>2. k.call = c /\ ids[c]["contents"][k.pos] = Narrow(m)
    BY <2>1, RowParts
  <2>3. success[c] > 0
    <3>1. CASE Stored(c) # {}
      <4>1. PICK n \in 1 .. committed["requests"] : table["requests"][n].call = c
        BY <3>1 DEF Stored
      <4>. QED BY <4>1, RowParts DEF IInv, RequestsOwned
    <3>2. CASE pc[c] = "ok" /\ success[c] # 0
      BY <3>2 DEF IInv, CallInv, TypeOK
    <3>. QED BY <2>2, <3>1, <3>2
  <2>4. PICK j \in 1 .. Total(c, "requests") : Recipients[c][j] = k.pos
    BY <2>2
  <2>5. PICK n \in 1 .. committed["requests"] : table["requests"][n] = Row(c, "requests", j)
    BY <2>3 DEF IInv, CallInv, Placed
  <2>. QED BY <2>2, <2>4, <2>5, RowParts DEF Stored
<1>. QED BY <1>1, Inductive, PTL
=============================================================================
