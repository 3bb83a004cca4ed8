------------------------------- MODULE Ingest -------------------------------
(***************************************************************************)
(* How create_message stores what a client sends: the contents, one per    *)
(* message, in one transaction, then the requests, one per recipient, in   *)
(* another.  Both are inserted in chunks, and the ids of a chunk are       *)
(* computed backwards from last_insert_rowid() and narrowed to i32.        *)
(* A commit is one step and what the handler does after it another: its    *)
(* client may go away in between, at the await of the commit or while the  *)
(* handler queues what it saved (the queueing itself is in Pipeline).      *)
(*                                                                         *)
(* Several calls run at a time.  SQLite lets one connection write at a     *)
(* time: its transaction holds the write lock from its first insert until  *)
(* it commits or rolls back, and only then do others see its rows.         *)
(* AUTOINCREMENT numbers the rows, and a rollback takes the numbers back.  *)
(***************************************************************************)
EXTENDS Integers, Sequences

CONSTANTS
    Calls,          \* calls of create_message; each is one HTTP request
    Messages,       \* how many messages each call has
    Recipients,     \* the recipients of each call, in the order of flat_map:
                    \* which of its messages each of them is to get
    ChunkSize,      \* BATCH_INSERT_SIZE
    MaxEmails,      \* MAX_EMAILS_PER_REQUEST
    MaxId           \* the largest i32

ASSUME PayloadAssumption ==
    /\ DOMAIN Messages = Calls /\ DOMAIN Recipients = Calls
    /\ \A c \in Calls : /\ Messages[c] \in Nat
                        /\ Recipients[c] \in Seq(1 .. Messages[c])
ASSUME IngestAssumption == {ChunkSize, MaxEmails, MaxId} \subseteq Nat \ {0}

VARIABLES
    table,          \* the rows of each table by id, the writer's included
    size,           \* sqlite_sequence: the last id given out
    committed,      \* the last id that other connections see
    locked,         \* the call that holds the write lock, if any
    pc,             \* the table a call is filling or has saved, or how it ended
    done,           \* values inserted into that table whose ids are known
    fresh,          \* values of the chunk whose ids are still to be read
    lastId,         \* last_insert_rowid() of the call's connection
    ids,            \* the ids computed for the values of each table
    success         \* the count a call has to report, -1 before it has one

dbVars == <<table, size, committed, locked>>
callVars == <<pc, done, fresh, lastId, ids, success>>
vars == <<dbVars, callVars>>

Tables == {"contents", "requests"}
Saved == {"contentsSaved", "requestsSaved"}
Answered == {"ok", "400", "500"}
Ended == Answered \cup {"gone"}

Total(c, t) == IF t = "contents" THEN Messages[c] ELSE Len(Recipients[c])

\* as i32
Narrow(n) == ((n + MaxId + 1) % (2 * (MaxId + 1))) - (MaxId + 1)

\* Mutant: all recipients get the content of the first message.
ContentOfFirst(c, i) == ids[c]["contents"][1]

\* The zip of messages and saved contents.
ContentOf(c, i) == ids[c]["contents"][Recipients[c][i]]

\* The i-th row a call puts into a table; addresses are told apart by pos.
Row(c, t, i) ==
    [call |-> c, pos |-> i, content |-> IF t = "contents" THEN 0 ELSE ContentOf(c, i)]

NoIds == [t \in Tables |-> <<>>]

Init ==
    /\ table = [t \in Tables |-> <<>>]
    /\ size = [t \in Tables |-> 0]
    /\ committed = [t \in Tables |-> 0]
    /\ locked = {}
    /\ pc = [c \in Calls |-> "new"]
    /\ done = [c \in Calls |-> 0]
    /\ fresh = [c \in Calls |-> 0]
    /\ lastId = [c \in Calls |-> 0]
    /\ ids = [c \in Calls |-> NoIds]
    /\ success = [c \in Calls |-> -1]

-----------------------------------------------------------------------------
(* The two save_batch functions.                                           *)

\* One multi-row INSERT; the first one of the transaction takes the lock.
InsertChunk(c, t, k) ==
    /\ pc[c] = t /\ fresh[c] = 0 /\ done[c] < Total(c, t)
    /\ k = IF Total(c, t) - done[c] < ChunkSize THEN Total(c, t) - done[c] ELSE ChunkSize
    /\ locked \subseteq {c} /\ locked' = {c}
    /\ table' = [table EXCEPT ![t] = [n \in 1 .. size[t] + k |->
                    IF n <= size[t] THEN @[n] ELSE Row(c, t, done[c] + n - size[t])]]
    /\ size' = [size EXCEPT ![t] = @ + k]
    /\ fresh' = [fresh EXCEPT ![c] = k]
    /\ lastId' = [lastId EXCEPT ![c] = size[t] + k]
    /\ UNCHANGED <<committed, pc, done, ids, success>>

\* Mutant: the chunk is counted back one id too far.
ChunkIdOffByOne(last, k, j) == Narrow(last - (k - j) - 1)

ChunkId(last, k, j) == Narrow(last - (k - j))

TakeIds(c, t) ==
    /\ pc[c] = t /\ fresh[c] > 0
    /\ ids' = [ids EXCEPT ![c][t] = [i \in 1 .. done[c] + fresh[c] |->
                  IF i <= done[c] THEN @[i] ELSE ChunkId(lastId[c], fresh[c], i - done[c])]]
    /\ done' = [done EXCEPT ![c] = @ + fresh[c]]
    /\ fresh' = [fresh EXCEPT ![c] = 0]
    /\ UNCHANGED <<dbVars, pc, lastId, success>>

AllInserted(c, t) == pc[c] = t /\ fresh[c] = 0 /\ done[c] = Total(c, t)

Commit(t) ==
    /\ committed' = [committed EXCEPT ![t] = size[t]]
    /\ locked' = {}
    /\ UNCHANGED <<table, size>>

\* Mutants: the transaction stays open; it is committed; only the rows go.
KeepOpen(c) == UNCHANGED dbVars

KeepRows(c) ==
    IF locked = {c}
    THEN committed' = size /\ locked' = {} /\ UNCHANGED <<table, size>>
    ELSE UNCHANGED dbVars

KeepNumbers(c) ==
    IF locked = {c}
    THEN /\ table' = [t \in Tables |-> [n \in 1 .. committed[t] |-> table[t][n]]]
         /\ locked' = {}
         /\ UNCHANGED <<committed, size>>
    ELSE UNCHANGED dbVars

\* Dropping the transaction rolls it back.
Rollback(c) ==
    IF locked = {c}
    THEN /\ table' = [t \in Tables |-> [n \in 1 .. committed[t] |-> table[t][n]]]
         /\ size' = committed
         /\ locked' = {}
         /\ UNCHANGED committed
    ELSE UNCHANGED dbVars

-----------------------------------------------------------------------------
(* create_message.                                                         *)
Goto(c, where, n) ==
    /\ pc' = [pc EXCEPT ![c] = where]
    /\ success' = [success EXCEPT ![c] = n]
    /\ UNCHANGED <<done, fresh, lastId, ids>>

Receive(c) ==
    /\ pc[c] = "new"
    /\ Goto(c, IF Messages[c] = 0 THEN "400" ELSE "contents", -1)
    /\ UNCHANGED dbVars

CommitContents(c) ==
    /\ AllInserted(c, "contents")
    /\ Commit("contents")
    /\ Goto(c, "contentsSaved", -1)

\* Only now the number of recipients is looked at.  Without recipients the
\* second save_batch has nothing to do.
SavedContents(c) ==
    /\ pc[c] = "contentsSaved"
    /\ IF Total(c, "requests") > MaxEmails THEN Goto(c, "400", -1)
       ELSE IF Total(c, "requests") = 0 THEN Goto(c, "ok", 0)
       ELSE /\ pc' = [pc EXCEPT ![c] = "requests"]
            /\ done' = [done EXCEPT ![c] = 0]
            /\ UNCHANGED <<fresh, lastId, ids, success>>
    /\ UNCHANGED dbVars

\* Mutant: a commit that fails is taken for done.
CommitRequestsUnchecked(c) ==
    /\ AllInserted(c, "requests")
    /\ Rollback(c)
    /\ Goto(c, "requestsSaved", Total(c, "requests"))

CommitRequests(c) ==
    /\ AllInserted(c, "requests")
    /\ Commit("requests")
    /\ Goto(c, "requestsSaved", Total(c, "requests"))

\* What is to be sent at once is queued, then the response is given.
Respond(c) ==
    /\ pc[c] = "requestsSaved"
    /\ Goto(c, "ok", success[c])
    /\ UNCHANGED dbVars

\* A statement fails, or the lock is not to be had in time: 500 for the
\* contents, and a response that counts errors for the requests.
StatementFails(c) ==
    /\ pc[c] \in Tables
    /\ Rollback(c)
    /\ IF pc[c] = "contents" THEN Goto(c, "500", -1) ELSE Goto(c, "ok", 0)

\* The client disconnects, and the handler is dropped at the await it is in:
\* with its transaction, or after a commit that stays.
Disconnect(c) ==
    /\ pc[c] \in Tables \cup Saved
    /\ Rollback(c)
    /\ Goto(c, "gone", success[c])

-----------------------------------------------------------------------------
StoreStep(c) ==
    \/ \E t \in Tables : TakeIds(c, t) \/ \E k \in 1 .. ChunkSize : InsertChunk(c, t, k)
    \/ CommitContents(c) \/ SavedContents(c) \/ CommitRequests(c) \/ Respond(c)

Next == \E c \in Calls : \/ Receive(c) \/ StoreStep(c)
                         \/ StatementFails(c) \/ Disconnect(c)

Spec == Init /\ [][Next]_vars

(* The handler runs; SQLite gives a waiting connection the lock or an error. *)
FairSpec == Spec /\ \A c \in Calls : WF_vars(Receive(c) \/ StoreStep(c))

-----------------------------------------------------------------------------
TypeOK ==
    /\ size \in [Tables -> Nat] /\ committed \in [Tables -> Nat]
    /\ DOMAIN table = Tables
    /\ \A t \in Tables : DOMAIN table[t] = 1 .. size[t]
    /\ locked \in SUBSET Calls
    /\ pc \in [Calls -> {"new"} \cup Tables \cup Saved \cup Ended]
    /\ done \in [Calls -> Nat] /\ fresh \in [Calls -> Nat] /\ lastId \in [Calls -> Nat]
    /\ DOMAIN ids = Calls /\ \A c \in Calls : DOMAIN ids[c] = Tables
    /\ success \in [Calls -> Int]

InRange(t) == size[t] <= MaxId

(* The id computed for a value is the id of the row that holds it, however *)
(* the chunks of several calls interleave, as long as the ids fit an i32.  *)
(* The sender and the post-processor address rows by these ids alone.      *)
IdsNameOwnRows ==
    \A c \in Calls, t \in Tables :
       pc[c] \in Tables \cup Saved \cup {"ok"} /\ success[c] # 0 /\ InRange(t) =>
          \A i \in DOMAIN ids[c][t] :
             /\ ids[c][t][i] \in 1 .. size[t]
             /\ table[t][ids[c][t][i]] = Row(c, t, i)

(* A stored request refers to the stored content of its own message.       *)
OwnContent ==
    InRange("contents") =>
       \A n \in 1 .. committed["requests"] :
          LET r == table["requests"][n]
          IN  /\ r.content \in 1 .. committed["contents"]
              /\ table["contents"][r.content] =
                    [call |-> r.call, pos |-> Recipients[r.call][r.pos], content |-> 0]

Stored(c) == {n \in 1 .. committed["requests"] : table["requests"][n].call = c}

(* The requests of a call are stored all or not at all, none twice: no     *)
(* fault and no disconnect between two chunks leaves a part behind.  A     *)
(* response tells which; a client that left before it has to reckon with   *)
(* both, as its handler may have been dropped after the commit.            *)
AllOrNothing ==
    /\ \A c \in Calls : Stored(c) # {} =>
          /\ {table["requests"][n].pos : n \in Stored(c)} = 1 .. Total(c, "requests")
          /\ \A m, n \in Stored(c) :
                table["requests"][m].pos = table["requests"][n].pos => m = n
    /\ \A c \in Calls : pc[c] \in Answered => (success[c] > 0 <=> Stored(c) # {})

(* Contents without a request come only from calls that did not store any  *)
(* request, or not yet (too many recipients, a fault, a disconnect before  *)
(* the second commit), or from messages without recipients: nothing ever   *)
(* removes them.                                                           *)
OrphansExplained ==
    \A m \in 1 .. committed["contents"] :
       LET k == table["contents"][m]
       IN  \/ k.pos \notin {Recipients[k.call][i] : i \in 1 .. Total(k.call, "requests")}
           \/ Stored(k.call) = {} /\ (pc[k.call] = "ok" => success[k.call] = 0)
           \/ \E n \in Stored(k.call) : table["requests"][n].content = Narrow(m)

(* Every call is answered, or gone: the write lock is always handed on.    *)
EveryCallEnds == \A c \in Calls : pc[c] = "contents" ~> pc[c] \in Ended
=============================================================================
