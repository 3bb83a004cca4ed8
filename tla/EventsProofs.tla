---------------------------- MODULE EventsProofs ----------------------------
(***************************************************************************)
(* Proofs about Events, for any requests, kinds and numbers of copies: a   *)
(* result row belongs to an email that was sent, a notification is lost    *)
(* only by a lookup that failed or came too early, and the two counts of   *)
(* get_topic add up although they are not one snapshot.                    *)
(***************************************************************************)
EXTENDS Events, FiniteSetTheorems, TLAPS

-----------------------------------------------------------------------------
(* The strengthening.  A message id is that of a copy of its own request,  *)
(* and only a Sent row has one; ...                                        *)
IdsOwn ==
    \A r \in Requests :
       /\ \A id \in message_id[r] : id[1] = r
       /\ status[r] # "Sent" => message_id[r] = {}

(* ... a post that is being saved was found by that id, is one of its kind *)
(* and is still posted until it is answered.                               *)
SavingFound ==
    \A s \in saving :
       /\ s.note \in sns
       /\ s.note.id \in message_id[s.request]
       /\ status[s.request] = "Sent"
       /\ \A q \in saving : q.note = s.note => q = s

(* ... and a post not found in a row that was Sent names a copy that row   *)
(* will never have.                                                        *)
UnfoundForGood ==
    \A u \in unfound : u.sent =>
       status[u.note.id[1]] = "Sent" /\ u.note.id \notin message_id[u.note.id[1]]

IInv ==
    /\ TypeOK /\ IdsOwn /\ SavingFound /\ UnfoundForGood /\ sns \subseteq emitted
    /\ ResultsOfOwnEmail /\ LostOnlyUnfound

LEMMA InitIInv == Init => IInv
<1>. SUFFICES ASSUME Init PROVE IInv
  OBVIOUS
<1>. USE EventsAssumption
<1>1. TypeOK
  BY DEF Init, TypeOK, NoRow, Events
<1>2. ResultsOfOwnEmail
  BY DEF Init, ResultsOfOwnEmail, Events
<1>. QED BY <1>1, <1>2 DEF Init, IInv, IdsOwn, SavingFound, UnfoundForGood, LostOnlyUnfound

-----------------------------------------------------------------------------
(* What the parts depend on.                                               *)
LEMMA Unchanged ==
    ASSUME IInv, UNCHANGED <<rowVars, emitted, postVars>>, topic' \in SUBSET Topics,
           copies' \in [Requests -> 0 .. MaxCopies], faults' \in Nat
    PROVE  IInv'
BY DEF IInv, TypeOK, IdsOwn, SavingFound, UnfoundForGood, ResultsOfOwnEmail, LostOnlyUnfound,
       Unfound, rowVars, postVars, Rows

(* A row moves only while it is not Sent: nothing is known of it yet.      *)
LEMMA MoveKeeps ==
    ASSUME IInv, NEW r \in Requests, NEW from \in {"Absent", "Created", "Processed"},
           NEW to \in Statuses \ {"Sent"}, Move(r, from, to)
    PROVE  IInv'
<1>1. /\ status' = [status EXCEPT ![r] = to] /\ status[r] = from
      /\ UNCHANGED <<message_id, results, copies, emitted, sns, saving, unfound, topic, faults>>
  BY DEF Move, sesVars, postVars, topicVars
<1>2. Rows \subseteq Rows'
  BY <1>1 DEF Rows, IInv, TypeOK, Statuses
<1>3. TypeOK'
  BY <1>1, <1>2 DEF IInv, TypeOK
<1>4. \A x \in Requests : status[x] = "Sent" <=> status'[x] = "Sent"
  BY <1>1 DEF IInv, TypeOK
<1>5. \A s \in saving : s.request \in Requests
  BY DEF IInv, TypeOK, Rows
<1>6. \A u \in unfound : u.note.id[1] \in Requests
  BY DEF IInv, TypeOK, Notifications, MessageIds
<1>. QED BY <1>1, <1>3, <1>4, <1>5, <1>6
         DEF IInv, IdsOwn, SavingFound, UnfoundForGood, ResultsOfOwnEmail, LostOnlyUnfound, Unfound

(* The row learns the id of one of its copies when it becomes Sent.        *)
LEMMA WriteKeeps ==
    ASSUME IInv, NEW r \in Requests, status[r] = "Processed",
           NEW c \in 1 .. copies[r], message_id' = [message_id EXCEPT ![r] = {<<r, c>>}],
           status' = [status EXCEPT ![r] = "Sent"],
           UNCHANGED <<results, sesVars, postVars, topicVars, faults>>
    PROVE  IInv'
<1>1. UNCHANGED <<results, copies, emitted, sns, saving, unfound, topic, faults>>
  BY DEF sesVars, postVars, topicVars
<1>2. Rows \subseteq Rows'
  BY DEF Rows, IInv, TypeOK
<1>3. <<r, c>> \in MessageIds
  BY EventsAssumption DEF MessageIds, IInv, TypeOK
<1>4. TypeOK'
  BY <1>1, <1>2, <1>3 DEF IInv, TypeOK, Statuses
<1>5. message_id[r] = {} /\ \A k \in Kinds : ~(results[r][k] > 0)
  BY DEF IInv, IdsOwn, ResultsOfOwnEmail
<1>6. \A x \in Requests : x # r => status'[x] = status[x] /\ message_id'[x] = message_id[x]
  BY DEF IInv, TypeOK
<1>7. IdsOwn'
  BY <1>6 DEF IInv, IdsOwn, TypeOK
<1>8. SavingFound'
  <2>1. \A s \in saving : s.request \in Requests /\ s.request # r
    BY <1>5 DEF IInv, TypeOK, SavingFound, Rows
  <2>. QED BY <1>1, <1>6, <2>1 DEF IInv, SavingFound
<1>9. ResultsOfOwnEmail'
  BY <1>1, <1>5, <1>6 DEF IInv, ResultsOfOwnEmail
<1>10. ASSUME NEW u \in unfound, u.sent
       PROVE  /\ status'[u.note.id[1]] = "Sent" /\ u.note.id[1] # r
              /\ u.note.id \notin message_id'[u.note.id[1]]
  <2>1. u.note.id[1] \in Requests
    BY DEF IInv, TypeOK, Notifications, MessageIds
  <2>2. status[u.note.id[1]] = "Sent" /\ u.note.id \notin message_id[u.note.id[1]]
    BY <1>10 DEF IInv, UnfoundForGood
  <2>. QED BY <1>6, <2>1, <2>2
<1>11. UnfoundForGood' /\ LostOnlyUnfound'
  BY <1>1, <1>10 DEF IInv, UnfoundForGood, LostOnlyUnfound, Unfound
<1>. QED BY <1>1, <1>4, <1>7, <1>8, <1>9, <1>11 DEF IInv

-----------------------------------------------------------------------------
LEMMA NotifyKeeps ==
    ASSUME IInv, NEW n \in Notifications, Notify(n)
    PROVE  IInv'
<1>1. /\ emitted' = emitted \cup {n} /\ sns' = sns \cup {n}
      /\ UNCHANGED <<status, message_id, results, copies, saving, unfound, topic, faults>>
  BY DEF Notify, rowVars, topicVars
<1>. QED BY <1>1 DEF IInv, TypeOK, Rows, IdsOwn, SavingFound, UnfoundForGood,
                     ResultsOfOwnEmail, LostOnlyUnfound, Unfound

(* An error answer gives a post up only if SNS does not retry it.          *)
LEMMA ErrorAnswer ==
    ASSUME NEW n, NEW e \in {"NotFound", "Database"}, AnswerError(n, e)
    PROVE  /\ sns' \in {sns, sns \ {n}}
           /\ e = "Database" /\ "500" \in RetriedCodes => sns' = sns
<1>1. StatusCode["Database"] = "500"
  BY DEF StatusCode
<1>. QED BY <1>1 DEF AnswerError

(* A post that is answered by an error: SNS keeps it, or its notification  *)
(* was not found (u), or SNS does not retry a 500.                         *)
LEMMA Refused ==
    ASSUME IInv, NEW n \in Notifications, sns' \in {sns, sns \ {n}}, saving' \in SUBSET saving,
           \A s \in saving' : s.note # n,
           NEW sent \in BOOLEAN,
           sent => status[n.id[1]] = "Sent" /\ n.id \notin message_id[n.id[1]],
           unfound' \in {unfound, unfound \cup {[note |-> n, sent |-> sent]}},
           \/ n \in sns'
           \/ unfound' = unfound \cup {[note |-> n, sent |-> sent]}
           \/ "500" \notin RetriedCodes,
           UNCHANGED <<rowVars, sesVars, topicVars>>, faults' \in Nat
    PROVE  IInv'
<1>1. UNCHANGED <<status, message_id, results, copies, emitted, topic>>
  BY DEF rowVars, sesVars, topicVars
<1>2. sns' \subseteq sns
  OBVIOUS
<1>3. TypeOK'
  BY <1>1, <1>2 DEF IInv, TypeOK, Rows
<1>4. UnfoundForGood'
  BY <1>1 DEF IInv, UnfoundForGood
<1>5. LostOnlyUnfound'
  <2>1. SUFFICES ASSUME "500" \in RetriedCodes, NEW m \in emitted, m \notin sns',
                        ~(results[m.id[1]][m.kind] > 0)
                 PROVE  Unfound(m)'
    BY <1>1 DEF LostOnlyUnfound
  <2>2. CASE m \notin sns
    <3>1. Unfound(m)
      BY <2>1, <2>2 DEF IInv, LostOnlyUnfound
    <3>. QED BY <1>1, <3>1 DEF Unfound
  <2>3. CASE m \in sns
    <3>1. m = n /\ [note |-> n, sent |-> sent] \in unfound'
      BY <2>1, <2>3
    <3>2. ~([note |-> n, sent |-> sent]).sent \/ n.id \notin message_id[n.id[1]]
      OBVIOUS
    <3>. QED BY <1>1, <3>1, <3>2 DEF Unfound
  <2>. QED BY <2>2, <2>3
<1>. QED BY <1>1, <1>2, <1>3, <1>4, <1>5 DEF IInv, IdsOwn, SavingFound, ResultsOfOwnEmail

LEMMA LookupKeeps ==
    ASSUME IInv, NEW n \in Notifications, Lookup(n)
    PROVE  IInv'
<1>1. Posted(n) /\ UNCHANGED <<rowVars, sesVars, topicVars>> /\ faults \in Nat
  BY DEF Lookup, IInv, TypeOK
<1>2. ASSUME NEW sent \in BOOLEAN, NotFound(n, sent), faults' \in {faults, faults + 1},
             sent => status[n.id[1]] = "Sent" /\ n.id \notin message_id[n.id[1]]
      PROVE  IInv'
  <2>1. /\ sns' \in {sns, sns \ {n}} /\ saving' = saving
        /\ unfound' \in {unfound, unfound \cup {[note |-> n, sent |-> sent]}}
        /\ n \in sns' \/ unfound' = unfound \cup {[note |-> n, sent |-> sent]}
    BY <1>2, ErrorAnswer DEF NotFound
  <2>2. \A s \in saving' : s.note # n
    BY <1>1, <2>1 DEF Posted
  <2>. QED BY <1>1, <1>2, <2>1, <2>2, Refused
<1>3. ASSUME NEW r \in RequestsOf(n.id), saving' = saving \cup {[note |-> n, request |-> r]},
             UNCHANGED <<sns, unfound, faults>>
      PROVE  IInv'
  <2>1. UNCHANGED <<status, message_id, results, copies, emitted, topic, Rows>>
    BY <1>1 DEF rowVars, sesVars, topicVars, Rows
  <2>2. r \in Rows /\ r \in Requests /\ n.id \in message_id[r] /\ n \in sns
    BY <1>1 DEF RequestsOf, Posted, Rows
  <2>3. TypeOK'
    BY <1>3, <2>1, <2>2 DEF IInv, TypeOK
  <2>4. status[r] = "Sent"
    BY <2>2 DEF IInv, IdsOwn
  <2>5. SavingFound'
    <3>1. \A s \in saving : s.note # n
      BY <1>1 DEF Posted
    <3>. QED BY <1>3, <2>1, <2>2, <2>4, <3>1 DEF IInv, SavingFound
  <2>. QED BY <1>3, <2>1, <2>3, <2>5
           DEF IInv, IdsOwn, UnfoundForGood, ResultsOfOwnEmail, LostOnlyUnfound, Unfound
<1>4. CASE RequestsOf(n.id) = {} /\ NotFound(n, status[n.id[1]] = "Sent") /\ UNCHANGED faults
  <2>1. n.id[1] \in Requests
    BY DEF Notifications, MessageIds
  <2>2. status[n.id[1]] = "Sent" => n.id \notin message_id[n.id[1]]
    BY <1>4, <2>1 DEF RequestsOf, Rows
  <2>. QED BY <1>2, <1>4, <2>2
<1>5. CASE Fault /\ NotFound(n, FALSE)
  BY <1>2, <1>5 DEF Fault
<1>. QED BY <1>3, <1>4, <1>5 DEF Lookup

-----------------------------------------------------------------------------
(* A new row of results leaves those there are.                            *)
LEMMA Added ==
    ASSUME IInv, NEW r \in Requests, NEW k \in Events, AddResult(r, k)
    PROVE  /\ results' \in [Requests -> [Events -> Nat]]
           /\ results'[r][k] > 0
           /\ \A x \in Requests, l \in Events :
                 /\ results[x][l] > 0 => results'[x][l] > 0
                 /\ x # r \/ l # k => results'[x][l] = results[x][l]
BY DEF AddResult, IInv, TypeOK

LEMMA SaveKeeps ==
    ASSUME IInv, NEW s \in saving, SaveResult(s)
    PROVE  IInv'
<1>1. /\ s.request \in Requests /\ s.note \in Notifications /\ s.note.kind \in Events
      /\ s.note.kind \in Kinds
  BY DEF IInv, TypeOK, Notifications, Rows, Events
<1>2. \A q \in saving \ {s} : q.note # s.note
  BY DEF IInv, SavingFound
<1>3. UNCHANGED <<copies, emitted, unfound, topic>> /\ saving' = saving \ {s} /\ faults \in Nat
  BY DEF SaveResult, sesVars, topicVars, IInv, TypeOK
<1>4. CASE Fault /\ AnswerError(s.note, "Database") /\ UNCHANGED rowVars
  <2>1. /\ sns' \in {sns, sns \ {s.note}}
        /\ "500" \in RetriedCodes => sns' = sns
    BY <1>4, ErrorAnswer
  <2>2. s.note \in sns /\ UNCHANGED <<rowVars, sesVars, topicVars>>
    BY <1>4 DEF IInv, SavingFound, SaveResult
  <2>3. /\ saving' \in SUBSET saving /\ \A q \in saving' : q.note # s.note
        /\ unfound' = unfound /\ faults' \in Nat
        /\ s.note \in sns' \/ "500" \notin RetriedCodes
    BY <1>2, <1>3, <1>4, <2>1, <2>2 DEF Fault
  <2>4. FALSE \in BOOLEAN /\ s.note \in Notifications
    BY <1>1
  <2>. QED BY <2>1, <2>2, <2>3, <2>4, Refused
<1>5. CASE AddResult(s.request, s.note.kind) /\ sns' \in {sns, sns \ {s.note}}
           /\ UNCHANGED faults
  <2>1. UNCHANGED <<status, message_id, Rows>>
    BY <1>5 DEF AddResult, Rows
  <2>2. /\ results' \in [Requests -> [Events -> Nat]]
        /\ results'[s.request][s.note.kind] > 0
        /\ \A x \in Requests, l \in Events :
              /\ results[x][l] > 0 => results'[x][l] > 0
              /\ x # s.request \/ l # s.note.kind => results'[x][l] = results[x][l]
    BY <1>1, <1>5, Added
  <2>3. s.note.id \in message_id[s.request] /\ s.note.id[1] = s.request
        /\ s.note \in emitted /\ status[s.request] = "Sent"
    BY <1>1 DEF IInv, SavingFound, IdsOwn
  <2>4. TypeOK'
    BY <1>3, <1>5, <2>1, <2>2 DEF IInv, TypeOK
  <2>5. SavingFound'
    BY <1>2, <1>3, <1>5, <2>1 DEF IInv, SavingFound
  <2>6. ResultsOfOwnEmail'
    <3>1. Kinds \subseteq Events
      BY DEF Events
    <3>2. ASSUME NEW x \in Requests, NEW l \in Kinds, results'[x][l] > 0
          PROVE  /\ status'[x] = "Sent"
                 /\ \E n \in emitted' : n.id \in message_id'[x] /\ n.id[1] = x /\ n.kind = l
      <4>1. CASE x = s.request /\ l = s.note.kind
        BY <1>3, <2>1, <2>3, <4>1
      <4>2. CASE x # s.request \/ l # s.note.kind
        <5>1. results[x][l] > 0
          BY <2>2, <3>1, <3>2, <4>2
        <5>. QED BY <1>3, <2>1, <5>1 DEF IInv, ResultsOfOwnEmail
      <4>. QED BY <4>1, <4>2
    <3>. QED BY <3>2 DEF ResultsOfOwnEmail
  <2>7. LostOnlyUnfound'
    <3>1. SUFFICES ASSUME "500" \in RetriedCodes, NEW n \in emitted, n \notin sns',
                          ~(results'[n.id[1]][n.kind] > 0)
                   PROVE  Unfound(n)
      BY <1>3, <2>1 DEF LostOnlyUnfound, Unfound
    <3>2. n # s.note
      BY <2>2, <2>3, <3>1
    <3>3. n.id[1] \in Requests /\ n.kind \in Events
      BY DEF IInv, TypeOK, Notifications, MessageIds, Events
    <3>4. n \notin sns /\ ~(results[n.id[1]][n.kind] > 0)
      BY <1>5, <2>2, <3>1, <3>2, <3>3
    <3>. QED BY <3>1, <3>4 DEF IInv, LostOnlyUnfound
  <2>8. IdsOwn' /\ UnfoundForGood'
    BY <1>3, <2>1 DEF IInv, IdsOwn, UnfoundForGood
  <2>9. sns' \subseteq emitted'
    BY <1>3, <1>5 DEF IInv
  <2>. QED BY <2>4, <2>5, <2>6, <2>7, <2>8, <2>9 DEF IInv
<1>. QED BY <1>4, <1>5 DEF SaveResult

(* An open is a result of no notification.                                 *)
LEMMA OpenKeeps ==
    ASSUME IInv, NEW r \in Requests, TrackOpen(r)
    PROVE  IInv'
<1>1. UNCHANGED <<status, message_id, copies, emitted, sns, saving, unfound, topic, faults, Rows>>
  BY DEF TrackOpen, AddResult, sesVars, postVars, topicVars, Rows
<1>2. AddResult(r, "Open") /\ "Open" \in Events /\ Kinds \subseteq Events
  BY DEF TrackOpen, Events
<1>3. /\ results' \in [Requests -> [Events -> Nat]]
      /\ \A x \in Requests, l \in Events :
            /\ results[x][l] > 0 => results'[x][l] > 0
            /\ x # r \/ l # "Open" => results'[x][l] = results[x][l]
  BY <1>2, Added
<1>4. TypeOK'
  BY <1>1, <1>3 DEF IInv, TypeOK
<1>5. ResultsOfOwnEmail'
  BY <1>1, <1>2, <1>3, EventsAssumption DEF IInv, ResultsOfOwnEmail
<1>6. LostOnlyUnfound'
  BY <1>1, <1>3 DEF IInv, LostOnlyUnfound, Unfound, TypeOK, Notifications, MessageIds, Events
<1>. QED BY <1>1, <1>4, <1>5, <1>6 DEF IInv, IdsOwn, SavingFound, UnfoundForGood

-----------------------------------------------------------------------------
(* IInv is inductive.                                                      *)
LEMMA NextIInv == IInv /\ [Next]_vars => IInv'
<1>. SUFFICES ASSUME IInv, [Next]_vars PROVE IInv'
  OBVIOUS
<1>1. copies \in [Requests -> 0 .. MaxCopies] /\ topic \in SUBSET Topics /\ faults \in Nat
  BY DEF IInv, TypeOK
<1>2. CASE UNCHANGED vars
  BY <1>1, <1>2, Unchanged DEF vars, rowVars, postVars
<1>3. ASSUME NEW r \in Requests,
             \/ Move(r, "Absent", "Created") \/ Move(r, "Absent", "Processed")
             \/ Move(r, "Created", "Processed") \/ Move(r, "Created", "Stopped")
      PROVE  IInv'
  BY <1>3, MoveKeeps DEF Statuses
<1>4. ASSUME NEW r \in Requests, WriteAnswer(r) PROVE IInv'
  BY <1>4, MoveKeeps, WriteKeeps DEF WriteAnswer, Statuses
<1>5. ASSUME NEW r \in Requests, SesTakes(r) PROVE IInv'
  <2>1. copies' \in [Requests -> 0 .. MaxCopies]
    BY <1>1, <1>5, EventsAssumption DEF SesTakes
  <2>. QED BY <1>1, <1>5, <2>1, Unchanged DEF SesTakes, topicVars
<1>6. ASSUME NEW t \in Topics, AskTopic(t) \/ ReadRequests(t) \/ ReadResults(t) PROVE IInv'
  BY <1>1, <1>6, Unchanged DEF AskTopic, ReadRequests, ReadResults, sesVars
<1>7. CASE AnswerTopic
  BY <1>1, <1>7, Unchanged DEF AnswerTopic, Fault, sesVars
<1>. QED BY <1>2, <1>3, <1>4, <1>5, <1>6, <1>7, NotifyKeeps, LookupKeeps, SaveKeeps,
            OpenKeeps DEF Next

LEMMA Inductive == Spec => []IInv
BY InitIInv, NextIInv, PTL DEF Spec

(* Posts of SNS, repeated, early or late, never give an email a result     *)
(* that is not its own, nor one that was not sent a result at all.         *)
THEOREM OwnResults == Spec => []ResultsOfOwnEmail
<1>1. IInv => ResultsOfOwnEmail
  BY DEF IInv
<1>. QED BY <1>1, Inductive, PTL

(* With SNS taking a 404 as final: what was given up without a result row  *)
(* was not found, and if it is of the copy its row names, the lookup failed *)
(* or came before the row was Sent; nothing that was found is lost.        *)
THEOREM NothingFoundIsLost == Spec => []LostOnlyUnfound
<1>1. IInv => LostOnlyUnfound
  BY DEF IInv
<1>. QED BY <1>1, Inductive, PTL

-----------------------------------------------------------------------------
(* get_topic.  What it has read is related to the rows when it was asked   *)
(* (they are counted in full) and to the rows now (nothing it counted has  *)
(* gone away).                                                             *)
OfTopic(t) == {r \in Requests : TopicOf[r] = t}
Earlier(t) == {r \in OfTopic(t) : before[r] # "Absent"}
SentEarlier(t) == {r \in OfTopic(t) : before[r] = "Sent"}
Having(t, k) == {r \in RowsOf(t) : results[r][k] > 0}

ReadInv ==
    /\ \A t, u \in topic : t = u
    /\ topic = {} => reads = NoRead
    /\ DOMAIN reads = {"requests", "results"}
    /\ \A r \in Requests : topic # {} =>
          /\ before[r] # "Absent" => status[r] # "Absent"
          /\ before[r] = "Sent" => status[r] = "Sent"
    /\ \A t \in topic :
          /\ \A c \in reads.requests :
                /\ c["Sent"] \in Nat /\ Cardinality(SentEarlier(t)) <= c["Sent"]
                /\ SumOf(c) \in Nat /\ Cardinality(Earlier(t)) <= SumOf(c)
          /\ \A d \in reads.results : \A k \in Events :
                d[k] \in Nat /\ d[k] <= Cardinality(Having(t, k))

LEMMA Counts ==
    ASSUME NEW A \in SUBSET Requests, NEW B \in SUBSET Requests, NEW S \in SUBSET (A \cup B)
    PROVE  /\ Cardinality(A) \in Nat /\ Cardinality(B) \in Nat /\ Cardinality(S) \in Nat
           /\ Cardinality(A \cup B) \in Nat
           /\ Cardinality(S) <= Cardinality(A \cup B)
           /\ Cardinality(A \cup B) <= Cardinality(A) + Cardinality(B)
<1>1. IsFiniteSet(A) /\ IsFiniteSet(B)
  BY EventsAssumption, FS_Subset
<1>2. /\ IsFiniteSet(A \cup B) /\ IsFiniteSet(A \cap B)
      /\ Cardinality(A \cup B) = Cardinality(A) + Cardinality(B) - Cardinality(A \cap B)
  <2>1. IsFiniteSet(A \cap B)
    BY <1>1, FS_Subset
  <2>. QED BY <1>1, <2>1, FS_Union
<1>3. IsFiniteSet(S) /\ Cardinality(S) <= Cardinality(A \cup B)
  BY <1>2, FS_Subset
<1>. QED BY <1>1, <1>2, <1>3, FS_CardinalityType

LEMMA Fewer ==
    ASSUME NEW A \in SUBSET Requests, NEW S \in SUBSET A
    PROVE  /\ Cardinality(A) \in Nat /\ Cardinality(S) \in Nat
           /\ Cardinality(S) <= Cardinality(A)
<1>1. A \cup A = A
  OBVIOUS
<1>. QED BY <1>1, Counts

(* A count by status counts every row of the topic there was before.       *)
LEMMA CountsAll ==
    ASSUME IInv, ReadInv, NEW t \in topic, NEW c, c = RequestCounts(t)
    PROVE  /\ c["Sent"] \in Nat /\ Cardinality(SentEarlier(t)) <= c["Sent"]
           /\ SumOf(c) \in Nat /\ Cardinality(Earlier(t)) <= SumOf(c)
<1>. DEFINE S(s) == {r \in RowsOf(t) : status[r] = s}
            D4 == S("Failed") \cup S("Stopped")
            D3 == S("Sent") \cup D4
            D2 == S("Processed") \cup D3
            D1 == S("Created") \cup D2
<1>1. \A s : S(s) \in SUBSET Requests
  BY DEF RowsOf, Rows
<1>2. Earlier(t) \in SUBSET D1 /\ SentEarlier(t) \in SUBSET S("Sent")
  BY DEF ReadInv, IInv, TypeOK, Statuses, Earlier, SentEarlier, OfTopic, RowsOf, Rows
<1>3. /\ c["Created"] = Cardinality(S("Created")) /\ c["Processed"] = Cardinality(S("Processed"))
      /\ c["Sent"] = Cardinality(S("Sent")) /\ c["Failed"] = Cardinality(S("Failed"))
      /\ c["Stopped"] = Cardinality(S("Stopped"))
  BY DEF RequestCounts, Statuses
<1>. HIDE DEF S
<1>4. /\ D4 \in SUBSET Requests /\ D3 \in SUBSET Requests
      /\ D2 \in SUBSET Requests /\ D1 \in SUBSET Requests
  BY <1>1
<1>5. /\ Cardinality(S("Failed")) \in Nat /\ Cardinality(S("Stopped")) \in Nat
      /\ Cardinality(D4) <= Cardinality(S("Failed")) + Cardinality(S("Stopped"))
  BY <1>1, Counts
<1>6. /\ Cardinality(S("Sent")) \in Nat /\ Cardinality(D4) \in Nat
      /\ Cardinality(D3) <= Cardinality(S("Sent")) + Cardinality(D4)
  <2>. HIDE DEF D4
  <2>. QED BY <1>1, <1>4, Counts
<1>7. /\ Cardinality(S("Processed")) \in Nat /\ Cardinality(D3) \in Nat
      /\ Cardinality(D2) <= Cardinality(S("Processed")) + Cardinality(D3)
  <2>. HIDE DEF D3
  <2>. QED BY <1>1, <1>4, Counts
<1>8. /\ Cardinality(S("Created")) \in Nat /\ Cardinality(D2) \in Nat
      /\ Cardinality(D1) <= Cardinality(S("Created")) + Cardinality(D2)
      /\ Cardinality(Earlier(t)) \in Nat /\ Cardinality(Earlier(t)) <= Cardinality(D1)
      /\ Cardinality(D1) \in Nat
  <2>. HIDE DEF D2
  <2>. QED BY <1>1, <1>2, <1>4, Counts
<1>9. Cardinality(SentEarlier(t)) <= Cardinality(S("Sent"))
  BY <1>1, <1>2, Fewer
<1>. HIDE DEF D1, D2, D3, D4
<1>. QED BY <1>3, <1>5, <1>6, <1>7, <1>8, <1>9 DEF SumOf

(* What get_topic has read stays true while the tables change.             *)
LEMMA ReadsStay ==
    ASSUME IInv, ReadInv, UNCHANGED topicVars,
           \A r \in Requests : /\ status[r] # "Absent" => status'[r] # "Absent"
                               /\ status[r] = "Sent" => status'[r] = "Sent"
                               /\ \A k \in Events : results[r][k] > 0 => results'[r][k] > 0
    PROVE  ReadInv'
<1>1. UNCHANGED <<topic, reads, before>>
  BY DEF topicVars
<1>2. ASSUME NEW t \in topic, NEW k \in Events
      PROVE  /\ Cardinality(Having(t, k)) \in Nat /\ Cardinality(Having(t, k)') \in Nat
             /\ Cardinality(Having(t, k)) <= Cardinality(Having(t, k)')
  <2>1. Having(t, k) \in SUBSET (Having(t, k)') /\ Having(t, k)' \in SUBSET Requests
    BY DEF Having, RowsOf, Rows
  <2>. QED BY <2>1, Fewer
<1>3. ASSUME NEW t \in topic', NEW d \in reads.results', NEW k \in Events
      PROVE  d[k] \in Nat /\ d[k] <= Cardinality(Having(t, k)')
  <2>1. d[k] \in Nat /\ d[k] <= Cardinality(Having(t, k))
    BY <1>1, <1>3 DEF ReadInv
  <2>. QED BY <1>1, <1>2, <1>3, <2>1
<1>4. \A t : Earlier(t)' = Earlier(t) /\ SentEarlier(t)' = SentEarlier(t)
  BY <1>1 DEF Earlier, SentEarlier, OfTopic
<1>5. Events' = Events /\ \A c : SumOf(c)' = SumOf(c)
  BY DEF Events, SumOf
<1>. QED BY <1>1, <1>3, <1>4, <1>5 DEF ReadInv

LEMMA NextRead == IInv /\ ReadInv /\ [Next]_vars => ReadInv'
<1>. SUFFICES ASSUME IInv, ReadInv, [Next]_vars PROVE ReadInv'
  OBVIOUS
<1>1. ASSUME UNCHANGED <<status, results, topicVars>> PROVE ReadInv'
  BY <1>1, ReadsStay
<1>2. CASE UNCHANGED vars
  BY <1>1, <1>2 DEF vars, topicVars
<1>3. ASSUME NEW r \in Requests, NEW to \in Statuses \ {"Sent"},
             \/ Move(r, "Absent", to) \/ Move(r, "Created", to) \/ Move(r, "Processed", to)
      PROVE  ReadInv'
  BY <1>3, ReadsStay DEF Move, IInv, TypeOK, Statuses
<1>4. ASSUME NEW r \in Requests, WriteAnswer(r) PROVE ReadInv'
  <2>1. CASE Move(r, "Processed", "Failed")
    BY <1>3, <2>1 DEF Statuses
  <2>2. CASE /\ status[r] = "Processed" /\ status' = [status EXCEPT ![r] = "Sent"]
             /\ UNCHANGED <<results, topicVars>>
    BY <2>2, ReadsStay DEF IInv, TypeOK
  <2>. QED BY <1>4, <2>1, <2>2 DEF WriteAnswer
<1>5. ASSUME NEW r \in Requests, NEW k \in Events, AddResult(r, k), UNCHANGED topicVars
      PROVE  ReadInv'
  <2>1. UNCHANGED status
    BY <1>5 DEF AddResult
  <2>. QED BY <1>5, <2>1, Added, ReadsStay
<1>6. ASSUME NEW r \in Requests, TrackOpen(r) PROVE ReadInv'
  BY <1>5, <1>6 DEF TrackOpen, Events
<1>7. ASSUME NEW s \in saving, SaveResult(s) PROVE ReadInv'
  <2>1. s.request \in Requests /\ s.note.kind \in Events
    BY DEF IInv, TypeOK, Notifications, Rows, Events
  <2>. QED BY <1>1, <1>5, <1>7, <2>1 DEF SaveResult, rowVars
<1>8. ASSUME NEW r \in Requests, SesTakes(r) PROVE ReadInv'
  BY <1>1, <1>8 DEF SesTakes, rowVars
<1>9. ASSUME NEW n \in Notifications, Notify(n) \/ Lookup(n) PROVE ReadInv'
  BY <1>1, <1>9 DEF Notify, Lookup, rowVars
<1>10. ASSUME NEW t \in Topics, AskTopic(t) PROVE ReadInv'
  <2>1. topic = {} /\ topic' = {t} /\ before' = status /\ status' = status
        /\ reads' = NoRead
    BY <1>10 DEF AskTopic, rowVars, ReadInv
  <2>. QED BY <2>1 DEF ReadInv, NoRead
<1>11. ASSUME NEW t \in Topics, ReadRequests(t) PROVE ReadInv'
  <2>1. /\ t \in topic /\ reads' = [reads EXCEPT !.requests = {RequestCounts(t)}]
        /\ UNCHANGED <<status, results, topic, before>>
    BY <1>11 DEF ReadRequests, rowVars
  <2>2. /\ RequestCounts(t)["Sent"] \in Nat
        /\ Cardinality(SentEarlier(t)) <= RequestCounts(t)["Sent"]
        /\ SumOf(RequestCounts(t)) \in Nat
        /\ Cardinality(Earlier(t)) <= SumOf(RequestCounts(t))
    BY <2>1, CountsAll
  <2>3. /\ reads'.results = reads.results /\ reads'.requests = {RequestCounts(t)}
        /\ DOMAIN reads' = {"requests", "results"}
    BY <2>1 DEF ReadInv
  <2>4. /\ \A u : Earlier(u)' = Earlier(u) /\ SentEarlier(u)' = SentEarlier(u)
        /\ \A u, k : Having(u, k)' = Having(u, k)
        /\ \A c : SumOf(c)' = SumOf(c)
    BY <2>1 DEF Earlier, SentEarlier, OfTopic, Having, RowsOf, Rows, SumOf
  <2>5. \A u \in topic : u = t
    BY <2>1 DEF ReadInv
  <2>. QED BY <2>1, <2>2, <2>3, <2>4, <2>5 DEF ReadInv, Events
<1>12. ASSUME NEW t \in Topics, ReadResults(t) PROVE ReadInv'
  <2>1. /\ t \in topic /\ reads' = [reads EXCEPT !.results = {ResultCounts(t)}]
        /\ UNCHANGED <<status, results, topic, before>>
    BY <1>12 DEF ReadResults, rowVars
  <2>2. ASSUME NEW k \in Events
        PROVE  /\ ResultCounts(t)[k] = Cardinality(Having(t, k))
               /\ Cardinality(Having(t, k)) \in Nat
    <3>1. ResultCounts(t)[k] = Cardinality(Having(t, k))
      BY DEF ResultCounts, Having
    <3>2. Having(t, k) \in SUBSET Requests
      BY DEF Having, RowsOf, Rows
    <3>. QED BY <3>1, <3>2, Fewer
  <2>3. /\ reads'.requests = reads.requests /\ reads'.results = {ResultCounts(t)}
        /\ DOMAIN reads' = {"requests", "results"}
    BY <2>1 DEF ReadInv
  <2>4. /\ \A u : Earlier(u)' = Earlier(u) /\ SentEarlier(u)' = SentEarlier(u)
        /\ \A u, k : Having(u, k)' = Having(u, k)
        /\ \A c : SumOf(c)' = SumOf(c)
    BY <2>1 DEF Earlier, SentEarlier, OfTopic, Having, RowsOf, Rows, SumOf
  <2>5. \A u \in topic : u = t
    BY <2>1 DEF ReadInv
  <2>6. \A d \in reads'.results : \A k \in Events :
           d[k] \in Nat /\ d[k] <= Cardinality(Having(t, k))
    BY <2>2, <2>3
  <2>. QED BY <2>1, <2>3, <2>4, <2>5, <2>6 DEF ReadInv, Events
<1>13. CASE AnswerTopic
  BY <1>13 DEF AnswerTopic, ReadInv, NoRead
<1>. QED BY <1>2, <1>3, <1>4, <1>6, <1>7, <1>8, <1>9, <1>10, <1>11, <1>12, <1>13
         DEF Next, Statuses

(* The two counts of get_topic add up although they are two snapshots.     *)
THEOREM AddsUp == Spec => []TopicAddsUp
<1>1. Init => ReadInv
  BY DEF Init, ReadInv, NoRead
<1>2. IInv /\ ReadInv => TopicAddsUp
  <2>. SUFFICES ASSUME IInv, ReadInv, NEW t \in topic, NEW c \in reads.requests,
                       NEW d \in reads.results
                PROVE  /\ \A k \in Events : d[k] <= SumOf(c)
                             + Cardinality({r \in RowsOf(t) : before[r] = "Absent"})
                       /\ \A k \in Kinds : d[k] <= c["Sent"]
                             + Cardinality({r \in RowsOf(t) : status[r] = "Sent"
                                                              /\ before[r] # "Sent"})
    BY DEF TopicAddsUp
  <2>. DEFINE New == {r \in RowsOf(t) : before[r] = "Absent"}
              NewlySent == {r \in RowsOf(t) : status[r] = "Sent" /\ before[r] # "Sent"}
  <2>1. /\ Earlier(t) \in SUBSET Requests /\ SentEarlier(t) \in SUBSET Requests
        /\ New \in SUBSET Requests /\ NewlySent \in SUBSET Requests
    BY DEF Earlier, SentEarlier, OfTopic, RowsOf, Rows
  <2>2. \A k \in Events : Having(t, k) \in SUBSET (Earlier(t) \cup New)
    BY DEF Having, Earlier, OfTopic, RowsOf, Rows
  <2>3. \A k \in Kinds : Having(t, k) \in SUBSET (SentEarlier(t) \cup NewlySent)
    BY DEF IInv, ResultsOfOwnEmail, Having, SentEarlier, OfTopic, RowsOf, Rows
  <2>4. /\ c["Sent"] \in Nat /\ Cardinality(SentEarlier(t)) <= c["Sent"]
        /\ SumOf(c) \in Nat /\ Cardinality(Earlier(t)) <= SumOf(c)
        /\ \A k \in Events : d[k] \in Nat /\ d[k] <= Cardinality(Having(t, k))
    BY DEF ReadInv
  <2>. HIDE DEF New, NewlySent
  <2>5. ASSUME NEW k \in Events PROVE d[k] <= SumOf(c) + Cardinality(New)
    <3>1. /\ Cardinality(Having(t, k)) \in Nat /\ Cardinality(Earlier(t)) \in Nat
          /\ Cardinality(New) \in Nat /\ Cardinality(Earlier(t) \cup New) \in Nat
          /\ Cardinality(Having(t, k)) <= Cardinality(Earlier(t) \cup New)
          /\ Cardinality(Earlier(t) \cup New) <= Cardinality(Earlier(t)) + Cardinality(New)
      BY <2>1, <2>2, Counts
    <3>. QED BY <2>4, <3>1
  <2>6. ASSUME NEW k \in Kinds PROVE d[k] <= c["Sent"] + Cardinality(NewlySent)
    <3>1. /\ Cardinality(Having(t, k)) \in Nat /\ Cardinality(SentEarlier(t)) \in Nat
          /\ Cardinality(NewlySent) \in Nat
          /\ Cardinality(SentEarlier(t) \cup NewlySent) \in Nat
          /\ Cardinality(Having(t, k)) <= Cardinality(SentEarlier(t) \cup NewlySent)
          /\ Cardinality(SentEarlier(t) \cup NewlySent)
                <= Cardinality(SentEarlier(t)) + Cardinality(NewlySent)
      BY <2>1, <2>3, Counts
    <3>2. k \in Events
      BY DEF Events
    <3>. QED BY <2>4, <3>1, <3>2
  <2>. QED BY <2>5, <2>6 DEF New, NewlySent
<1>. QED BY <1>1, <1>2, NextRead, Inductive, PTL DEF Spec
=============================================================================
