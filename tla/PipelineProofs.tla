--------------------------- MODULE PipelineProofs ---------------------------
(***************************************************************************)
(* The safety of Pipeline for any number of requests, handlers, topics,    *)
(* any buffer sizes and any disruptions; what RequestLifecycle promises,   *)
(* and that Pipeline implements it.                                        *)
(***************************************************************************)
EXTENDS Pipeline, SequenceTheorems, TLAPS

\* Every step expands the variables it leaves alone.
USE DEF tableVars, history, handlerVars, schedulerVars, senderVars, postVars

(* What the two ends of a channel do to the set of things in it.           *)
LEMMA EmptyChannel == Range(<<>>) = {} /\ IsInjective(<<>>)
  BY DEF Range, IsInjective

LEMMA AppendChannel ==
  ASSUME NEW S, NEW s \in Seq(S), NEW e \in S
  PROVE  /\ Append(s, e) \in Seq(S)
         /\ Range(Append(s, e)) = Range(s) \cup {e}
         /\ IsInjective(s) /\ e \notin Range(s) => IsInjective(Append(s, e))
  <1>1. /\ Append(s, e) \in Seq(S)
        /\ Len(s) \in Nat
        /\ DOMAIN s = 1 .. Len(s)
        /\ DOMAIN Append(s, e) = 1 .. Len(s) + 1
        /\ \A i \in 1 .. Len(s) : Append(s, e)[i] = s[i]
        /\ Append(s, e)[Len(s) + 1] = e
    OBVIOUS
  <1>2. Range(Append(s, e)) = Range(s) \cup {e}
    BY <1>1 DEF Range
  <1>3. ASSUME IsInjective(s), e \notin Range(s) PROVE IsInjective(Append(s, e))
    BY <1>3 DEF Range, IsInjective
  <1>. QED BY <1>1, <1>2, <1>3

LEMMA TailChannel ==
  ASSUME NEW S, NEW s \in Seq(S), s # <<>>
  PROVE  /\ Tail(s) \in Seq(S) /\ Head(s) \in S
         /\ Range(s) = Range(Tail(s)) \cup {Head(s)}
         /\ IsInjective(s) => IsInjective(Tail(s)) /\ Head(s) \notin Range(Tail(s))
  <1>1. /\ Len(s) \in Nat \ {0}
        /\ DOMAIN s = 1 .. Len(s)
        /\ Tail(s) \in Seq(S) /\ Head(s) \in S /\ Head(s) = s[1]
        /\ DOMAIN Tail(s) = 1 .. Len(s) - 1
        /\ \A i \in 1 .. Len(s) - 1 : Tail(s)[i] = s[i + 1]
    BY HeadTailProperties, LenProperties
  <1>2. Range(s) = Range(Tail(s)) \cup {Head(s)}
    <2>1. ASSUME NEW x \in Range(s) PROVE x \in Range(Tail(s)) \cup {Head(s)}
      <3>1. PICK i \in 1 .. Len(s) : x = s[i]
        BY <1>1 DEF Range
      <3>2. CASE i = 1
        BY <3>1, <3>2, <1>1
      <3>3. CASE i # 1
        <4>1. i - 1 \in 1 .. Len(s) - 1 /\ Tail(s)[i - 1] = s[i]
          BY <3>3, <1>1
        <4>. QED BY <3>1, <4>1, <1>1 DEF Range
      <3>. QED BY <3>2, <3>3
    <2>2. ASSUME NEW x \in Range(Tail(s)) PROVE x \in Range(s)
      BY <1>1 DEF Range
    <2>3. Head(s) \in Range(s)
      BY <1>1 DEF Range
    <2>. QED BY <2>1, <2>2, <2>3
  <1>3. ASSUME IsInjective(s) PROVE IsInjective(Tail(s)) /\ Head(s) \notin Range(Tail(s))
    BY <1>3 DEF Range, IsInjective
  <1>. QED BY <1>1, <1>2, <1>3

LEMMA ChannelTypes ==
  ASSUME TypeOK
  PROVE  Range(sendCh) \subseteq Requests /\ Answered \subseteq Results
  BY DEF TypeOK, Range, Answered

(* What a step must do so that no Processed row is forgotten: a row it     *)
(* turns to Processed is on its way out after it, a request that was on    *)
(* its way out still is, or is answered, and an answer is recorded or kept. *)
KeepsTrack ==
    disruptions' = 0 =>
        /\ disruptions = 0
        /\ \A r \in Requests : status'[r] = "Processed" =>
              /\ status[r] = "Processed" \/ r \in Outbound'
              /\ r \in Outbound => r \in Outbound' \/ \E m \in Answered' : m.req = r
        /\ \A m \in Answered : status'[m.req] = "Processed" => m \in Answered'

LEMMA NoOrphanStep ==
  ASSUME NoOrphan, KeepsTrack
  PROVE  NoOrphan'
  <1>. SUFFICES ASSUME disruptions' = 0, NEW r \in Requests, status'[r] = "Processed"
                PROVE  r \in Outbound' \/ \E m \in Answered' : m.req = r
    BY DEF NoOrphan, InFlight, Reqs
  <1>1. CASE r \in Outbound'
    BY <1>1
  <1>2. CASE r \notin Outbound'
    <2>1. r \in Outbound \/ \E m \in Answered : m.req = r
      BY <1>2 DEF KeepsTrack, NoOrphan, InFlight, Reqs
    <2>. QED BY <2>1 DEF KeepsTrack
  <1>. QED BY <1>1, <1>2

(* A step of one handler changes what the handlers hold by its own share.  *)
LEMMA OneHandlerMoves ==
  ASSUME TypeOK, TypeOK', OnePlace, NEW h \in Handlers,
         \A g \in Handlers \ {h} : HeldBy(g)' = HeldBy(g)
  PROVE  WithHandlers' = (WithHandlers \ HeldBy(h)) \cup HeldBy(h)'
  <1>1. \A g \in Handlers : HeldBy(g) \subseteq Requests /\ HeldBy(g)' \subseteq Requests
    BY DEF HeldBy, TypeOK
  <1>. QED BY <1>1 DEF WithHandlers, OnePlace

(* The results keep waiting when neither they nor their rows change.       *)
LEMMA AnswersUntouched ==
  ASSUME IInv, UNCHANGED <<reporting, postCh, batch>>,
         \A r \in Requests : status[r] = "Processed" /\ outcome[r] # "None" =>
            status'[r] = status[r] /\ outcome'[r] = outcome[r]
  PROVE  AnswersWait'
  <1>1. \A m \in Answered : m.req \in Requests /\ m.status # "None"
    BY ChannelTypes DEF IInv, Results
  <1>. QED BY <1>1 DEF IInv, AnswersWait, Answered

LEMMA OutboundRows ==
  ASSUME IInv, NEW r \in Outbound
  PROVE  r \in Requests /\ status[r] = "Processed" /\ outcome[r] = "None" /\ sends[r] = 0
  BY ChannelTypes DEF IInv, TypeOK, RowsAgree, Outbound, WithHandlers

-----------------------------------------------------------------------------
(* Each action preserves the invariant, part by part.  In these proofs     *)
(* <1>share says what the step does to what its handler holds, <1>others   *)
(* what that does to all handlers together, <1>ends what it does to the    *)
(* channel.  First the handlers and the clients.                           *)
LEMMA CreateScheduledInv ==
  ASSUME IInv, NEW h \in Handlers, NEW S \in SUBSET Requests, CreateScheduled(h, S)
  PROVE  IInv'
  <1>. USE DEF IInv, CreateScheduled, Saved, SetStatus
  <1>1. TypeOK'
    BY DEF TypeOK, Statuses
  <1>others. WithHandlers' = WithHandlers /\ \A g \in Handlers : HeldBy(g)' = HeldBy(g)
    BY DEF WithHandlers, HeldBy
  <1>2. HandlersHold' /\ SchedulerHolds' /\ Undisturbed'
    BY <1>others DEF HandlersHold, SchedulerHolds, Undisturbed
  <1>3. RowsAgree'
    BY <1>others DEF RowsAgree, Outbound
  <1>4. OnePlace'
    BY <1>others DEF OnePlace
  <1>5. AnswersWait'
    BY AnswersUntouched
  <1>6. KeepsTrack
    BY <1>others DEF KeepsTrack, Outbound, Answered
  <1>. QED BY <1>1, <1>2, <1>3, <1>4, <1>5, <1>6, NoOrphanStep

LEMMA CreateImmediateInv ==
  ASSUME IInv, NEW h \in Handlers, NEW S \in SUBSET Requests, CreateImmediate(h, S)
  PROVE  IInv'
  <1>. USE DEF IInv, CreateImmediate, Saved, SetStatus
  <1>1. TypeOK'
    BY DEF TypeOK, Statuses
  <1>share. /\ HeldBy(h) = {} /\ HeldBy(h)' = S
            /\ \A g \in Handlers \ {h} : HeldBy(g)' = HeldBy(g)
    BY DEF TypeOK, HandlersHold, HeldBy
  <1>others. /\ WithHandlers' = (WithHandlers \ HeldBy(h)) \cup HeldBy(h)'
             /\ HeldBy(h) \subseteq WithHandlers
    BY <1>1, <1>share, OneHandlerMoves
  <1>2. HandlersHold' /\ SchedulerHolds' /\ Undisturbed'
    BY DEF HandlersHold, SchedulerHolds, Undisturbed, HeldBy, TypeOK
  <1>3. RowsAgree'
    BY <1>share, <1>others DEF RowsAgree, Outbound
  <1>4. OnePlace'
    <2>1. \A q \in Outbound : q \notin S
      BY OutboundRows
    <2>2. \A f, g \in Handlers : f # g => HeldBy(f)' \cap HeldBy(g)' = {}
      BY <1>share, <2>1 DEF OnePlace, Outbound, WithHandlers
    <2>3. WithHandlers' \cap (claimed \cup Range(sendCh) \cup inHand \cup calling) = {}
      BY <1>share, <1>others, <2>1 DEF OnePlace, Outbound
    <2>. QED BY <2>2, <2>3 DEF OnePlace
  <1>5. AnswersWait'
    BY AnswersUntouched
  <1>6. KeepsTrack
    BY <1>share, <1>others DEF KeepsTrack, Outbound, Answered
  <1>. QED BY <1>1, <1>2, <1>3, <1>4, <1>5, <1>6, NoOrphanStep

LEMMA TrySendOkInv ==
  ASSUME IInv, NEW h \in Handlers, NEW r \in Requests, TrySendOk(h, r)
  PROVE  IInv'
  <1>. USE DEF IInv, TrySendOk, Queueing
  <1>ends. /\ Range(sendCh') = Range(sendCh) \cup {r}
           /\ sendCh' \in Seq(Requests)
           /\ IsInjective(sendCh) /\ r \notin Range(sendCh) => IsInjective(sendCh')
    BY AppendChannel DEF TypeOK
  <1>1. TypeOK'
    BY DEF TypeOK
  <1>share. /\ r \in HeldBy(h) /\ HeldBy(h)' = HeldBy(h) \ {r}
            /\ \A g \in Handlers \ {h} : HeldBy(g)' = HeldBy(g)
    BY DEF TypeOK, HandlersHold, HeldBy
  <1>others. /\ WithHandlers' = (WithHandlers \ HeldBy(h)) \cup HeldBy(h)'
             /\ HeldBy(h) \subseteq WithHandlers
    BY <1>1, <1>share, OneHandlerMoves DEF WithHandlers
  <1>2. HandlersHold' /\ SchedulerHolds' /\ Undisturbed'
    BY <1>share DEF HandlersHold, SchedulerHolds, Undisturbed
  <1>3. RowsAgree'
    BY <1>ends, <1>share, <1>others DEF RowsAgree, Outbound
  <1>4. OnePlace'
    <2>1. \A f, g \in Handlers : f # g => HeldBy(f)' \cap HeldBy(g)' = {}
      BY <1>share DEF OnePlace
    <2>2. /\ WithHandlers' \cap (claimed' \cup Range(sendCh') \cup inHand' \cup calling') = {}
          /\ claimed' \cap (Range(sendCh') \cup inHand' \cup calling') = {}
          /\ Range(sendCh') \cap (inHand' \cup calling') = {}
          /\ inHand' \cap calling' = {}
          /\ IsInjective(sendCh')
      BY <1>ends, <1>share, <1>others DEF OnePlace
    <2>. QED BY <2>1, <2>2 DEF OnePlace
  <1>5. AnswersWait'
    BY AnswersUntouched
  <1>6. KeepsTrack
    BY <1>ends, <1>share, <1>others DEF KeepsTrack, Outbound, Answered
  <1>. QED BY <1>1, <1>2, <1>3, <1>4, <1>5, <1>6, NoOrphanStep

LEMMA TrySendFullInv ==
  ASSUME IInv, NEW h \in Handlers, NEW r \in Requests, TrySendFull(h, r)
  PROVE  IInv'
  <1>. USE DEF IInv, TrySendFull, Queueing
  <1>1. TypeOK'
    BY DEF TypeOK
  <1>share. /\ HeldBy(h)' = HeldBy(h)
            /\ \A g \in Handlers \ {h} : HeldBy(g)' = HeldBy(g)
    BY DEF TypeOK, HandlersHold, HeldBy
  <1>others. /\ WithHandlers' = (WithHandlers \ HeldBy(h)) \cup HeldBy(h)'
             /\ HeldBy(h) \subseteq WithHandlers
    BY <1>1, <1>share, OneHandlerMoves DEF WithHandlers
  <1>2. HandlersHold' /\ SchedulerHolds' /\ Undisturbed'
    BY <1>share DEF HandlersHold, SchedulerHolds, Undisturbed, TypeOK
  <1>3. RowsAgree'
    BY <1>share, <1>others DEF RowsAgree, Outbound
  <1>4. OnePlace'
    BY <1>share, <1>others DEF OnePlace
  <1>5. AnswersWait'
    BY AnswersUntouched
  <1>6. KeepsTrack
    BY <1>share, <1>others DEF KeepsTrack, Outbound, Answered
  <1>. QED BY <1>1, <1>2, <1>3, <1>4, <1>5, <1>6, NoOrphanStep

LEMMA BlockedSendOkInv ==
  ASSUME IInv, NEW h \in Handlers, NEW r \in Requests, BlockedSendOk(h, r)
  PROVE  IInv'
  <1>. USE DEF IInv, BlockedSendOk
  <1>ends. /\ Range(sendCh') = Range(sendCh) \cup {r}
           /\ sendCh' \in Seq(Requests)
           /\ IsInjective(sendCh) /\ r \notin Range(sendCh) => IsInjective(sendCh')
    BY AppendChannel DEF TypeOK
  <1>1. TypeOK'
    BY DEF TypeOK
  <1>share. /\ r \in HeldBy(h) /\ HeldBy(h)' = HeldBy(h) \ {r}
            /\ \A g \in Handlers \ {h} : HeldBy(g)' = HeldBy(g)
    BY DEF TypeOK, HandlersHold, HeldBy
  <1>others. /\ WithHandlers' = (WithHandlers \ HeldBy(h)) \cup HeldBy(h)'
             /\ HeldBy(h) \subseteq WithHandlers
    BY <1>1, <1>share, OneHandlerMoves DEF WithHandlers
  <1>2. HandlersHold' /\ SchedulerHolds' /\ Undisturbed'
    BY <1>share DEF HandlersHold, SchedulerHolds, Undisturbed, TypeOK
  <1>3. RowsAgree'
    BY <1>ends, <1>share, <1>others DEF RowsAgree, Outbound
  <1>4. OnePlace'
    <2>1. \A f, g \in Handlers : f # g => HeldBy(f)' \cap HeldBy(g)' = {}
      BY <1>share DEF OnePlace
    <2>2. /\ WithHandlers' \cap (claimed' \cup Range(sendCh') \cup inHand' \cup calling') = {}
          /\ claimed' \cap (Range(sendCh') \cup inHand' \cup calling') = {}
          /\ Range(sendCh') \cap (inHand' \cup calling') = {}
          /\ inHand' \cap calling' = {}
          /\ IsInjective(sendCh')
      BY <1>ends, <1>share, <1>others DEF OnePlace
    <2>. QED BY <2>1, <2>2 DEF OnePlace
  <1>5. AnswersWait'
    BY AnswersUntouched
  <1>6. KeepsTrack
    BY <1>ends, <1>share, <1>others DEF KeepsTrack, Outbound, Answered
  <1>. QED BY <1>1, <1>2, <1>3, <1>4, <1>5, <1>6, NoOrphanStep

LEMMA RespondInv ==
  ASSUME IInv, NEW h \in Handlers, Respond(h)
  PROVE  IInv'
  <1>. USE DEF IInv, Respond
  <1>1. TypeOK'
    BY DEF TypeOK
  <1>share. /\ HeldBy(h)' = HeldBy(h)
            /\ \A g \in Handlers \ {h} : HeldBy(g)' = HeldBy(g)
    BY DEF TypeOK, HandlersHold, HeldBy
  <1>others. /\ WithHandlers' = (WithHandlers \ HeldBy(h)) \cup HeldBy(h)'
             /\ HeldBy(h) \subseteq WithHandlers
    BY <1>1, <1>share, OneHandlerMoves DEF WithHandlers
  <1>2. HandlersHold' /\ SchedulerHolds' /\ Undisturbed'
    BY DEF HandlersHold, SchedulerHolds, Undisturbed, HeldBy
  <1>3. RowsAgree'
    BY <1>share, <1>others DEF RowsAgree, Outbound
  <1>4. OnePlace'
    BY <1>share, <1>others DEF OnePlace
  <1>5. AnswersWait'
    BY AnswersUntouched
  <1>6. KeepsTrack
    BY <1>share, <1>others DEF KeepsTrack, Outbound, Answered
  <1>. QED BY <1>1, <1>2, <1>3, <1>4, <1>5, <1>6, NoOrphanStep

LEMMA DisconnectInv ==
  ASSUME IInv, NEW h \in Handlers, Disconnect(h)
  PROVE  IInv'
  <1>. USE DEF IInv, Disconnect, Disrupt
  <1>1. TypeOK'
    BY DEF TypeOK
  <1>share. /\ HeldBy(h)' = {}
            /\ \A g \in Handlers \ {h} : HeldBy(g)' = HeldBy(g)
    BY DEF TypeOK, HandlersHold, HeldBy
  <1>others. /\ WithHandlers' = (WithHandlers \ HeldBy(h)) \cup HeldBy(h)'
             /\ HeldBy(h) \subseteq WithHandlers
    BY OneHandlerMoves DEF WithHandlers, HeldBy, TypeOK
  <1>2. HandlersHold' /\ SchedulerHolds' /\ Undisturbed'
    BY <1>share DEF HandlersHold, SchedulerHolds, Undisturbed, TypeOK
  <1>3. RowsAgree'
    BY <1>share, <1>others DEF RowsAgree, Outbound
  <1>4. OnePlace'
    BY <1>share, <1>others DEF OnePlace
  <1>5. AnswersWait'
    BY AnswersUntouched
  <1>6. KeepsTrack
    BY DEF KeepsTrack, TypeOK
  <1>. QED BY <1>1, <1>2, <1>3, <1>4, <1>5, <1>6, NoOrphanStep

LEMMA StopTopicInv ==
  ASSUME IInv, NEW t \in Topics, StopTopic(t)
  PROVE  IInv'
  <1>. USE DEF IInv, StopTopic, Stoppable, SetStatus
  <1>1. TypeOK'
    BY DEF TypeOK, Statuses
  <1>others. WithHandlers' = WithHandlers /\ \A g \in Handlers : HeldBy(g)' = HeldBy(g)
    BY DEF WithHandlers, HeldBy
  <1>2. HandlersHold' /\ SchedulerHolds' /\ Undisturbed'
    BY <1>others DEF HandlersHold, SchedulerHolds, Undisturbed
  <1>3. RowsAgree'
    BY <1>others DEF RowsAgree, Outbound
  <1>4. OnePlace'
    BY <1>others DEF OnePlace
  <1>5. AnswersWait'
    BY AnswersUntouched
  <1>6. KeepsTrack
    BY <1>others DEF KeepsTrack, Outbound, Answered
  <1>. QED BY <1>1, <1>2, <1>3, <1>4, <1>5, <1>6, NoOrphanStep

(* The scheduler.                                                          *)
LEMMA ClaimInv ==
  ASSUME IInv, Claim
  PROVE  IInv'
  <1>. USE DEF IInv, Claim, DbOk, SetStatus, Claimable
  <1>1. TypeOK'
    BY DEF TypeOK, Statuses
  <1>others. WithHandlers' = WithHandlers /\ \A g \in Handlers : HeldBy(g)' = HeldBy(g)
    BY DEF WithHandlers, HeldBy
  <1>2. HandlersHold' /\ SchedulerHolds' /\ Undisturbed'
    BY <1>others DEF HandlersHold, SchedulerHolds, Undisturbed
  <1>3. RowsAgree'
    BY <1>others DEF RowsAgree, Outbound
  <1>4. OnePlace'
    BY <1>others, OutboundRows DEF OnePlace, Outbound
  <1>5. AnswersWait'
    BY AnswersUntouched
  <1>6. KeepsTrack
    <2>1. PICK S \in SUBSET Claimable : status' = SetStatus(S, "Processed") /\ claimed' = S
      OBVIOUS
    <2>2. claimed = {}
      BY DEF SchedulerHolds
    <2>. QED BY <1>others, <2>1, <2>2 DEF KeepsTrack, Outbound, Answered, TypeOK
  <1>. QED BY <1>1, <1>2, <1>3, <1>4, <1>5, <1>6, NoOrphanStep

LEMMA FetchContentsInv ==
  ASSUME IInv, FetchContents
  PROVE  IInv'
  <1>. USE DEF IInv, FetchContents, DbOk, DbErr, Disrupt
  <1>1. TypeOK'
    BY DEF TypeOK
  <1>others. WithHandlers' = WithHandlers /\ \A g \in Handlers : HeldBy(g)' = HeldBy(g)
    BY DEF WithHandlers, HeldBy
  <1>2. HandlersHold' /\ SchedulerHolds' /\ Undisturbed'
    BY <1>others DEF HandlersHold, SchedulerHolds, Undisturbed, TypeOK
  <1>3. RowsAgree'
    BY <1>others DEF RowsAgree, Outbound
  <1>4. OnePlace'
    BY <1>others DEF OnePlace
  <1>5. AnswersWait'
    BY AnswersUntouched
  <1>6. KeepsTrack
    BY <1>others DEF KeepsTrack, Undisturbed, Outbound, Answered, TypeOK
  <1>. QED BY <1>1, <1>2, <1>3, <1>4, <1>5, <1>6, NoOrphanStep

LEMMA ForwardInv ==
  ASSUME IInv, NEW r \in Requests, Forward(r)
  PROVE  IInv'
  <1>. USE DEF IInv, Forward
  <1>ends. /\ Range(sendCh') = Range(sendCh) \cup {r}
           /\ sendCh' \in Seq(Requests)
           /\ IsInjective(sendCh) /\ r \notin Range(sendCh) => IsInjective(sendCh')
    BY AppendChannel DEF TypeOK
  <1>1. TypeOK'
    BY DEF TypeOK
  <1>others. WithHandlers' = WithHandlers /\ \A g \in Handlers : HeldBy(g)' = HeldBy(g)
    BY DEF WithHandlers, HeldBy
  <1>2. HandlersHold' /\ SchedulerHolds' /\ Undisturbed'
    BY <1>others DEF HandlersHold, SchedulerHolds, Undisturbed
  <1>3. RowsAgree'
    BY <1>ends, <1>others DEF RowsAgree, Outbound
  <1>4. OnePlace'
    BY <1>ends, <1>others DEF OnePlace
  <1>5. AnswersWait'
    BY AnswersUntouched
  <1>6. KeepsTrack
    BY <1>ends, <1>others DEF KeepsTrack, Outbound, Answered
  <1>. QED BY <1>1, <1>2, <1>3, <1>4, <1>5, <1>6, NoOrphanStep

(* The sender and its tasks.                                               *)
LEMMA RecvInv ==
  ASSUME IInv, Recv
  PROVE  IInv'
  <1>. USE DEF IInv, Recv
  <1>ends. /\ Range(sendCh) = Range(sendCh') \cup {Head(sendCh)}
           /\ sendCh' \in Seq(Requests) /\ Head(sendCh) \in Requests
           /\ IsInjective(sendCh) => IsInjective(sendCh') /\ Head(sendCh) \notin Range(sendCh')
    BY TailChannel DEF TypeOK
  <1>1. TypeOK'
    BY DEF TypeOK
  <1>others. WithHandlers' = WithHandlers /\ \A g \in Handlers : HeldBy(g)' = HeldBy(g)
    BY DEF WithHandlers, HeldBy
  <1>2. HandlersHold' /\ SchedulerHolds' /\ Undisturbed'
    BY <1>others DEF HandlersHold, SchedulerHolds, Undisturbed
  <1>3. RowsAgree'
    BY <1>ends, <1>others DEF RowsAgree, Outbound
  <1>4. OnePlace'
    BY <1>ends, <1>others DEF OnePlace
  <1>5. AnswersWait'
    BY AnswersUntouched
  <1>6. KeepsTrack
    BY <1>ends, <1>others DEF KeepsTrack, Outbound, Answered
  <1>. QED BY <1>1, <1>2, <1>3, <1>4, <1>5, <1>6, NoOrphanStep

LEMMA SpawnInv ==
  ASSUME IInv, Spawn
  PROVE  IInv'
  <1>. USE DEF IInv, Spawn, FreePermits
  <1>1. TypeOK'
    BY DEF TypeOK
  <1>others. WithHandlers' = WithHandlers /\ \A g \in Handlers : HeldBy(g)' = HeldBy(g)
    BY DEF WithHandlers, HeldBy
  <1>2. HandlersHold' /\ SchedulerHolds' /\ Undisturbed'
    BY <1>others DEF HandlersHold, SchedulerHolds, Undisturbed
  <1>3. RowsAgree'
    BY <1>others DEF RowsAgree, Outbound
  <1>4. OnePlace'
    BY <1>others DEF OnePlace
  <1>5. AnswersWait'
    BY AnswersUntouched
  <1>6. KeepsTrack
    BY <1>others DEF KeepsTrack, Outbound, Answered
  <1>. QED BY <1>1, <1>2, <1>3, <1>4, <1>5, <1>6, NoOrphanStep

LEMMA SendEmailInv ==
  ASSUME IInv, NEW r \in Requests, NEW answer \in {"Sent", "Failed"}, SendEmail(r, answer)
  PROVE  IInv'
  <1>. USE DEF IInv, SendEmail
  <1>types. Range(sendCh) \subseteq Requests /\ Answered \subseteq Results
    BY ChannelTypes
  <1>1. TypeOK'
    BY DEF TypeOK, Results
  <1>others. WithHandlers' = WithHandlers /\ \A g \in Handlers : HeldBy(g)' = HeldBy(g)
    BY DEF WithHandlers, HeldBy
  <1>2. HandlersHold' /\ SchedulerHolds' /\ Undisturbed'
    BY <1>others DEF HandlersHold, SchedulerHolds, Undisturbed
  <1>3. RowsAgree'
    <2>1. /\ status[r] = "Processed" /\ outcome[r] = "None" /\ sends[r] = 0
          /\ r \notin Outbound'
      BY <1>others, OutboundRows DEF Outbound, OnePlace
    <2>2. Outbound' \subseteq Outbound
      BY <1>others DEF Outbound
    <2>. QED BY <2>1, <2>2 DEF RowsAgree, TypeOK
  <1>4. OnePlace'
    BY <1>others DEF OnePlace
  <1>5. AnswersWait'
    <2>. DEFINE new == [req |-> r, status |-> answer]
    <2>1. /\ status[r] = "Processed" /\ outcome[r] = "None"
          /\ new.req = r /\ new.status = answer
      BY OutboundRows DEF Outbound
    <2>2. \A m \in Answered : m.req \in Requests /\ m.status # "None"
      BY <1>types DEF Results
    <2>3. \A m \in Answered : m.req # r
      BY <2>1, <2>2 DEF AnswersWait
    <2>. HIDE DEF new
    <2>4. new \notin Answered
      BY <2>1, <2>3
    <2>5. reporting' = reporting \cup {new}
      BY DEF new
    <2>6. Answered' = Answered \cup {new}
      BY <2>5 DEF Answered
    <2>. QED BY <2>1, <2>2, <2>3, <2>4, <2>5, <2>6 DEF AnswersWait, Answered, TypeOK
  <1>6. KeepsTrack
    <2>1. Outbound \subseteq Outbound' \cup {r}
      BY <1>others DEF Outbound
    <2>2. /\ [req |-> r, status |-> answer] \in Answered'
          /\ Answered \subseteq Answered'
      BY DEF Answered
    <2>. QED BY <2>1, <2>2 DEF KeepsTrack
  <1>. QED BY <1>1, <1>2, <1>3, <1>4, <1>5, <1>6, NoOrphanStep

LEMMA ReportInv ==
  ASSUME IInv, NEW m \in reporting, Report(m)
  PROVE  IInv'
  <1>. USE DEF IInv, Report
  <1>ends. /\ Range(postCh') = Range(postCh) \cup {m}
           /\ postCh' \in Seq(Results)
           /\ IsInjective(postCh) /\ m \notin Range(postCh) => IsInjective(postCh')
    BY AppendChannel DEF TypeOK
  <1>1. TypeOK'
    BY DEF TypeOK
  <1>others. WithHandlers' = WithHandlers /\ \A g \in Handlers : HeldBy(g)' = HeldBy(g)
    BY DEF WithHandlers, HeldBy
  <1>2. HandlersHold' /\ SchedulerHolds' /\ Undisturbed'
    BY <1>others DEF HandlersHold, SchedulerHolds, Undisturbed
  <1>3. RowsAgree'
    BY <1>others DEF RowsAgree, Outbound
  <1>4. OnePlace'
    BY <1>others DEF OnePlace
  <1>5. AnswersWait'
    BY <1>ends DEF AnswersWait, Answered
  <1>6. KeepsTrack
    BY <1>ends, <1>others DEF KeepsTrack, Outbound, Answered
  <1>. QED BY <1>1, <1>2, <1>3, <1>4, <1>5, <1>6, NoOrphanStep

(* The post-processor.                                                     *)
LEMMA PostRecvInv ==
  ASSUME IInv, PostRecv
  PROVE  IInv'
  <1>. USE DEF IInv, PostRecv, FlushDue
  <1>ends. /\ Range(postCh) = Range(postCh') \cup {Head(postCh)}
           /\ postCh' \in Seq(Results) /\ Head(postCh) \in Results
           /\ IsInjective(postCh) => IsInjective(postCh') /\ Head(postCh) \notin Range(postCh')
    BY TailChannel DEF TypeOK
  <1>1. TypeOK'
    BY DEF TypeOK
  <1>others. WithHandlers' = WithHandlers /\ \A g \in Handlers : HeldBy(g)' = HeldBy(g)
    BY DEF WithHandlers, HeldBy
  <1>2. HandlersHold' /\ SchedulerHolds' /\ Undisturbed'
    BY <1>others DEF HandlersHold, SchedulerHolds, Undisturbed
  <1>3. RowsAgree'
    BY <1>others DEF RowsAgree, Outbound
  <1>4. OnePlace'
    BY <1>others DEF OnePlace
  <1>5. AnswersWait'
    BY <1>ends DEF AnswersWait, Answered
  <1>6. KeepsTrack
    BY <1>ends, <1>others DEF KeepsTrack, Outbound, Answered
  <1>. QED BY <1>1, <1>2, <1>3, <1>4, <1>5, <1>6, NoOrphanStep

(* Steps that move no request and write no row.                           *)
LEMMA QuietInv ==
  ASSUME IInv, TypeOK', Undisturbed', disruptions' = 0 => disruptions = 0,
         UNCHANGED <<status, due, history, handlerVars, schedulerVars, sendCh, inHand,
                     calling, reporting, postCh, batch>>
  PROVE  IInv'
  <1>. USE DEF IInv
  <1>1. HandlersHold' /\ SchedulerHolds'
    BY DEF HandlersHold, SchedulerHolds, HeldBy
  <1>2. Outbound' = Outbound /\ WithHandlers' = WithHandlers /\ Answered' = Answered
    BY DEF Outbound, WithHandlers, HeldBy, Answered
  <1>3. RowsAgree' /\ AnswersWait' /\ KeepsTrack
    BY <1>2 DEF RowsAgree, AnswersWait, KeepsTrack
  <1>4. OnePlace'
    BY <1>2 DEF OnePlace, HeldBy
  <1>. QED BY <1>1, <1>3, <1>4, NoOrphanStep

LEMMA QuietStepsInv ==
  ASSUME IInv, PostTimeout \/ Shutdown \/ CloseDb \/ UNCHANGED vars
  PROVE  IInv'
  <1>. USE DEF IInv, TypeOK, Undisturbed
  <1>1. CASE PostTimeout
    BY <1>1, QuietInv DEF PostTimeout
  <1>2. CASE Shutdown \/ CloseDb
    BY <1>2, QuietInv DEF Shutdown, CloseDb, Disrupt
  <1>3. CASE UNCHANGED vars
    BY <1>3, QuietInv DEF vars
  <1>. QED BY <1>1, <1>2, <1>3

LEMMA BulkUpdateInv ==
  ASSUME IInv, BulkUpdate
  PROVE  IInv'
  <1>. USE DEF IInv
  <1>types. Range(sendCh) \subseteq Requests /\ Answered \subseteq Results
    BY ChannelTypes
  <1>others. WithHandlers' = WithHandlers /\ \A g \in Handlers : HeldBy(g)' = HeldBy(g)
    BY DEF WithHandlers, HeldBy, BulkUpdate
  <1>1. CASE batch' = batch
    <2>. USE <1>1 DEF BulkUpdate, DbOk, DbErr, Disrupt
    <2>1. status' = status \/ batch = {}
      BY DEF TypeOK
    <2>2. status' = status
      BY <2>1 DEF Reqs, TypeOK
    <2>3. ppc' \in {"recv", "fallback"} /\ disruptions' \in Nat
          /\ (disruptions' = 0 => disruptions = 0)
      BY DEF TypeOK
    <2>4. TypeOK' /\ HandlersHold' /\ SchedulerHolds' /\ Undisturbed'
      BY <2>2 DEF TypeOK, HandlersHold, SchedulerHolds, Undisturbed, HeldBy
    <2>5. RowsAgree' /\ OnePlace' /\ AnswersWait'
      BY <2>2, <1>others DEF RowsAgree, OnePlace, AnswersWait, Outbound, Answered
    <2>6. KeepsTrack
      BY <2>2, <2>3, <1>others DEF KeepsTrack, Outbound, Answered
    <2>. QED BY <2>4, <2>5, <2>6, NoOrphanStep
  <1>2. CASE batch' # batch
    <2>. USE <1>2 DEF BulkUpdate, DbOk, DbErr, Disrupt
    <2>1. /\ batch' = {} /\ ppc' = "recv" /\ UNCHANGED disruptions
          /\ status' = [r \in Requests |->
                          IF r \in Reqs(batch) THEN AnswerFor(r) ELSE status[r]]
      OBVIOUS
    <2>2. \A m \in batch : /\ m \in Answered /\ m \in Results
                           /\ status[m.req] = "Processed" /\ outcome[m.req] = m.status
      BY <1>types DEF AnswersWait, Answered
    <2>3. \A r \in Reqs(batch) :
             /\ r \in Requests /\ status[r] = "Processed"
             /\ AnswerFor(r) = outcome[r]
             /\ outcome[r] \in {"Sent", "Failed"}
      <3>. SUFFICES ASSUME NEW r \in Reqs(batch)
                    PROVE  /\ r \in Requests /\ status[r] = "Processed"
                           /\ AnswerFor(r) = outcome[r]
                           /\ outcome[r] \in {"Sent", "Failed"}
        OBVIOUS
      <3>1. \E m \in batch : m.req = r
        BY DEF Reqs
      <3>. DEFINE m == CHOOSE m \in batch : m.req = r
      <3>2. m \in batch /\ m.req = r
        BY <3>1
      <3>. QED BY <3>2, <2>2 DEF AnswerFor, Results
    <2>4. status' = [r \in Requests |-> IF r \in Reqs(batch) THEN outcome[r] ELSE status[r]]
      BY <2>1, <2>3
    <2>5. Outbound' = Outbound /\ Outbound \cap Reqs(batch) = {}
      BY <1>others, <2>3, OutboundRows DEF Outbound
    <2>6. TypeOK' /\ HandlersHold' /\ SchedulerHolds' /\ Undisturbed'
      BY <2>3 DEF TypeOK, Statuses, HandlersHold, SchedulerHolds, Undisturbed, HeldBy
    <2>7. RowsAgree'
      BY <2>3, <2>5 DEF RowsAgree
    <2>8. OnePlace'
      BY <1>others DEF OnePlace
    <2>9. \A m \in Answered' : m \in Answered /\ m.req \in Requests \ Reqs(batch)
      <3>. SUFFICES ASSUME NEW m \in Answered'
                    PROVE  m \in Answered /\ m.req \in Requests \ Reqs(batch)
        OBVIOUS
      <3>1. m \in reporting \cup Range(postCh) /\ m \in Answered /\ m \in Results
        BY <2>1, <1>types DEF Answered
      <3>2. ASSUME m.req \in Reqs(batch) PROVE FALSE
        <4>1. PICK n \in batch : n.req = m.req
          BY <3>2 DEF Reqs
        <4>2. n.status = m.status
          BY <4>1, <2>2, <3>1 DEF AnswersWait
        <4>3. n = m
          BY <4>1, <4>2, <2>2, <3>1 DEF Results
        <4>. QED BY <4>3, <3>1 DEF AnswersWait
      <3>. QED BY <3>1, <3>2 DEF Results
    <2>10. AnswersWait'
      BY <2>9 DEF AnswersWait
    <2>11. \A m \in batch : m.req \in Reqs(batch)
      BY DEF Reqs
    <2>12. KeepsTrack
      BY <2>3, <2>5, <2>11 DEF KeepsTrack, Answered
    <2>. QED BY <2>6, <2>7, <2>8, <2>10, <2>12, NoOrphanStep
  <1>. QED BY <1>1, <1>2

LEMMA UpdateOneInv ==
  ASSUME IInv, NEW m \in batch, UpdateOne(m)
  PROVE  IInv'
  <1>. USE DEF IInv
  <1>types. Range(sendCh) \subseteq Requests /\ Answered \subseteq Results
    BY ChannelTypes
  <1>others. WithHandlers' = WithHandlers /\ \A g \in Handlers : HeldBy(g)' = HeldBy(g)
    BY DEF WithHandlers, HeldBy, UpdateOne
  <1>ends. /\ m.req \in Requests /\ m.status \in {"Sent", "Failed"} /\ m \in Answered
           /\ status[m.req] = "Processed" /\ outcome[m.req] = m.status
    BY <1>types DEF Answered, AnswersWait, Results
  <1>b. /\ batch' = batch \ {m} /\ ppc' \in {"recv", "fallback"}
        /\ disruptions' \in Nat /\ (disruptions' = 0 => disruptions = 0)
        /\ UNCHANGED <<due, history, handlerVars, schedulerVars, sendCh, senderVars,
                       postCh, phase>>
    BY DEF UpdateOne, DbOk, DbErr, Disrupt, TypeOK
  <1>c. \/ status' = [r \in Requests |-> IF r = m.req THEN m.status ELSE status[r]]
        \/ status' = status /\ (disruptions' # 0 \/ phase = "closed")
    BY DEF UpdateOne, DbErr, Disrupt, SetStatus, TypeOK
  <1>d. Outbound' = Outbound /\ m.req \notin Outbound
    BY <1>ends, <1>b, <1>others, OutboundRows DEF Outbound
  <1>e. Answered' = Answered \ {m}
    BY <1>b DEF Answered, AnswersWait
  <1>f. \A n \in Answered' : n \in Answered /\ n.req \in Requests \ {m.req}
    <2>. SUFFICES ASSUME NEW n \in Answered'
                  PROVE  n \in Answered /\ n.req \in Requests \ {m.req}
      OBVIOUS
    <2>1. n \in Answered /\ n # m /\ n \in Results /\ m \in Results
      BY <1>e, <1>types, <1>ends
    <2>2. ASSUME n.req = m.req PROVE FALSE
      BY <2>1, <2>2, <1>ends DEF AnswersWait, Results
    <2>. QED BY <2>1, <2>2 DEF Results
  <1>1. TypeOK'
    BY <1>ends, <1>b, <1>c DEF TypeOK, Statuses
  <1>2. HandlersHold' /\ SchedulerHolds' /\ Undisturbed'
    BY <1>b, <1>others DEF HandlersHold, SchedulerHolds, Undisturbed
  <1>3. RowsAgree'
    BY <1>ends, <1>b, <1>c, <1>d DEF RowsAgree
  <1>4. OnePlace'
    BY <1>b, <1>others DEF OnePlace
  <1>5. AnswersWait'
    BY <1>b, <1>c, <1>f DEF AnswersWait
  <1>6. KeepsTrack
    BY <1>ends, <1>b, <1>c, <1>d, <1>e DEF KeepsTrack, Undisturbed
  <1>. QED BY <1>1, <1>2, <1>3, <1>4, <1>5, <1>6, NoOrphanStep

(* Time and restarts.                                                      *)
LEMMA BecomeDueInv ==
  ASSUME IInv, NEW r \in Requests, BecomeDue(r)
  PROVE  IInv'
  <1>. USE DEF IInv, BecomeDue
  <1>1. TypeOK'
    BY DEF TypeOK
  <1>others. WithHandlers' = WithHandlers /\ \A g \in Handlers : HeldBy(g)' = HeldBy(g)
    BY DEF WithHandlers, HeldBy
  <1>2. HandlersHold' /\ SchedulerHolds' /\ Undisturbed'
    BY <1>others DEF HandlersHold, SchedulerHolds, Undisturbed
  <1>3. RowsAgree'
    BY <1>others DEF RowsAgree, Outbound
  <1>4. OnePlace'
    BY <1>others DEF OnePlace
  <1>5. AnswersWait'
    BY AnswersUntouched
  <1>6. KeepsTrack
    BY <1>others DEF KeepsTrack, Outbound, Answered
  <1>. QED BY <1>1, <1>2, <1>3, <1>4, <1>5, <1>6, NoOrphanStep

LEMMA RestartInv ==
  ASSUME IInv, Restart
  PROVE  IInv'
  <1>. USE DEF IInv, Restart, Disrupt
  <1>ends. Range(<<>>) = {} /\ IsInjective(<<>>)
    BY EmptyChannel DEF TypeOK
  <1>1. TypeOK'
    BY DEF TypeOK
  <1>others. WithHandlers' = {} /\ \A g \in Handlers : HeldBy(g)' = {}
    BY DEF WithHandlers, HeldBy
  <1>2. HandlersHold' /\ SchedulerHolds' /\ Undisturbed'
    BY <1>others DEF HandlersHold, SchedulerHolds, Undisturbed
  <1>3. RowsAgree'
    BY <1>ends, <1>others DEF RowsAgree, Outbound
  <1>4. OnePlace'
    BY <1>ends, <1>others DEF OnePlace
  <1>5. AnswersWait'
    BY <1>ends DEF AnswersWait, Answered
  <1>6. KeepsTrack
    BY DEF KeepsTrack, Undisturbed, TypeOK
  <1>. QED BY <1>1, <1>2, <1>3, <1>4, <1>5, <1>6, NoOrphanStep

-----------------------------------------------------------------------------
(* Together: the invariant holds at the start and every step keeps it.     *)
LEMMA InitIInv == Init => IInv
  <1>. SUFFICES ASSUME Init PROVE IInv
    OBVIOUS
  <1>. USE EmptyChannel DEF Init
  <1>1. TypeOK
    BY SizeAssumption DEF TypeOK, Statuses
  <1>2. Outbound = {} /\ Answered = {} /\ \A h \in Handlers : HeldBy(h) = {}
    BY DEF Outbound, WithHandlers, HeldBy, Answered
  <1>3. RowsAgree /\ NoOrphan
    BY <1>2 DEF RowsAgree, NoOrphan
  <1>4. OnePlace /\ AnswersWait
    BY <1>2 DEF OnePlace, AnswersWait
  <1>5. HandlersHold /\ SchedulerHolds /\ Undisturbed
    BY <1>2 DEF HandlersHold, SchedulerHolds, Undisturbed
  <1>. QED BY <1>1, <1>3, <1>4, <1>5 DEF IInv

LEMMA NextIInv == IInv /\ [Next]_vars => IInv'
  <1>. SUFFICES ASSUME IInv, [Next]_vars PROVE IInv'
    OBVIOUS
  <1>1. CASE Client
    BY <1>1, CreateScheduledInv, CreateImmediateInv, DisconnectInv, StopTopicInv
       DEF Client
  <1>2. ASSUME NEW h \in Handlers, HandlerStep(h) PROVE IInv'
    BY <1>2, TrySendOkInv, TrySendFullInv, BlockedSendOkInv, RespondInv DEF HandlerStep
  <1>3. CASE SchedulerStep
    BY <1>3, ClaimInv, FetchContentsInv, ForwardInv DEF SchedulerStep
  <1>4. CASE SenderStep
    BY <1>4, RecvInv, SpawnInv DEF SenderStep
  <1>5. ASSUME NEW r \in Requests, TaskStep(r) \/ BecomeDue(r) PROVE IInv'
    BY <1>5, SendEmailInv, ReportInv, BecomeDueInv DEF TaskStep
  <1>6. CASE PostStep
    BY <1>6, PostRecvInv, QuietStepsInv, BulkUpdateInv, UpdateOneInv DEF PostStep
  <1>7. CASE Shutdown \/ CloseDb \/ Restart
    BY <1>7, QuietStepsInv, RestartInv
  <1>8. CASE UNCHANGED vars
    BY <1>8, QuietStepsInv
  <1>. QED BY <1>1, <1>2, <1>3, <1>4, <1>5, <1>6, <1>7, <1>8 DEF Next

(* The inductive invariant itself: rows, places, answers and handlers agree *)
(* in every reachable state.                                               *)
THEOREM Inductive == Spec => []IInv
  BY InitIInv, NextIInv, PTL DEF Spec

(* Every variable keeps its type.                                          *)
THEOREM Typing == Spec => []TypeOK
  <1>1. IInv => TypeOK
    BY DEF IInv
  <1>. QED BY <1>1, Inductive, PTL

(* No row is handed to SES twice or before its time, in any interleaving   *)
(* and after any disruptions.                                              *)
THEOREM SentOnce == Spec => []AtMostOneSend
  <1>1. IInv => AtMostOneSend
    BY DEF IInv, RowsAgree, AtMostOneSend
  <1>. QED BY <1>1, Inductive, PTL

(* A row that waits or was stopped is in no task's hands and was not sent. *)
THEOREM StoppedStaysOut == Spec => []StoppedIsOut
  <1>1. IInv => StoppedIsOut
    <2>. SUFFICES ASSUME IInv, NEW r \in Requests,
                         status[r] \in {"Absent", "Created", "Stopped"}
                  PROVE  r \notin InFlight /\ sends[r] = 0
      BY DEF StoppedIsOut
    <2>1. r \notin Outbound
      BY OutboundRows
    <2>2. \A m \in Answered : m.req # r
      BY DEF IInv, AnswersWait
    <2>3. sends[r] = 0
      BY DEF IInv, RowsAgree
    <2>. QED BY <2>1, <2>2, <2>3 DEF InFlight, Reqs
  <1>. QED BY <1>1, Inductive, PTL

(* Without disruptions no Processed row is ever out of everybody's hands.  *)
THEOREM NothingForgotten == Spec => []NoOrphan
  <1>1. IInv => NoOrphan
    BY DEF IInv
  <1>. QED BY <1>1, Inductive, PTL

-----------------------------------------------------------------------------
(* What no task holds any more stays where it is.  Every step moves only   *)
(* rows that are in somebody's hands before it, or that were Absent or     *)
(* Created.                                                                *)
LEMMA OrphanStep ==
  ASSUME IInv, [Next]_vars, NEW r \in Orphans
  PROVE  r \in Orphans' /\ sends'[r] = sends[r]
  <1>. DEFINE Same == r \in Orphans' /\ sends'[r] = sends[r]
  <1>a. /\ r \in Requests /\ status[r] = "Processed" /\ TypeOK
        /\ r \notin Outbound /\ \A m \in Answered : m.req # r
    BY DEF Orphans, InFlight, Reqs, IInv
  <1>b. ASSUME status'[r] = "Processed", sends'[r] = sends[r], r \notin Outbound',
               \A m \in Answered' : m.req # r
        PROVE  Same
    BY <1>a, <1>b DEF Orphans, InFlight, Reqs
  <1>c. /\ r \notin claimed /\ r \notin Range(sendCh) /\ r \notin inHand /\ r \notin calling
        /\ \A h \in Handlers : r \notin pending[h] /\ r \notin held[h]
    BY <1>a DEF Outbound, WithHandlers, HeldBy
  <1>d. /\ \A m \in reporting : m.req # r
        /\ \A m \in Range(postCh) : m.req # r
        /\ \A m \in batch : m.req # r
    BY <1>a DEF Answered
  <1>. USE DEF Outbound, WithHandlers, HeldBy, Answered
  <1>1. ASSUME NEW h \in Handlers, NEW S \in SUBSET Requests, CreateScheduled(h, S)
        PROVE  Same
    BY <1>1, <1>a, <1>b, <1>c, <1>d DEF CreateScheduled, Saved, SetStatus
  <1>2. ASSUME NEW h \in Handlers, NEW S \in SUBSET Requests, CreateImmediate(h, S)
        PROVE  Same
    BY <1>2, <1>a, <1>b, <1>c, <1>d DEF CreateImmediate, Saved, SetStatus, TypeOK
  <1>3. ASSUME NEW h \in Handlers, Disconnect(h) PROVE Same
    BY <1>3, <1>a, <1>b, <1>c, <1>d DEF Disconnect, TypeOK
  <1>4. ASSUME NEW t \in Topics, StopTopic(t) PROVE Same
    BY <1>4, <1>a, <1>b, <1>c, <1>d DEF StopTopic, Stoppable, SetStatus
  <1>5. ASSUME NEW h \in Handlers, HandlerStep(h) PROVE Same
    <2>1. ASSUME NEW q \in Requests, TrySendOk(h, q) \/ BlockedSendOk(h, q) PROVE Same
      <3>1. q # r
        BY <2>1, <1>c DEF TrySendOk, BlockedSendOk, Queueing
      <3>2. Range(sendCh') = Range(sendCh) \cup {q}
        <4>1. sendCh' = Append(sendCh, q) /\ sendCh \in Seq(Requests)
          BY <2>1, <1>a DEF TrySendOk, BlockedSendOk, TypeOK
        <4>. QED BY <4>1, AppendChannel
      <3>3. ASSUME NEW g \in Handlers PROVE r \notin pending'[g] /\ r \notin held'[g]
        <4>1. /\ pending \in [Handlers -> SUBSET Requests]
              /\ held \in [Handlers -> SUBSET Requests]
          BY <1>a DEF TypeOK
        <4>2. pending'[g] \subseteq pending[g] /\ held'[g] \subseteq held[g]
          BY <2>1, <4>1 DEF TrySendOk, BlockedSendOk
        <4>. QED BY <4>2, <1>c
      <3>4. /\ status' = status /\ sends' = sends
            /\ UNCHANGED <<claimed, inHand, calling, reporting, postCh, batch>>
        BY <2>1 DEF TrySendOk, BlockedSendOk
      <3>. QED BY <3>1, <3>2, <3>3, <3>4, <1>a, <1>b, <1>c, <1>d
    <2>2. ASSUME NEW q \in Requests, TrySendFull(h, q) PROVE Same
      BY <2>2, <1>a, <1>b, <1>c, <1>d DEF TrySendFull, Queueing, TypeOK
    <2>3. CASE Respond(h)
      BY <2>3, <1>a, <1>b, <1>c, <1>d DEF Respond
    <2>. QED BY <1>5, <2>1, <2>2, <2>3 DEF HandlerStep
  <1>6. CASE SchedulerStep
    <2>1. CASE Claim
      BY <2>1, <1>a, <1>b, <1>c, <1>d DEF Claim, Claimable, SetStatus
    <2>2. CASE FetchContents
      BY <2>2, <1>a, <1>b, <1>c, <1>d DEF FetchContents
    <2>3. ASSUME NEW q \in Requests, Forward(q) PROVE Same
      <3>1. q # r /\ Range(sendCh') = Range(sendCh) \cup {q}
        BY <2>3, <1>c, <1>a, AppendChannel DEF Forward, TypeOK
      <3>. QED BY <2>3, <3>1, <1>a, <1>b, <1>c, <1>d DEF Forward
    <2>. QED BY <1>6, <2>1, <2>2, <2>3 DEF SchedulerStep
  <1>7. CASE SenderStep
    <2>1. CASE Recv
      <3>1. Range(sendCh) = Range(Tail(sendCh)) \cup {Head(sendCh)}
        BY <2>1, <1>a, TailChannel DEF Recv, TypeOK
      <3>. QED BY <2>1, <3>1, <1>a, <1>b, <1>c, <1>d DEF Recv
    <2>2. CASE Spawn
      BY <2>2, <1>a, <1>b, <1>c, <1>d DEF Spawn
    <2>. QED BY <1>7, <2>1, <2>2 DEF SenderStep
  <1>8. ASSUME NEW q \in Requests, TaskStep(q) PROVE Same
    <2>1. ASSUME NEW answer \in {"Sent", "Failed"}, SendEmail(q, answer) PROVE Same
      BY <2>1, <1>a, <1>b, <1>c, <1>d DEF SendEmail, TypeOK
    <2>2. ASSUME NEW m \in reporting, Report(m) PROVE Same
      <3>1. Range(postCh') = Range(postCh) \cup {m}
        BY <2>2, <1>a, AppendChannel DEF Report, TypeOK
      <3>. QED BY <2>2, <3>1, <1>a, <1>b, <1>c, <1>d DEF Report
    <2>. QED BY <1>8, <2>1, <2>2 DEF TaskStep
  <1>9. CASE PostStep
    <2>1. CASE PostRecv
      <3>1. Range(postCh) = Range(Tail(postCh)) \cup {Head(postCh)}
        BY <2>1, <1>a, TailChannel DEF PostRecv, TypeOK
      <3>. QED BY <2>1, <3>1, <1>a, <1>b, <1>c, <1>d DEF PostRecv
    <2>2. CASE PostTimeout
      BY <2>2, <1>a, <1>b, <1>c, <1>d DEF PostTimeout
    <2>3. CASE BulkUpdate
      BY <2>3, <1>a, <1>b, <1>c, <1>d DEF BulkUpdate, Reqs
    <2>4. ASSUME NEW m \in batch, UpdateOne(m) PROVE Same
      BY <2>4, <1>a, <1>b, <1>c, <1>d DEF UpdateOne, SetStatus
    <2>. QED BY <1>9, <2>1, <2>2, <2>3, <2>4 DEF PostStep
  <1>10. ASSUME NEW q \in Requests, BecomeDue(q) PROVE Same
    BY <1>10, <1>a, <1>b, <1>c, <1>d DEF BecomeDue
  <1>11. CASE Shutdown \/ CloseDb \/ UNCHANGED vars
    BY <1>11, <1>a, <1>b, <1>c, <1>d DEF Shutdown, CloseDb, vars
  <1>12. CASE Restart
    BY <1>12, <1>a, <1>b, EmptyChannel DEF Restart
  <1>. QED BY <1>1, <1>2, <1>3, <1>4, <1>5, <1>6, <1>7, <1>8, <1>9, <1>10, <1>11, <1>12
              DEF Next, Client

(* A Processed row that was lost, with its task or with its answer, is     *)
(* never sent or taken up by a later step or a later life of the process.  *)
THEOREM LostIsLeftAlone == Spec => OrphansStayPut
  <1>1. IInv /\ [Next]_vars => [\A r \in Orphans : r \in Orphans' /\ sends'[r] = sends[r]]_vars
    BY OrphanStep
  <1>. QED BY <1>1, Inductive, PTL DEF Spec, OrphansStayPut

-----------------------------------------------------------------------------
(* What RequestLifecycle promises, from its steps alone.  What makes the   *)
(* promises inductive is that a row is Processed only once it is due.      *)
LifecycleIInv ==
    /\ Lifecycle!TypeOK /\ Lifecycle!StatusTruthful /\ Lifecycle!NeverEarly
    /\ \A r \in Requests : status[r] = "Processed" => r \in due

\* One step for each operation on a set of rows.
LEMMA LifecycleInductive == Lifecycle!Spec => []LifecycleIInv
  <1>. USE DEF LifecycleIInv, Lifecycle!TypeOK, Lifecycle!Statuses, Lifecycle!Outcomes,
               Lifecycle!StatusTruthful, Lifecycle!NeverEarly, Lifecycle!SetStatus
  <1>1. Lifecycle!Init => LifecycleIInv
    BY DEF Lifecycle!Init
  <1>2. LifecycleIInv /\ [Lifecycle!Next]_Lifecycle!vars => LifecycleIInv'
    <2>. SUFFICES ASSUME LifecycleIInv, [Lifecycle!Next]_Lifecycle!vars
                  PROVE  LifecycleIInv'
      OBVIOUS
    <2>1. ASSUME NEW S \in SUBSET Requests, Lifecycle!Schedule(S) PROVE LifecycleIInv'
      BY <2>1 DEF Lifecycle!Schedule
    <2>2. ASSUME NEW S \in SUBSET Requests, Lifecycle!SubmitNow(S) PROVE LifecycleIInv'
      BY <2>2 DEF Lifecycle!SubmitNow
    <2>3. ASSUME NEW S \in SUBSET Requests, Lifecycle!Claim(S) PROVE LifecycleIInv'
      BY <2>3 DEF Lifecycle!Claim
    <2>4. ASSUME NEW S \in SUBSET Requests, Lifecycle!Stop(S) PROVE LifecycleIInv'
      BY <2>4 DEF Lifecycle!Stop
    <2>5. ASSUME NEW S \in SUBSET Requests, Lifecycle!Record(S) PROVE LifecycleIInv'
      BY <2>5 DEF Lifecycle!Record
    <2>6. ASSUME NEW r \in Requests, Lifecycle!BecomeDue(r) PROVE LifecycleIInv'
      BY <2>6 DEF Lifecycle!BecomeDue
    <2>7. ASSUME NEW r \in Requests, NEW o \in {"Sent", "Failed"}, Lifecycle!Send(r, o)
          PROVE  LifecycleIInv'
      BY <2>7 DEF Lifecycle!Send
    <2>8. CASE UNCHANGED Lifecycle!vars
      BY <2>8 DEF Lifecycle!vars
    <2>. QED BY <2>1, <2>2, <2>3, <2>4, <2>5, <2>6, <2>7, <2>8 DEF Lifecycle!Next
  <1>. QED BY <1>1, <1>2, PTL DEF Lifecycle!Spec

(* Whatever implements the life cycle keeps its promises: a final status   *)
(* is SES's answer and an unsent status no lie, and nothing is early, ...  *)
THEOREM LifecycleTruthful ==
    Lifecycle!Spec => [](Lifecycle!StatusTruthful /\ Lifecycle!NeverEarly)
  BY LifecycleInductive, PTL DEF LifecycleIInv

(* ... and answers and settled rows are final.                             *)
THEOREM LifecycleSettled == Lifecycle!Spec => Lifecycle!Settled
  <1>. DEFINE Final == \A r \in Requests :
          /\ outcome[r] # "None" => outcome'[r] = outcome[r]
          /\ status[r] \in {"Sent", "Failed", "Stopped"} => status'[r] = status[r]
  <1>1. LifecycleIInv /\ [Lifecycle!Next]_Lifecycle!vars => [Final]_Lifecycle!vars
    <2>. SUFFICES ASSUME Lifecycle!TypeOK, Lifecycle!Next PROVE Final
      BY DEF LifecycleIInv
    <2>. USE DEF Lifecycle!TypeOK, Lifecycle!Outcomes
    <2>1. ASSUME NEW S \in SUBSET Requests,
                 Lifecycle!Schedule(S) \/ Lifecycle!SubmitNow(S) \/ Lifecycle!Claim(S)
                 \/ Lifecycle!Stop(S) \/ Lifecycle!Record(S)
          PROVE  Final
      BY <2>1 DEF Lifecycle!Schedule, Lifecycle!SubmitNow, Lifecycle!Claim,
             Lifecycle!Stop, Lifecycle!Record, Lifecycle!SetStatus
    <2>2. ASSUME NEW r \in Requests, Lifecycle!BecomeDue(r) PROVE Final
      BY <2>2 DEF Lifecycle!BecomeDue
    <2>3. ASSUME NEW r \in Requests, NEW o \in {"Sent", "Failed"}, Lifecycle!Send(r, o)
          PROVE  Final
      BY <2>3 DEF Lifecycle!Send
    <2>. QED BY <2>1, <2>2, <2>3 DEF Lifecycle!Next
  <1>. QED BY <1>1, LifecycleInductive, PTL DEF Lifecycle!Spec, Lifecycle!Settled, Final

-----------------------------------------------------------------------------
(* Pipeline implements RequestLifecycle, for every value of the constants. *)
(* The table and the history are the same variables in both, so the        *)
(* mapping is the identity; what there is to show is that each step of a   *)
(* task does to the rows what some step of the life cycle allows.          *)

(* Every step of the pipeline is a step of RequestLifecycle or changes     *)
(* nothing of it.                                                          *)
LEMMA NextImplements == IInv /\ [Next]_vars => [Lifecycle!Next]_Lifecycle!vars
  <1>. SUFFICES ASSUME IInv, [Next]_vars PROVE [Lifecycle!Next]_Lifecycle!vars
    OBVIOUS
  <1>. DEFINE Stutter == UNCHANGED <<status, due, outcome>>
  <1>a. TypeOK /\ Answered \subseteq Results
    BY ChannelTypes DEF IInv
  <1>1. ASSUME NEW h \in Handlers, NEW S \in SUBSET Requests, CreateScheduled(h, S)
        PROVE  Lifecycle!Schedule(S)
    BY <1>1 DEF CreateScheduled, Saved, SetStatus, history,
                 Lifecycle!Schedule, Lifecycle!SetStatus
  <1>2. ASSUME NEW h \in Handlers, NEW S \in SUBSET Requests, CreateImmediate(h, S)
        PROVE  Lifecycle!SubmitNow(S)
    BY <1>2 DEF CreateImmediate, Saved, SetStatus, history,
                 Lifecycle!SubmitNow, Lifecycle!SetStatus
  <1>4. ASSUME NEW t \in Topics, StopTopic(t)
        PROVE  Lifecycle!Stop(Stoppable(t))
    BY <1>4 DEF StopTopic, Stoppable, SetStatus, history, Lifecycle!Stop, Lifecycle!SetStatus
  <1>5. ASSUME Claim PROVE \E S \in SUBSET Requests : Lifecycle!Claim(S)
    <2>1. PICK S \in SUBSET Claimable : status' = SetStatus(S, "Processed")
      BY <1>5 DEF Claim
    <2>2. Lifecycle!Claim(S) /\ S \in SUBSET Requests
      BY <1>5, <1>a, <2>1 DEF Claim, Claimable, SetStatus, history, TypeOK,
                              Lifecycle!Claim, Lifecycle!SetStatus
    <2>. QED BY <2>2
  <1>6. ASSUME NEW r \in Requests, NEW answer \in {"Sent", "Failed"}, SendEmail(r, answer)
        PROVE  Lifecycle!Send(r, answer)
    <2>1. status[r] = "Processed" /\ outcome[r] = "None" /\ r \in due
      BY <1>6, OutboundRows DEF SendEmail, Outbound, IInv, RowsAgree
    <2>. QED BY <1>6, <2>1 DEF SendEmail, tableVars, Lifecycle!Send
  <1>7. ASSUME BulkUpdate PROVE Lifecycle!Record(Reqs(batch)) \/ Stutter
    <2>1. \A m \in batch : /\ m.req \in Requests /\ status[m.req] = "Processed"
                           /\ outcome[m.req] = m.status /\ m.status # "None"
      BY <1>a DEF IInv, AnswersWait, Answered, Results
    <2>2. ASSUME NEW r \in Reqs(batch)
          PROVE  /\ status[r] = "Processed" /\ outcome[r] # "None"
                 /\ AnswerFor(r) = outcome[r]
      <3>1. \E m \in batch : m.req = r
        BY DEF Reqs
      <3>2. /\ (CHOOSE m \in batch : m.req = r) \in batch
            /\ (CHOOSE m \in batch : m.req = r).req = r
        BY <3>1
      <3>. QED BY <3>2, <2>1 DEF AnswerFor
    <2>. QED BY <1>7, <2>2 DEF BulkUpdate, history, Lifecycle!Record
  <1>8. ASSUME NEW m \in batch, UpdateOne(m) PROVE Lifecycle!Record({m.req}) \/ Stutter
    <2>1. /\ m.req \in Requests /\ status[m.req] = "Processed"
          /\ outcome[m.req] = m.status /\ m.status # "None"
      BY <1>a DEF IInv, AnswersWait, Answered, Results
    <2>. QED BY <1>8, <2>1 DEF UpdateOne, SetStatus, history, Lifecycle!Record
  <1>9. ASSUME NEW r \in Requests, BecomeDue(r) PROVE Lifecycle!BecomeDue(r)
    BY <1>9 DEF BecomeDue, history, Lifecycle!BecomeDue
  <1>10. \A S \in SUBSET Requests :
            Lifecycle!Schedule(S) \/ Lifecycle!SubmitNow(S) \/ Lifecycle!Claim(S)
            \/ Lifecycle!Stop(S) \/ Lifecycle!Record(S)
            => Lifecycle!Next
    BY DEF Lifecycle!Next
  <1>11. \A r \in Requests : Lifecycle!BecomeDue(r)
            \/ (\E o \in {"Sent", "Failed"} : Lifecycle!Send(r, o)) => Lifecycle!Next
    BY DEF Lifecycle!Next
  <1>12. Stutter => [Lifecycle!Next]_Lifecycle!vars
    BY DEF Lifecycle!vars
  <1>13. CASE Client
    <2>1. ASSUME NEW h \in Handlers, Disconnect(h) PROVE Stutter
      BY <2>1 DEF Disconnect, tableVars, history
    <2>. QED BY <1>13, <1>1, <1>2, <1>4, <1>10, <1>12, <2>1 DEF Client, Stoppable
  <1>14. ASSUME NEW h \in Handlers, HandlerStep(h) PROVE [Lifecycle!Next]_Lifecycle!vars
    <2>1. Stutter
      BY <1>14 DEF HandlerStep, TrySendOk, TrySendFull, BlockedSendOk, Respond, tableVars,
                   history
    <2>. QED BY <2>1, <1>12
  <1>15. CASE SchedulerStep
    <2>1. Claim \/ Stutter
      BY <1>15 DEF SchedulerStep, FetchContents, Forward, tableVars, history
    <2>. QED BY <2>1, <1>5, <1>10, <1>12
  <1>16. CASE SenderStep
    <2>1. Stutter
      BY <1>16 DEF SenderStep, Recv, Spawn, tableVars, history
    <2>. QED BY <2>1, <1>12
  <1>17. ASSUME NEW r \in Requests, TaskStep(r) \/ BecomeDue(r)
         PROVE  [Lifecycle!Next]_Lifecycle!vars
    <2>1. ASSUME NEW m \in reporting, Report(m) PROVE Stutter
      BY <2>1 DEF Report, tableVars, history
    <2>. QED BY <1>17, <1>6, <1>9, <1>11, <1>12, <2>1 DEF TaskStep
  <1>18. CASE PostStep
    <2>1. CASE PostRecv \/ PostTimeout
      <3>1. Stutter
        BY <2>1 DEF PostRecv, PostTimeout, tableVars, history
      <3>. QED BY <3>1, <1>12
    <2>2. \A m \in batch : m.req \in Requests
      BY <1>a DEF Answered, Results
    <2>3. Reqs(batch) \in SUBSET Requests
      BY <2>2 DEF Reqs
    <2>. QED BY <1>18, <2>1, <2>2, <2>3, <1>7, <1>8, <1>10, <1>12 DEF PostStep
  <1>19. CASE Shutdown \/ CloseDb \/ Restart
    <2>1. Stutter
      BY <1>19 DEF Shutdown, CloseDb, Restart, tableVars, history
    <2>. QED BY <2>1, <1>12
  <1>20. CASE UNCHANGED vars
    <2>1. Stutter
      BY <1>20 DEF vars, tableVars, history
    <2>. QED BY <2>1, <1>12
  <1>. QED BY <1>13, <1>14, <1>15, <1>16, <1>17, <1>18, <1>19, <1>20 DEF Next

(* The service implements RequestLifecycle: whatever interleaving, fault,  *)
(* shutdown or crash, no row does what its life cycle does not allow.      *)
THEOREM PipelineImplements == Spec => Implements
  <1>1. Init => Lifecycle!Init
    BY DEF Init, Lifecycle!Init
  <1>2. IInv /\ [Next]_vars => [Lifecycle!Next]_Lifecycle!vars
    BY NextImplements
  <1>. QED BY <1>1, <1>2, Inductive, PTL DEF Spec, Implements, Lifecycle!Spec

(* So it keeps what RequestLifecycle promises.  A status of the table is   *)
(* never a lie about what SES answered.                                    *)
THEOREM RowsTruthful == Spec => []StatusTruthful
  BY PipelineImplements, LifecycleTruthful, PTL DEF Implements, StatusTruthful

(* No task sends an email before its scheduled time.                       *)
THEOREM RowsOnTime == Spec => []NeverEarly
  BY PipelineImplements, LifecycleTruthful, PTL DEF Implements, NeverEarly

(* No late answer, later claim or restart replaces an answer of SES or     *)
(* takes a row out of Sent, Failed or Stopped.                             *)
THEOREM RowsSettled == Spec => Settled
  BY PipelineImplements, LifecycleSettled, PTL DEF Implements, Settled
=============================================================================
