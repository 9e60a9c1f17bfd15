---------------------------- MODULE SessionProofs ----------------------------
(* Machine-checked proofs about Session, for every value of its constants. *)
(*                                                                         *)
(* NoSilentLoss is not inductive: an acknowledgement removes a table entry *)
(* by its id alone, so one needs that an id names one command, which holds *)
(* because ids grow, because each entry is filed under the latest id its   *)
(* command was sent under, and because the renumbering of a resend is one  *)
(* to one.  ChannelInv collects these facts.                               *)
(*                                                                         *)
(* On it rest: the ticket a command carries, the silence of a closed       *)
(* session, the probe before a timeout, and that a session implements      *)
(* CommandDelivery.                                                        *)
EXTENDS Session, FiniteSetTheorems, SequenceTheorems, TLAPS

IdsGrow ==
    \A w \in wire : w.id < outgoing_command_id /\ w.msg <= Len(msgs)

OneEntryPerId == \A e, f \in unacked_drw : e.id = f.id => e = f

ChannelInv ==
    /\ IsFiniteSet(unacked_drw)
    /\ IdsGrow
    /\ heard \subseteq wire
    /\ AcksUnambiguous
    /\ OneEntryPerId
    /\ PendingIsLatest
    /\ NoSilentLoss

IInv == TypeOK /\ ChannelInv

-----------------------------------------------------------------------------
(* Below the horizon the u16 mask does nothing.                            *)
LEMMA WireIdSmall ==
    ASSUME NEW n \in 0 .. MaxIds - 1
    PROVE  WireId(n) = n /\ n \in WireIds
BY HorizonAssumption DEF WireId, WireIds

(* What Issue hands to the socket: consecutive fresh ids, one per command. *)
LEMMA NumberedSends ==
    ASSUME TypeOK, NEW n \in Nat,
           Len(msgs) + n <= MaxMsgs, outgoing_command_id + n <= MaxIds
    PROVE  /\ Numbered(n) \subseteq Transmission
           /\ IsFiniteSet(Numbered(n))
           /\ \A s \in Numbered(n) :
                /\ s.id >= outgoing_command_id /\ s.id < outgoing_command_id + n
                /\ s.msg > Len(msgs) /\ s.msg <= Len(msgs) + n
           /\ \A s, r \in Numbered(n) : s.id = r.id <=> s.msg = r.msg
           /\ \A m \in Len(msgs) + 1 .. Len(msgs) + n :
                \E s \in Numbered(n) : s.msg = m
<1> DEFINE F(i) == [id |-> WireId(outgoing_command_id + i), msg |-> Len(msgs) + 1 + i]
<1>0. outgoing_command_id \in Nat /\ Len(msgs) \in Nat
  BY HorizonAssumption DEF TypeOK
<1>1. \A i \in 0 .. n - 1 :
        /\ WireId(outgoing_command_id + i) = outgoing_command_id + i
        /\ outgoing_command_id + i \in WireIds
        /\ Len(msgs) + 1 + i \in MsgIds
  BY <1>0, WireIdSmall, HorizonAssumption DEF MsgIds
<1>2. Numbered(n) = {F(i) : i \in 0 .. n - 1}
  BY DEF Numbered
<1>3. Numbered(n) \subseteq Transmission
  BY <1>1, <1>2 DEF Transmission
<1>4. IsFiniteSet(Numbered(n))
  <2>1. IsFiniteSet(0 .. n - 1)
    BY FS_Interval
  <2>2. [i \in 0 .. n - 1 |-> F(i)] \in Surjection(0 .. n - 1, Numbered(n))
    BY <1>2 DEF Surjection
  <2>3. QED BY <2>1, <2>2, FS_Surjection
<1>5. ASSUME NEW s \in Numbered(n)
      PROVE  \E i \in 0 .. n - 1 : s.id = outgoing_command_id + i
                                   /\ s.msg = Len(msgs) + 1 + i
  BY <1>1, <1>2
<1>6. ASSUME NEW s \in Numbered(n)
      PROVE  /\ s.id >= outgoing_command_id /\ s.id < outgoing_command_id + n
             /\ s.msg > Len(msgs) /\ s.msg <= Len(msgs) + n
  BY <1>0, <1>5
<1>7. ASSUME NEW s \in Numbered(n), NEW r \in Numbered(n)
      PROVE  s.id = r.id <=> s.msg = r.msg
  <2>1. PICK i \in 0 .. n - 1 : s.id = outgoing_command_id + i
                               /\ s.msg = Len(msgs) + 1 + i
    BY <1>5
  <2>2. PICK j \in 0 .. n - 1 : r.id = outgoing_command_id + j
                               /\ r.msg = Len(msgs) + 1 + j
    BY <1>5
  <2>3. QED BY <1>0, <2>1, <2>2
<1>8. ASSUME NEW m \in Len(msgs) + 1 .. Len(msgs) + n
      PROVE  \E s \in Numbered(n) : s.msg = m
  <2>1. m - Len(msgs) - 1 \in 0 .. n - 1 /\ F(m - Len(msgs) - 1).msg = m
    BY <1>0
  <2>2. QED BY <2>1, <1>2
<1>9. QED BY <1>3, <1>4, <1>6, <1>7, <1>8

(* The ranks used by a resend number the due entries one to one.           *)
LEMMA RanksDistinct ==
    ASSUME TypeOK, IsFiniteSet(unacked_drw)
    PROVE  /\ IsFiniteSet(Due) /\ Cardinality(Due) \in Nat
           /\ \A e \in Due : Rank(e) \in 0 .. Cardinality(Due) - 1
           /\ \A e, f \in Due : e.id < f.id => Rank(e) < Rank(f)
<1> DEFINE Below(e) == {f \in Due : f.id < e.id}
<1>1. IsFiniteSet(Due) /\ Cardinality(Due) \in Nat
  BY FS_Subset, FS_CardinalityType DEF Due
<1>2. \A e \in Due : e.id \in Nat
  BY HorizonAssumption DEF TypeOK, Due, Pending, WireIds
<1>3. \A e \in Due : IsFiniteSet(Below(e)) /\ Cardinality(Below(e)) \in Nat
  BY <1>1, FS_Subset, FS_CardinalityType
<1>4. ASSUME NEW e \in Due
      PROVE  Rank(e) \in 0 .. Cardinality(Due) - 1
  <2>1. Below(e) \in SUBSET Due /\ Below(e) # Due
    BY <1>2
  <2>2. Cardinality(Below(e)) <= Cardinality(Due)
        /\ Cardinality(Below(e)) # Cardinality(Due)
    BY <1>1, <2>1, FS_Subset
  <2>3. QED BY <1>1, <1>3, <2>2 DEF Rank
<1>5. ASSUME NEW e \in Due, NEW f \in Due, e.id < f.id
      PROVE  Rank(e) < Rank(f)
  <2>1. Below(e) \in SUBSET Below(f) /\ Below(e) # Below(f)
    BY <1>2, <1>5
  <2>2. Cardinality(Below(e)) <= Cardinality(Below(f))
        /\ Cardinality(Below(e)) # Cardinality(Below(f))
    BY <1>3, <2>1, FS_Subset
  <2>3. QED BY <1>3, <2>2 DEF Rank
<1>6. QED BY <1>1, <1>4, <1>5

-----------------------------------------------------------------------------
(* Type correctness.                                                       *)

LifecycleTypeOK ==
    /\ transport \in {"none", "open", "closed", "failed"}
    /\ peer \in {"unresolved", "camera", "nowhere"}
    /\ connected \in BOOLEAN
    /\ sess_timer \in Off .. SessPeriod + Lag
    /\ resend_timer \in Off .. ResendPeriod + Lag

SilenceTypeOK ==
    /\ received \in BOOLEAN
    /\ quiet \in 0 .. TimeoutMs + 1
    /\ probed \in BOOLEAN

HistoryTypeOK ==
    /\ ticket \in Tickets \cup {NoTicket}
    /\ heard \subseteq Transmission
    /\ granted \in Seq(Grant)

CommandsTypeOK ==
    /\ outgoing_command_id \in 0 .. MaxIds
    /\ unacked_drw \subseteq Pending
    /\ msgs \in Seq(Message) /\ Len(msgs) <= MaxMsgs
    /\ wire \subseteq Transmission

LEMMA TypeParts ==
    /\ LifecycleTypeOK /\ SilenceTypeOK /\ CommandsTypeOK /\ HistoryTypeOK
            => TypeOK
    /\ LifecycleTypeOK' /\ SilenceTypeOK' /\ CommandsTypeOK' /\ HistoryTypeOK'
            => TypeOK'
BY DEF TypeOK, LifecycleTypeOK, SilenceTypeOK, CommandsTypeOK, HistoryTypeOK

(* What a step leaves alone keeps its type.                                *)
LEMMA TypeIdle ==
    ASSUME TypeOK
    PROVE  /\ UNCHANGED lifecycle => LifecycleTypeOK'
           /\ UNCHANGED silence => SilenceTypeOK'
           /\ UNCHANGED commands => CommandsTypeOK'
           /\ UNCHANGED <<ticket, history>> => HistoryTypeOK'
BY DEF TypeOK, LifecycleTypeOK, SilenceTypeOK, CommandsTypeOK, HistoryTypeOK,
       lifecycle, silence, commands, history

LEMMA IssueTypes ==
    ASSUME TypeOK, NEW cmds \in Seq(ControlCommands), NEW t \in Tickets \cup {NoTicket},
           Issue(cmds, t)
    PROVE  /\ CommandsTypeOK'
           /\ Len(msgs') = Len(msgs) + Len(cmds)
           /\ \A m \in 1 .. Len(msgs) : msgs'[m] = msgs[m]
           /\ \A m \in Len(msgs) + 1 .. Len(msgs') : msgs'[m].ticket = t
<1> DEFINE new == [i \in 1 .. Len(cmds) |-> [cmd |-> cmds[i], ticket |-> t]]
<1>0. Len(cmds) \in Nat /\ Len(msgs) \in Nat /\ MaxIds \in Nat
      /\ outgoing_command_id \in Nat
  BY HorizonAssumption DEF TypeOK
<1>1. new \in Seq(Message) /\ Len(new) = Len(cmds)
  BY <1>0 DEF Message
<1>2. msgs' = msgs \o new /\ msgs \in Seq(Message)
  BY DEF Issue, TypeOK
<1>3. /\ msgs' \in Seq(Message) /\ Len(msgs') = Len(msgs) + Len(cmds)
      /\ \A m \in 1 .. Len(msgs') :
            msgs'[m] = IF m <= Len(msgs) THEN msgs[m] ELSE new[m - Len(msgs)]
  <2> HIDE DEF new
  <2>1. /\ msgs \o new \in Seq(Message)
        /\ Len(msgs \o new) = Len(msgs) + Len(new)
        /\ \A m \in 1 .. Len(msgs) + Len(new) :
              (msgs \o new)[m] = IF m <= Len(msgs) THEN msgs[m]
                                 ELSE new[m - Len(msgs)]
    BY <1>1, <1>2, ConcatProperties, Zenon
  <2>2. QED BY <1>1, <1>2, <2>1
<1>4. Numbered(Len(cmds)) \subseteq Transmission
  BY <1>0, NumberedSends DEF Issue
<1>5. Fresh(Numbered(Len(cmds))) \subseteq Pending
  BY <1>4, TimingAssumption DEF Fresh, Transmission, Pending
<1>6. CommandsTypeOK'
  BY <1>0, <1>3, <1>4, <1>5 DEF Issue, Register, TypeOK, CommandsTypeOK
<1>7. ASSUME NEW m \in Len(msgs) + 1 .. Len(msgs')
      PROVE  msgs'[m].ticket = t
  <2>1. m \in 1 .. Len(msgs') /\ ~(m <= Len(msgs))
        /\ m - Len(msgs) \in 1 .. Len(cmds)
    BY <1>0, <1>3
  <2>2. msgs'[m] = new[m - Len(msgs)]
    BY <1>3, <2>1
  <2>3. QED BY <2>1, <2>2
<1>8. \A m \in 1 .. Len(msgs) : msgs'[m] = msgs[m]
  <2> HIDE DEF new
  <2>1. QED BY <1>0, <1>3
<1>9. QED BY <1>3, <1>6, <1>7, <1>8

(* The commands that are issued come behind the others, as they are.        *)
LEMMA IssueAppends ==
    ASSUME TypeOK, NEW cmds \in Seq(ControlCommands), NEW t \in Tickets \cup {NoTicket},
           Issue(cmds, t)
    PROVE  /\ Len(msgs') = Len(msgs) + Len(cmds)
           /\ \A m \in 1 .. Len(msgs) : msgs'[m] = msgs[m]
           /\ \A m \in Len(msgs) + 1 .. Len(msgs') :
                msgs'[m].ticket = t /\ msgs'[m].cmd = cmds[m - Len(msgs)]
<1> DEFINE new == [i \in 1 .. Len(cmds) |-> [cmd |-> cmds[i], ticket |-> t]]
<1>1. /\ Len(msgs') = Len(msgs) + Len(cmds)
      /\ \A m \in 1 .. Len(msgs) : msgs'[m] = msgs[m]
      /\ \A m \in Len(msgs) + 1 .. Len(msgs') : msgs'[m].ticket = t
  BY IssueTypes
<1>2. Len(cmds) \in Nat /\ Len(msgs) \in Nat /\ msgs \in Seq(Message)
  BY DEF TypeOK
<1>3. new \in Seq(Message) /\ Len(new) = Len(cmds)
  BY <1>2 DEF Message
<1>4. ASSUME NEW m \in Len(msgs) + 1 .. Len(msgs')
      PROVE  msgs'[m].cmd = cmds[m - Len(msgs)]
  <2>1. m \in 1 .. Len(msgs) + Len(new) /\ ~(m <= Len(msgs))
        /\ m - Len(msgs) \in 1 .. Len(cmds)
    BY <1>1, <1>2, <1>3
  <2>2. msgs' = msgs \o new
    BY DEF Issue
  <2>3. msgs'[m] = new[m - Len(msgs)]
    <3> HIDE DEF new
    <3>1. \A k \in 1 .. Len(msgs) + Len(new) :
             (msgs \o new)[k] = IF k <= Len(msgs) THEN msgs[k] ELSE new[k - Len(msgs)]
      BY <1>2, <1>3, ConcatProperties, Zenon
    <3>2. QED BY <2>1, <2>2, <3>1
  <2>4. QED BY <2>1, <2>3
<1>5. QED BY <1>1, <1>4

LEMMA ResendTypes ==
    ASSUME TypeOK, IsFiniteSet(unacked_drw), ResendTick
    PROVE  CommandsTypeOK'
<1>1. Cardinality(Due) \in Nat
  BY RanksDistinct
<1>2. \A e \in Due : FreshId(e) \in WireIds /\ e.msg \in MsgIds
  <2>1. \A e \in Due : FreshId(e) = WireId(outgoing_command_id + Rank(e))
                       /\ outgoing_command_id + Rank(e) \in 0 .. MaxIds - 1
    BY RanksDistinct, HorizonAssumption
       DEF TypeOK, ResendTick, WithinHorizon, FreshId
  <2>2. QED BY <2>1, WireIdSmall DEF TypeOK, Due, Pending
<1>3. Resent \subseteq Transmission
  BY <1>2 DEF Resent, Transmission
<1>4. Refiled \subseteq Pending
  BY <1>3, TimingAssumption DEF Refiled, Fresh, Transmission, Pending
<1>5. QED BY <1>1, <1>3, <1>4, HorizonAssumption
          DEF TypeOK, ResendTick, WithinHorizon, NotResent, CommandsTypeOK

-----------------------------------------------------------------------------
(* The channel invariant, one lemma per way of touching the channel.       *)

LEMMA ChannelIdle ==
    ASSUME ChannelInv, UNCHANGED <<commands, heard>>
    PROVE  ChannelInv'
BY DEF ChannelInv, IdsGrow, AcksUnambiguous, OneEntryPerId, PendingIsLatest,
       NoSilentLoss, commands

(* New commands: their ids lie above every id in use.                      *)
LEMMA IssueChannel ==
    ASSUME IInv, NEW cmds \in Seq(ControlCommands), NEW t \in Tickets \cup {NoTicket},
           Issue(cmds, t), UNCHANGED heard
    PROVE  ChannelInv'
<1> DEFINE sends == Numbered(Len(cmds))
           fresh == Fresh(sends)
<1>0. TypeOK /\ ChannelInv
  BY DEF IInv
<1>1. Len(cmds) \in Nat /\ Len(msgs) \in Nat /\ outgoing_command_id \in Nat
  BY <1>0, HorizonAssumption DEF TypeOK
<1>2. /\ IsFiniteSet(sends)
      /\ sends \subseteq Transmission
      /\ \A s \in sends :
            /\ s.id >= outgoing_command_id
            /\ s.id < outgoing_command_id + Len(cmds)
            /\ s.msg > Len(msgs) /\ s.msg <= Len(msgs) + Len(cmds)
      /\ \A s, r \in sends : s.id = r.id <=> s.msg = r.msg
      /\ \A m \in Len(msgs) + 1 .. Len(msgs) + Len(cmds) :
            \E s \in sends : s.msg = m
  BY <1>0, <1>1, NumberedSends DEF Issue
<1>3. /\ Len(msgs') = Len(msgs) + Len(cmds)
      /\ outgoing_command_id' = outgoing_command_id + Len(cmds)
      /\ wire' = wire \cup sends
  BY <1>0, IssueTypes DEF Issue
<1>4. \A w \in wire : /\ w \in Transmission /\ w.id \in Nat /\ w.msg \in Nat
                      /\ w.id < outgoing_command_id /\ w.msg <= Len(msgs)
  BY <1>0, HorizonAssumption
     DEF TypeOK, ChannelInv, IdsGrow, Transmission, WireIds, MsgIds
<1>5. \A e \in unacked_drw : /\ [id |-> e.id, msg |-> e.msg] \in wire
                             /\ e.id \in Nat /\ e.id < outgoing_command_id
                             /\ e.msg \in Nat /\ e.msg <= Len(msgs)
  BY <1>0, <1>4 DEF ChannelInv, PendingIsLatest
<1>6. \A s \in sends : s.id \in Nat /\ s.msg \in Nat
  BY <1>2, HorizonAssumption DEF Transmission, WireIds, MsgIds
<1>18. ASSUME NEW e \in unacked_drw, NEW s \in sends
       PROVE  e.id < s.id /\ e.msg < s.msg
  <2>1. /\ s.id \in Nat /\ s.id >= outgoing_command_id
        /\ s.msg \in Nat /\ s.msg > Len(msgs)
    BY <1>2, <1>6
  <2>2. /\ e.id \in Nat /\ e.id < outgoing_command_id
        /\ e.msg \in Nat /\ e.msg <= Len(msgs)
    BY <1>5
  <2>3. QED BY <1>1, <2>1, <2>2
<1>7. unacked_drw' = unacked_drw \cup fresh
  <2>1. \A e \in unacked_drw, s \in sends : s.id # e.id
    <3>1. ASSUME NEW e \in unacked_drw, NEW s \in sends PROVE s.id # e.id
      <4>1. e.id < s.id /\ e.id \in Nat /\ s.id \in Nat
        BY <1>5, <1>6, <1>18
      <4>2. QED BY <4>1
    <3>2. QED BY <3>1
  <2>2. {e \in unacked_drw : \A s \in sends : s.id # e.id} = unacked_drw
    BY <2>1
  <2>3. QED BY <2>2 DEF Issue, Register
<1>8. /\ \A s \in sends : \E e \in fresh : e.id = s.id /\ e.msg = s.msg
      /\ \A e \in fresh : [id |-> e.id, msg |-> e.msg] \in sends
      /\ \A e \in fresh : e = [id |-> e.id, msg |-> e.msg, age |-> 0]
  <2>1. ASSUME NEW s \in sends
        PROVE  \E e \in fresh : e.id = s.id /\ e.msg = s.msg
    <3>1. [id |-> s.id, msg |-> s.msg, age |-> 0] \in fresh
      BY DEF Fresh
    <3>2. QED BY <3>1
  <2>2. ASSUME NEW e \in fresh
        PROVE  /\ [id |-> e.id, msg |-> e.msg] \in sends
               /\ e = [id |-> e.id, msg |-> e.msg, age |-> 0]
    <3>1. PICK s \in sends : e = [id |-> s.id, msg |-> s.msg, age |-> 0]
      BY DEF Fresh
    <3>2. s = [id |-> s.id, msg |-> s.msg]
      BY <1>2 DEF Transmission
    <3>3. e.id = s.id /\ e.msg = s.msg
      BY <3>1
    <3>4. QED BY <3>1, <3>2, <3>3
  <2>3. QED BY <2>1, <2>2
<1>19. ASSUME NEW e \in fresh
       PROVE  \E s \in sends : s.id = e.id /\ s.msg = e.msg
  BY <1>8
<1>9. IsFiniteSet(unacked_drw')
  <2>1. [s \in sends |-> [id |-> s.id, msg |-> s.msg, age |-> 0]]
            \in Surjection(sends, fresh)
    BY DEF Surjection, Fresh
  <2>2. IsFiniteSet(fresh)
    BY <1>2, <2>1, FS_Surjection
  <2>3. QED BY <1>0, <1>7, <2>2, FS_Union DEF ChannelInv
<1>10. IdsGrow'
  BY <1>1, <1>2, <1>3, <1>4, <1>6 DEF IdsGrow
<1>11. (heard \subseteq wire)'
  BY <1>0, <1>3 DEF ChannelInv
<1>12. \A s \in sends : s = [id |-> s.id, msg |-> s.msg]
  BY <1>2 DEF Transmission
<1>13. AcksUnambiguous'
  <2>1. \A v, w \in wire' : v.id = w.id => v = w
    BY <1>0, <1>1, <1>2, <1>3, <1>4, <1>6, <1>12
       DEF ChannelInv, AcksUnambiguous
  <2>2. \A e, f \in unacked_drw' : e.msg = f.msg => e = f
    <3>1. ASSUME NEW e \in unacked_drw, NEW f \in fresh PROVE e.msg # f.msg
      <4>1. PICK s \in sends : s.id = f.id /\ s.msg = f.msg
        BY <1>19
      <4>2. e.msg < s.msg /\ e.msg \in Nat /\ s.msg \in Nat
        BY <1>5, <1>6, <1>18
      <4>3. QED BY <4>1, <4>2
    <3>2. ASSUME NEW e \in fresh, NEW f \in fresh, e.msg = f.msg PROVE e = f
      <4>1. PICK s \in sends : s.id = e.id /\ s.msg = e.msg
        BY <1>19
      <4>2. PICK r \in sends : r.id = f.id /\ r.msg = f.msg
        BY <1>19
      <4>3. e.id = f.id
        BY <1>2, <3>2, <4>1, <4>2
      <4>4. QED BY <1>8, <3>2, <4>3
    <3>3. QED BY <1>0, <1>7, <3>1, <3>2 DEF ChannelInv, AcksUnambiguous
  <2>3. QED BY <2>1, <2>2 DEF AcksUnambiguous
<1>14. OneEntryPerId'
  <2>1. ASSUME NEW e \in unacked_drw, NEW f \in fresh PROVE e.id # f.id
    <3>1. PICK s \in sends : s.id = f.id /\ s.msg = f.msg
      BY <1>19
    <3>2. e.id < s.id /\ e.id \in Nat /\ s.id \in Nat
      BY <1>5, <1>6, <1>18
    <3>3. QED BY <3>1, <3>2
  <2>2. ASSUME NEW e \in fresh, NEW f \in fresh, e.id = f.id PROVE e = f
    <3>1. PICK s \in sends : s.id = e.id /\ s.msg = e.msg
      BY <1>19
    <3>2. PICK r \in sends : r.id = f.id /\ r.msg = f.msg
      BY <1>19
    <3>3. e.msg = f.msg
      BY <1>2, <2>2, <3>1, <3>2
    <3>4. QED BY <1>8, <2>2, <3>3
  <2>3. QED BY <1>0, <1>7, <2>1, <2>2 DEF ChannelInv, OneEntryPerId
<1>15. PendingIsLatest'
  <2>1. ASSUME NEW e \in unacked_drw, NEW w \in wire', w.msg = e.msg
        PROVE  w.id <= e.id
    <3>1. w \notin sends
      <4>1. ASSUME w \in sends PROVE FALSE
        <5>1. e.msg < w.msg /\ e.msg \in Nat /\ w.msg \in Nat
          BY <1>5, <1>6, <1>18, <4>1
        <5>2. QED BY <2>1, <5>1
      <4>2. QED BY <4>1
    <3>2. w \in wire
      BY <1>3, <3>1
    <3>3. QED BY <1>0, <2>1, <3>2 DEF ChannelInv, PendingIsLatest
  <2>2. ASSUME NEW e \in fresh, NEW w \in wire', w.msg = e.msg
        PROVE  w.id <= e.id
    <3>1. PICK s \in sends : s.id = e.id /\ s.msg = e.msg
      BY <1>19
    <3>2. w \in sends
      BY <1>1, <1>2, <1>3, <1>4, <1>6, <2>2, <3>1
    <3>3. w.id = e.id /\ e.id \in Nat
      BY <1>2, <1>6, <2>2, <3>1, <3>2
    <3>4. QED BY <3>3
  <2>3. QED BY <1>3, <1>5, <1>7, <1>8, <2>1, <2>2 DEF PendingIsLatest
<1>16. NoSilentLoss'
  BY <1>0, <1>1, <1>2, <1>3, <1>7, <1>8 DEF ChannelInv, NoSilentLoss
<1>17. QED
  BY <1>9, <1>10, <1>11, <1>13, <1>14, <1>15, <1>16 DEF ChannelInv

(* Acknowledgements: an id the camera has heard is the id of its command.  *)
LEMMA AckChannel ==
    ASSUME IInv, NEW ids \in SUBSET HeardIds, unacked_drw' = Unacked(ids),
           UNCHANGED <<outgoing_command_id, msgs, wire, heard>>
    PROVE  ChannelInv'
<1>0. ChannelInv /\ unacked_drw' \subseteq unacked_drw
  BY DEF IInv, Unacked
<1>1. IsFiniteSet(unacked_drw')
  BY <1>0, FS_Subset DEF ChannelInv
<1>2. NoSilentLoss'
  <2> SUFFICES ASSUME NEW m \in 1 .. Len(msgs), NEW e \in unacked_drw,
                      e.msg = m, e.id \in ids
               PROVE  \E w \in heard : w.msg = m
    BY <1>0 DEF ChannelInv, NoSilentLoss, Unacked
  <2>1. PICK w \in heard : w.id = e.id
    BY DEF HeardIds
  <2>2. [id |-> e.id, msg |-> e.msg] \in wire /\ w \in wire
    BY <1>0 DEF ChannelInv, PendingIsLatest
  <2>3. w = [id |-> e.id, msg |-> e.msg]
    BY <1>0, <2>1, <2>2 DEF ChannelInv, AcksUnambiguous
  <2>4. QED BY <2>3
<1>3. QED
  BY <1>0, <1>1, <1>2 DEF ChannelInv, IdsGrow, AcksUnambiguous, OneEntryPerId,
                          PendingIsLatest

(* A transmission reaches the camera.                                      *)
LEMMA HearChannel ==
    ASSUME IInv, CameraHears
    PROVE  ChannelInv'
<1>1. ChannelInv /\ UNCHANGED commands
      /\ heard \subseteq heard' /\ heard' \subseteq wire
  BY DEF IInv, ChannelInv, CameraHears
<1>2. QED
  BY <1>1 DEF ChannelInv, IdsGrow, AcksUnambiguous, OneEntryPerId,
              PendingIsLatest, NoSilentLoss, commands

(* A resend: every due entry moves to an id of its own above all others.   *)
LEMMA ResendChannel ==
    ASSUME IInv, ResendTick
    PROVE  ChannelInv'
<1> DEFINE Entry(e) == [id |-> FreshId(e), msg |-> e.msg, age |-> 0]
           Sent(e) == [id |-> FreshId(e), msg |-> e.msg]
<1>0. /\ TypeOK /\ ChannelInv
      /\ Cardinality(Due) \in Nat /\ outgoing_command_id \in Nat
      /\ UNCHANGED <<msgs, heard>>
      /\ wire' = wire \cup Resent
      /\ outgoing_command_id' = outgoing_command_id + Cardinality(Due)
      /\ Due \subseteq unacked_drw
  BY RanksDistinct, HorizonAssumption
     DEF IInv, ChannelInv, TypeOK, ResendTick, Due, history
<1>8. \A w \in wire : /\ w.id \in Nat /\ w.id < outgoing_command_id
                      /\ w.msg \in Nat /\ w.msg <= Len(msgs)
  BY <1>0, HorizonAssumption
     DEF TypeOK, Transmission, WireIds, MsgIds, ChannelInv, IdsGrow
<1>1. \A e \in unacked_drw :
         /\ [id |-> e.id, msg |-> e.msg] \in wire
         /\ e.id \in Nat /\ e.id < outgoing_command_id
         /\ e.msg \in Nat /\ e.msg <= Len(msgs)
  BY <1>0, <1>8 DEF ChannelInv, PendingIsLatest
<1>2. \A e \in Due :
         /\ FreshId(e) = outgoing_command_id + Rank(e)
         /\ Rank(e) \in 0 .. Cardinality(Due) - 1
  <2>1. \A e \in Due : Rank(e) \in 0 .. Cardinality(Due) - 1
    BY <1>0, RanksDistinct DEF ChannelInv
  <2>2. \A e \in Due : outgoing_command_id + Rank(e) \in 0 .. MaxIds - 1
    BY <1>0, <2>1, HorizonAssumption DEF ResendTick, WithinHorizon
  <2>3. QED BY <2>1, <2>2, WireIdSmall DEF FreshId
<1>3. \A e \in Due : /\ FreshId(e) \in Nat
                     /\ FreshId(e) >= outgoing_command_id
                     /\ FreshId(e) < outgoing_command_id'
  BY <1>0, <1>2
<1>4. ASSUME NEW e \in Due, NEW f \in Due, FreshId(e) = FreshId(f) \/ e.msg = f.msg
      PROVE  e = f
  <2>1. CASE e.msg = f.msg
    BY <1>0, <2>1 DEF ChannelInv, AcksUnambiguous
  <2>2. CASE FreshId(e) = FreshId(f)
    <3>1. Rank(e) = Rank(f) /\ Rank(e) \in Nat
      BY <1>0, <1>2, <2>2
    <3>2. ~(e.id < f.id) /\ ~(f.id < e.id)
      BY <1>0, <3>1, RanksDistinct DEF ChannelInv
    <3>3. e.id = f.id
      <4>1. e.id \in Nat /\ f.id \in Nat
        BY <1>0, <1>1
      <4>2. QED BY <3>2, <4>1
    <3>4. QED BY <1>0, <3>3 DEF ChannelInv, OneEntryPerId
  <2>3. QED BY <1>4, <2>1, <2>2
<1>5. Refiled = {Entry(e) : e \in Due} /\ Resent = {Sent(e) : e \in Due}
  <2>1. Resent = {Sent(e) : e \in Due}
    BY DEF Resent
  <2>2. ASSUME NEW e \in Due PROVE Entry(e) \in Refiled
    <3>1. Sent(e) \in Resent
      BY <2>1
    <3>2. [id |-> Sent(e).id, msg |-> Sent(e).msg, age |-> 0] \in Refiled
      BY <3>1 DEF Refiled, Fresh
    <3>3. QED BY <3>2
  <2>3. ASSUME NEW x \in Refiled PROVE x \in {Entry(e) : e \in Due}
    <3>1. PICK s \in Resent : x = [id |-> s.id, msg |-> s.msg, age |-> 0]
      BY DEF Refiled, Fresh
    <3>2. PICK e \in Due : s = Sent(e)
      BY <2>1
    <3>3. x = Entry(e)
      BY <3>1, <3>2
    <3>4. QED BY <3>3
  <2>4. QED BY <2>1, <2>2, <2>3
<1>6. unacked_drw' = (unacked_drw \ Due) \cup Refiled
  BY DEF ResendTick, NotResent
<1>7. IsFiniteSet(unacked_drw')
  <2>1. IsFiniteSet(Due) /\ IsFiniteSet(unacked_drw \ Due)
    BY <1>0, FS_Subset DEF ChannelInv
  <2>2. [e \in Due |-> Entry(e)] \in Surjection(Due, Refiled)
    BY <1>5 DEF Surjection
  <2>3. IsFiniteSet(Refiled)
    BY <2>1, <2>2, FS_Surjection
  <2>4. QED BY <1>6, <2>1, <2>3, FS_Union
<1>9. \A s \in Resent : \E e \in Due : s = Sent(e) /\ s.id = FreshId(e)
                                       /\ s.msg = e.msg
  BY <1>5
<1>10. \A x \in Refiled : \E e \in Due : x = Entry(e) /\ x.id = FreshId(e)
                                         /\ x.msg = e.msg
  BY <1>5
<1>11. IdsGrow'
  <2>1. ASSUME NEW w \in wire'
        PROVE  w.id < outgoing_command_id' /\ w.msg <= Len(msgs')
    <3>1. CASE w \in wire
      <4>1. w.id < outgoing_command_id /\ w.id \in Nat /\ w.msg <= Len(msgs)
        BY <1>8, <3>1
      <4>2. QED BY <1>0, <4>1
    <3>2. CASE w \in Resent
      <4>1. PICK e \in Due : w.id = FreshId(e) /\ w.msg = e.msg
        BY <1>9, <3>2
      <4>2. QED BY <1>0, <1>1, <1>3, <4>1
    <3>3. QED BY <1>0, <3>1, <3>2
  <2>2. QED BY <2>1 DEF IdsGrow
<1>12. (heard \subseteq wire)'
  BY <1>0 DEF ChannelInv
<1>13. AcksUnambiguous'
  <2>1. ASSUME NEW v \in wire', NEW w \in wire', v.id = w.id PROVE v = w
    <3>1. CASE v \in wire /\ w \in wire
      BY <1>0, <2>1, <3>1 DEF ChannelInv, AcksUnambiguous
    <3>2. CASE v \in Resent /\ w \in Resent
      <4>1. PICK e \in Due : v = Sent(e) /\ v.id = FreshId(e)
        BY <1>9, <3>2
      <4>2. PICK f \in Due : w = Sent(f) /\ w.id = FreshId(f)
        BY <1>9, <3>2
      <4>3. e = f
        BY <1>4, <2>1, <4>1, <4>2
      <4>4. QED BY <4>1, <4>2, <4>3
    <3>3. ASSUME NEW x \in wire, NEW y \in Resent PROVE x.id # y.id
      <4>1. PICK e \in Due : y.id = FreshId(e)
        BY <1>9
      <4>2. QED BY <1>0, <1>3, <1>8, <4>1
    <3>4. QED BY <1>0, <2>1, <3>1, <3>2, <3>3
  <2>2. ASSUME NEW e \in unacked_drw', NEW f \in unacked_drw', e.msg = f.msg
        PROVE  e = f
    <3>1. CASE e \in unacked_drw \ Due /\ f \in unacked_drw \ Due
      BY <1>0, <2>2, <3>1 DEF ChannelInv, AcksUnambiguous
    <3>2. ASSUME NEW x \in unacked_drw \ Due, NEW y \in Refiled, x.msg = y.msg
          PROVE  FALSE
      <4>1. PICK d \in Due : y.msg = d.msg
        BY <1>10
      <4>2. QED BY <1>0, <3>2, <4>1 DEF ChannelInv, AcksUnambiguous
    <3>3. CASE e \in Refiled /\ f \in Refiled
      <4>1. PICK x \in Due : e = Entry(x) /\ e.msg = x.msg
        BY <1>10, <3>3
      <4>2. PICK y \in Due : f = Entry(y) /\ f.msg = y.msg
        BY <1>10, <3>3
      <4>3. x = y
        BY <1>4, <2>2, <4>1, <4>2
      <4>4. QED BY <4>1, <4>2, <4>3
    <3>4. QED BY <1>6, <2>2, <3>1, <3>2, <3>3
  <2>3. QED BY <2>1, <2>2 DEF AcksUnambiguous
<1>14. OneEntryPerId'
  <2>1. ASSUME NEW e \in unacked_drw', NEW f \in unacked_drw', e.id = f.id
        PROVE  e = f
    <3>1. CASE e \in unacked_drw \ Due /\ f \in unacked_drw \ Due
      BY <1>0, <2>1, <3>1 DEF ChannelInv, OneEntryPerId
    <3>2. ASSUME NEW x \in unacked_drw \ Due, NEW y \in Refiled
          PROVE  x.id # y.id
      <4>1. PICK d \in Due : y.id = FreshId(d)
        BY <1>10
      <4>2. x.id \in Nat /\ x.id < outgoing_command_id
        BY <1>1
      <4>3. QED BY <1>0, <1>3, <4>1, <4>2
    <3>3. CASE e \in Refiled /\ f \in Refiled
      <4>1. PICK x \in Due : e = Entry(x) /\ e.id = FreshId(x)
        BY <1>10, <3>3
      <4>2. PICK y \in Due : f = Entry(y) /\ f.id = FreshId(y)
        BY <1>10, <3>3
      <4>3. x = y
        BY <1>4, <2>1, <4>1, <4>2
      <4>4. QED BY <4>1, <4>2, <4>3
    <3>4. QED BY <1>6, <2>1, <3>1, <3>2, <3>3
  <2>2. QED BY <2>1 DEF OneEntryPerId
<1>15. PendingIsLatest'
  <2>1. ASSUME NEW e \in unacked_drw \ Due, NEW w \in wire', w.msg = e.msg
        PROVE  w.id <= e.id
    <3>1. w \notin Resent
      <4>1. ASSUME NEW d \in Due PROVE d.msg # e.msg
        BY <1>0 DEF ChannelInv, AcksUnambiguous
      <4>2. QED BY <1>9, <2>1, <4>1
    <3>2. QED BY <1>0, <2>1, <3>1 DEF ChannelInv, PendingIsLatest
  <2>2. ASSUME NEW x \in Refiled
        PROVE  /\ [id |-> x.id, msg |-> x.msg] \in Resent
               /\ \A w \in wire' : w.msg = x.msg => w.id <= x.id
    <3>1. PICK e \in Due : x.id = FreshId(e) /\ x.msg = e.msg
      BY <1>10
    <3>2. Sent(e) \in Resent
      BY <1>5
    <3>3. ASSUME NEW w \in wire PROVE w.id <= x.id
      BY <1>0, <1>3, <1>8, <3>1
    <3>4. ASSUME NEW w \in Resent, w.msg = x.msg PROVE w.id <= x.id
      <4>1. PICK f \in Due : w.id = FreshId(f) /\ w.msg = f.msg
        BY <1>9
      <4>2. e = f
        BY <1>4, <3>1, <3>4, <4>1
      <4>3. QED BY <1>3, <3>1, <4>1, <4>2
    <3>5. QED BY <1>0, <3>1, <3>2, <3>3, <3>4
  <2>3. QED BY <1>0, <1>1, <1>6, <2>1, <2>2 DEF PendingIsLatest
<1>16. NoSilentLoss'
  <2>1. ASSUME NEW e \in unacked_drw
        PROVE  \E x \in unacked_drw' : x.msg = e.msg
    <3>1. CASE e \in Due
      <4>1. Entry(e) \in unacked_drw' /\ Entry(e).msg = e.msg
        BY <1>5, <1>6, <3>1
      <4>2. QED BY <4>1
    <3>2. CASE e \notin Due
      BY <1>6, <3>2
    <3>3. QED BY <3>1, <3>2
  <2>2. QED BY <1>0, <2>1 DEF ChannelInv, NoSilentLoss
<1>17. QED
  BY <1>7, <1>11, <1>12, <1>13, <1>14, <1>15, <1>16 DEF ChannelInv

(* A tick only ages the pending entries.                                   *)
LEMMA TickChannel ==
    ASSUME IInv, Tick
    PROVE  ChannelInv'
<1> DEFINE Aged(e) == [e EXCEPT !.age = Capped(@, RetryAfter + 1)]
<1>0. /\ TypeOK /\ ChannelInv
      /\ unacked_drw' = {Aged(e) : e \in unacked_drw}
      /\ UNCHANGED <<outgoing_command_id, msgs, wire, heard>>
  BY DEF IInv, Tick, history
<1>1. \A e \in unacked_drw : Aged(e).id = e.id /\ Aged(e).msg = e.msg
  BY <1>0 DEF TypeOK, Pending
<1>2. \A x \in unacked_drw' : \E e \in unacked_drw :
         x = Aged(e) /\ x.id = e.id /\ x.msg = e.msg
  BY <1>0, <1>1
<1>3. IsFiniteSet(unacked_drw')
  <2>1. [e \in unacked_drw |-> Aged(e)] \in Surjection(unacked_drw, unacked_drw')
    BY <1>0 DEF Surjection
  <2>2. QED BY <1>0, <2>1, FS_Surjection DEF ChannelInv
<1> HIDE DEF Aged
<1>4. AcksUnambiguous' /\ OneEntryPerId'
  <2>1. ASSUME NEW x \in unacked_drw', NEW y \in unacked_drw',
               x.id = y.id \/ x.msg = y.msg
        PROVE  x = y
    <3>1. PICK e \in unacked_drw : x = Aged(e) /\ x.id = e.id /\ x.msg = e.msg
      BY <1>2
    <3>2. PICK f \in unacked_drw : y = Aged(f) /\ y.id = f.id /\ y.msg = f.msg
      BY <1>2
    <3>3. e = f
      BY <1>0, <2>1, <3>1, <3>2 DEF ChannelInv, AcksUnambiguous, OneEntryPerId
    <3>4. QED BY <3>1, <3>2, <3>3
  <2>2. QED BY <1>0, <2>1 DEF ChannelInv, AcksUnambiguous, OneEntryPerId
<1>5. PendingIsLatest'
  BY <1>0, <1>2 DEF ChannelInv, PendingIsLatest
<1>6. NoSilentLoss'
  <2>1. ASSUME NEW e \in unacked_drw
        PROVE  \E x \in unacked_drw' : x.msg = e.msg
    BY <1>0, <1>1
  <2>2. QED BY <1>0, <2>1 DEF ChannelInv, NoSilentLoss
<1>7. QED
  BY <1>0, <1>3, <1>4, <1>5, <1>6 DEF ChannelInv, IdsGrow

-----------------------------------------------------------------------------
(* One step of the session.                                                *)

LEMMA Singleton == ASSUME NEW S, NEW c \in S PROVE <<c>> \in Seq(S)
OBVIOUS

LEMMA DisconnectTypes ==
    ASSUME TypeOK, Disconnect
    PROVE  /\ transport' \in {"none", "open", "closed", "failed"}
           /\ connected' \in BOOLEAN
           /\ sess_timer' \in Off .. SessPeriod + Lag
           /\ resend_timer' \in Off .. ResendPeriod + Lag
<1>1. transport' \in {"none", "open", "closed", "failed"}
  BY DEF TypeOK, Disconnect, CloseTransport
<1>2. connected' \in BOOLEAN
  BY DEF TypeOK, Disconnect
<1>3. sess_timer' \in Off .. SessPeriod + Lag
  BY TimingAssumption DEF TypeOK, Disconnect, Off
<1>4. resend_timer' \in Off .. ResendPeriod + Lag
  BY TimingAssumption DEF TypeOK, Disconnect, ResendTimerCancelled, Off
<1>5. QED BY <1>1, <1>2, <1>3, <1>4

LEMMA CountsTypes == Counts => SilenceTypeOK'
<1>1. Counts => received' \in BOOLEAN /\ probed' \in BOOLEAN
  BY DEF Counts
<1>2. Counts => quiet' \in 0 .. TimeoutMs + 1
  BY TimingAssumption DEF Counts
<1>3. QED BY <1>1, <1>2 DEF SilenceTypeOK

LEMMA IssueStep ==
    ASSUME IInv, NEW cmds \in Seq(ControlCommands), NEW t \in Tickets \cup {NoTicket},
           Issue(cmds, t), Counts, UNCHANGED lifecycle, UNCHANGED heard,
           HistoryTypeOK'
    PROVE  IInv'
<1>1. TypeOK'
  BY IssueTypes, CountsTypes, TypeIdle, TypeParts DEF IInv
<1>2. ChannelInv'
  BY IssueChannel
<1>3. QED BY <1>1, <1>2 DEF IInv

(* A step that leaves the channel alone only has to keep the types of the  *)
(* variables it changes.                                                   *)
LEMMA IdleStep ==
    ASSUME IInv, UNCHANGED <<commands, heard>>,
           LifecycleTypeOK', SilenceTypeOK', HistoryTypeOK'
    PROVE  IInv'
<1>1. UNCHANGED commands
  OBVIOUS
<1>2. TypeOK'
  BY <1>1, TypeIdle, TypeParts DEF IInv
<1>3. QED BY <1>2, ChannelIdle DEF IInv

LEMMA IInvStep == IInv /\ [Next]_vars => IInv'
<1> SUFFICES ASSUME IInv, [Next]_vars PROVE IInv'
  OBVIOUS
<1>0. TypeOK /\ ChannelInv
  BY DEF IInv
<1>1. CASE UNCHANGED vars
  BY <1>0, <1>1, TypeIdle, IdleStep DEF vars, history
<1>2. CASE ConnectStart
  <2>1. LifecycleTypeOK'
    BY <1>0, <1>2 DEF ConnectStart, TypeOK, LifecycleTypeOK
  <2>2. QED BY <1>0, <1>2, <2>1, TypeIdle, IdleStep DEF ConnectStart, history
<1>3. CASE ConnectFail
  <2>1. LifecycleTypeOK'
    BY <1>0, <1>3 DEF ConnectFail, TypeOK, LifecycleTypeOK
  <2>2. QED BY <1>0, <1>3, <2>1, TypeIdle, IdleStep DEF ConnectFail, history
<1>4. CASE ConnectionMade
  <2>1. LifecycleTypeOK'
    BY <1>0, <1>4, TimingAssumption
       DEF ConnectionMade, TypeOK, LifecycleTypeOK, Off
  <2>2. SilenceTypeOK'
    BY <1>0, <1>4, TimingAssumption DEF ConnectionMade, TypeOK, SilenceTypeOK
  <2>3. QED BY <1>0, <1>4, <2>1, <2>2, TypeIdle, IdleStep
            DEF ConnectionMade, history
<1>5. CASE HostClose
  <2>1. LifecycleTypeOK'
    BY <1>0, <1>5, DisconnectTypes DEF HostClose, TypeOK, LifecycleTypeOK
  <2>2. QED BY <1>0, <1>5, <2>1, TypeIdle, IdleStep DEF HostClose, history
<1>6. CASE CameraHears
  <2>1. HistoryTypeOK'
    BY <1>0, <1>6 DEF CameraHears, TypeOK, HistoryTypeOK
  <2>2. TypeOK'
    BY <1>0, <1>6, <2>1, TypeIdle, TypeParts DEF CameraHears
  <2>3. QED BY <1>6, <2>2, HearChannel DEF IInv
<1>7. CASE ReceiveP2pRdy
  <2>1. <<"ConnectUser">> \in Seq(ControlCommands)
    <3>1. "ConnectUser" \in ControlCommands
      BY DEF ControlCommands
    <3>2. QED BY <3>1, Singleton, Zenon
  <2>2. ticket \in Tickets \cup {NoTicket} /\ HistoryTypeOK'
    BY <1>0, <1>7, TypeIdle DEF ReceiveP2pRdy, TypeOK
  <2>3. QED BY <1>7, <2>1, <2>2, IssueStep DEF ReceiveP2pRdy, history
<1>8. ASSUME NEW ids \in SUBSET HeardIds, ReceiveDrwAck(ids) PROVE IInv'
  <2>1. CommandsTypeOK'
    BY <1>0, <1>8 DEF ReceiveDrwAck, Unacked, TypeOK, CommandsTypeOK
  <2>2. TypeOK'
    BY <1>0, <1>8, <2>1, CountsTypes, TypeIdle, TypeParts DEF ReceiveDrwAck
  <2>3. QED BY <1>8, <2>2, AckChannel DEF ReceiveDrwAck, history, IInv
<1>9. ASSUME NEW ids \in SUBSET HeardIds, ReceiveCroppedDrwAck(ids) PROVE IInv'
  <2>1. CommandsTypeOK'
    BY <1>0, <1>9 DEF ReceiveCroppedDrwAck, Unacked, TypeOK, CommandsTypeOK
  <2>2. TypeOK'
    BY <1>0, <1>9, <2>1, TypeIdle, TypeParts DEF ReceiveCroppedDrwAck
  <2>3. QED BY <1>9, <2>2, AckChannel DEF ReceiveCroppedDrwAck, history, IInv
<1>10. ASSUME NEW t \in Tickets, ReceiveConnectUserAck(t) PROVE IInv'
  <2>1. t \in Tickets \cup {NoTicket}
    OBVIOUS
  <2>2. HistoryTypeOK'
    <3>1. Len(msgs) \in 0 .. MaxMsgs
      BY <1>0, HorizonAssumption DEF TypeOK
    <3>2. [ticket |-> t, issued |-> Len(msgs)] \in Grant
      BY <3>1 DEF Grant
    <3>3. QED BY <1>0, <1>10, <3>2 DEF ReceiveConnectUserAck, TypeOK, HistoryTypeOK
  <2>3. QED BY <1>10, <2>1, <2>2, IssueStep, CommandsAssumption
            DEF ReceiveConnectUserAck, Login
<1>11. CASE ReceiveWifiSettingsAck
  <2>1. <<"ListWifi">> \in Seq(ControlCommands)
    <3>1. "ListWifi" \in ControlCommands
      BY DEF ControlCommands
    <3>2. QED BY <3>1, Singleton, Zenon
  <2>2. ticket \in Tickets \cup {NoTicket} /\ HistoryTypeOK'
    BY <1>0, <1>11, TypeIdle DEF ReceiveWifiSettingsAck, TypeOK
  <2>3. QED BY <1>11, <2>1, <2>2, IssueStep DEF ReceiveWifiSettingsAck, history
<1>12. ASSUME NEW reply \in ListWifiReplies, ReceiveListWifiAck(reply) PROVE IInv'
  <2>1. reply \in Seq(ControlCommands)
    BY CommandsAssumption
  <2>2. ticket \in Tickets \cup {NoTicket} /\ HistoryTypeOK'
    BY <1>0, <1>12, TypeIdle DEF ReceiveListWifiAck, TypeOK
  <2>3. QED BY <1>12, <2>1, <2>2, IssueStep DEF ReceiveListWifiAck, history
<1>13. CASE ReceiveOther
  BY <1>0, <1>13, CountsTypes, TypeIdle, IdleStep DEF ReceiveOther, history
<1>14. CASE ReceiveAlive
  BY <1>0, <1>14, TypeIdle, IdleStep DEF ReceiveAlive, history
<1>15. ASSUME NEW len \in CloseLengths, ReceiveClose(len) PROVE IInv'
  <2>1. LifecycleTypeOK' /\ SilenceTypeOK'
    <3>1. CASE Disconnect /\ Counts
      BY <1>0, <1>15, <3>1, DisconnectTypes, CountsTypes
         DEF ReceiveClose, TypeOK, LifecycleTypeOK
    <3>2. CASE UNCHANGED <<lifecycle, silence>>
      BY <1>0, <3>2, TypeIdle
    <3>3. QED BY <1>15, <3>1, <3>2 DEF ReceiveClose
  <2>2. HistoryTypeOK'
    BY <1>0, <1>15 DEF ReceiveClose, TypeOK, HistoryTypeOK, history
  <2>3. QED BY <1>15, <2>1, <2>2, IdleStep DEF ReceiveClose, history
<1>16. CASE SessTick
  <2>1. LifecycleTypeOK'
    <3>1. CASE Disconnect
      BY <1>0, <1>16, <3>1, DisconnectTypes DEF SessTick, TypeOK, LifecycleTypeOK
    <3>2. CASE sess_timer' \in {Off, 0}
               /\ UNCHANGED <<connected, resend_timer, transport>>
      BY <1>0, <1>16, <3>2, TimingAssumption
         DEF SessTick, TypeOK, LifecycleTypeOK, Off
    <3>3. QED BY <1>16, <3>1, <3>2 DEF SessTick
  <2>2. SilenceTypeOK'
    BY <1>0, <1>16 DEF SessTick, NeedsProbe, TypeOK, SilenceTypeOK
  <2>3. QED BY <1>0, <1>16, <2>1, <2>2, TypeIdle, IdleStep DEF SessTick, history
<1>17. CASE ResendTick
  <2>1. LifecycleTypeOK'
    BY <1>0, <1>17, TimingAssumption
       DEF ResendTick, AsleepAgain, TypeOK, LifecycleTypeOK, Off
  <2>2. CommandsTypeOK'
    BY <1>0, <1>17, ResendTypes DEF ChannelInv
  <2>3. TypeOK'
    BY <1>0, <1>17, <2>1, <2>2, TypeIdle, TypeParts DEF ResendTick
  <2>4. QED BY <1>17, <2>3, ResendChannel DEF IInv
<1>18. CASE Tick
  <2>1. CommandsTypeOK'
    <3>1. ASSUME NEW e \in unacked_drw
          PROVE  [e EXCEPT !.age = Capped(@, RetryAfter + 1)] \in Pending
      <4>1. Capped(e.age, RetryAfter + 1) \in 0 .. RetryAfter + 1
        BY <1>0, TimingAssumption DEF TypeOK, Pending, Capped
      <4>2. QED BY <1>0, <4>1 DEF TypeOK, Pending
    <3>2. QED BY <1>0, <1>18, <3>1 DEF Tick, TypeOK, CommandsTypeOK
  <2>2. LifecycleTypeOK'
    <3>1. sess_timer' \in Off .. SessPeriod + Lag
      BY <1>0, <1>18, TimingAssumption DEF Tick, TypeOK, Slept, Capped, Off
    <3>2. resend_timer' \in Off .. ResendPeriod + Lag
      <4>1. resend_timer' = Slept(resend_timer, ResendPeriod)
        BY <1>18 DEF Tick
      <4>2. QED BY <1>0, <4>1, TimingAssumption DEF TypeOK, Slept, Capped, Off
    <3>3. QED BY <1>0, <1>18, <3>1, <3>2 DEF Tick, TypeOK, LifecycleTypeOK
  <2>3. SilenceTypeOK'
    <3>1. quiet' \in 0 .. TimeoutMs + 1
      BY <1>0, <1>18, TimingAssumption DEF Tick, TypeOK, Capped
    <3>2. QED BY <1>0, <1>18, <3>1 DEF Tick, TypeOK, SilenceTypeOK
  <2>4. TypeOK'
    BY <1>0, <1>18, <2>1, <2>2, <2>3, TypeIdle, TypeParts DEF Tick
  <2>5. QED BY <1>18, <2>4, TickChannel DEF IInv
<1>19. QED
  BY <1>1, <1>2, <1>3, <1>4, <1>5, <1>6, <1>7, <1>8, <1>9, <1>10, <1>11, <1>12,
     <1>13, <1>14, <1>15, <1>16, <1>17, <1>18
     DEF Next, Endpoint, Receive, Timers

LEMMA IInvInit == Init => IInv
<1> SUFFICES ASSUME Init PROVE IInv
  OBVIOUS
<1>1. LifecycleTypeOK /\ SilenceTypeOK
  <2>1. /\ sess_timer \in Off .. SessPeriod + Lag
        /\ resend_timer \in Off .. ResendPeriod + Lag
        /\ quiet \in 0 .. TimeoutMs + 1
    BY TimingAssumption DEF Init, Off
  <2>2. connected \in BOOLEAN /\ received \in BOOLEAN /\ probed \in BOOLEAN
    BY DEF Init
  <2>3. QED BY <2>1, <2>2 DEF Init, LifecycleTypeOK, SilenceTypeOK
<1>2. CommandsTypeOK /\ HistoryTypeOK
  <2>1. <<>> \in Seq(Message) /\ Len(<<>>) = 0
    OBVIOUS
  <2>2. CommandsTypeOK
    BY <2>1, HorizonAssumption DEF Init, CommandsTypeOK
  <2>3. HistoryTypeOK
    BY DEF Init, HistoryTypeOK
  <2>4. QED BY <2>2, <2>3
<1>3. ChannelInv
  BY FS_EmptySet
     DEF Init, ChannelInv, IdsGrow, AcksUnambiguous, OneEntryPerId,
         PendingIsLatest, NoSilentLoss
<1>4. QED BY <1>1, <1>2, <1>3, TypeParts DEF IInv

(* The inductive invariant holds in every behaviour of the session code    *)
(* (session.py, handlers.py): the id counter, the table of pending         *)
(* commands and what has been sent agree, whatever the network does.       *)
THEOREM InductiveInvariant == Spec => []IInv
BY IInvInit, IInvStep, PTL DEF Spec

(* Type correctness of a session, for every behaviour.                     *)
THEOREM TypeCorrect == Spec => []TypeOK
<1>1. IInv => TypeOK
  BY DEF IInv
<1>2. QED BY InductiveInvariant, <1>1, PTL

(* No command a session issued is forgotten: it stays in the table of      *)
(* pending commands until the camera has heard it (session.py send,        *)
(* ack_drw, _resend_timer).                                                *)
THEOREM NeverSilentlyLost == Spec => []NoSilentLoss
<1>1. IInv => NoSilentLoss
  BY DEF IInv, ChannelInv
<1>2. QED BY InductiveInvariant, <1>1, PTL

(* Within one lap of the u16 id space an acknowledgement names exactly one *)
(* command, and a retransmission replaces the entry it retries.            *)
THEOREM AcksAlwaysUnambiguous == Spec => []AcksUnambiguous
<1>1. IInv => AcksUnambiguous
  BY DEF IInv, ChannelInv
<1>2. QED BY InductiveInvariant, <1>1, PTL

(* The table files a command under the id it was last sent with.           *)
THEOREM PendingAlwaysLatest == Spec => []PendingIsLatest
<1>1. IInv => PendingIsLatest
  BY DEF IInv, ChannelInv
<1>2. QED BY InductiveInvariant, <1>1, PTL

-----------------------------------------------------------------------------
(* Tickets.  What the next command will carry, `ticket`, is the ticket of    *)
(* the last grant: no grant counts more commands than were issued.          *)

TicketInv ==
    /\ TicketDiscipline
    /\ HeldBefore(Len(msgs) + 1, ticket)
    /\ \A i \in 1 .. Len(granted) : granted[i].issued <= Len(msgs)

LEMMA TicketIdle ==
    ASSUME TicketInv, UNCHANGED <<msgs, ticket, granted>>
    PROVE  TicketInv'
BY DEF TicketInv, TicketDiscipline, HeldBefore

LEMMA GrantTypes ==
    ASSUME TypeOK
    PROVE  /\ Len(granted) \in Nat
           /\ \A i \in 1 .. Len(granted) : granted[i].issued \in Nat
<1>1. granted \in Seq(Grant)
  BY DEF TypeOK
<1>2. \A i \in 1 .. Len(granted) : granted[i] \in Grant
  BY <1>1
<1>3. QED BY <1>1, <1>2, HorizonAssumption DEF Grant

(* Commands issued without a new grant: the ticket held is the last grant's *)
(* for all of them and for those after them.                                *)
LEMMA TicketIssue ==
    ASSUME TypeOK, TicketInv,
           NEW cmds \in Seq(ControlCommands), Issue(cmds, ticket),
           UNCHANGED <<ticket, granted>>
    PROVE  TicketInv'
<1>1. /\ Len(msgs) \in Nat /\ Len(cmds) \in Nat
      /\ Len(msgs') = Len(msgs) + Len(cmds)
      /\ \A m \in 1 .. Len(msgs) : msgs'[m] = msgs[m]
      /\ \A m \in Len(msgs) + 1 .. Len(msgs') : msgs'[m].ticket = ticket
  BY IssueTypes DEF TypeOK
<1>2. /\ Len(granted) \in Nat
      /\ \A i \in 1 .. Len(granted) : granted[i].issued \in Nat
  BY GrantTypes
<1>3. ASSUME NEW m \in Nat, m > Len(msgs)
      PROVE  HeldBefore(m, ticket)'
  BY <1>1, <1>2, <1>3 DEF TicketInv, HeldBefore
<1>4. ASSUME NEW m \in 1 .. Len(msgs')
      PROVE  HeldBefore(m, msgs[m].ticket)'
  <2>1. CASE m \in 1 .. Len(msgs)
    BY <1>1, <2>1 DEF TicketInv, TicketDiscipline, HeldBefore
  <2>2. CASE m \in Len(msgs) + 1 .. Len(msgs')
    <3>1. m \in Nat /\ m > Len(msgs) /\ msgs'[m].ticket = ticket'
      BY <1>1, <2>2
    <3>2. HeldBefore(m, ticket)'
      BY <1>3, <3>1
    <3>3. QED BY <3>1, <3>2 DEF HeldBefore
  <2>3. QED BY <1>1, <2>1, <2>2
<1>5. HeldBefore(Len(msgs) + 1, ticket)'
  <2>1. Len(msgs') + 1 \in Nat /\ Len(msgs') + 1 > Len(msgs)
    BY <1>1
  <2>2. QED BY <1>3, <2>1 DEF HeldBefore
<1>6. \A i \in 1 .. Len(granted') : granted'[i].issued <= Len(msgs')
  BY <1>1, <1>2 DEF TicketInv
<1>7. QED BY <1>4, <1>5, <1>6 DEF TicketInv, TicketDiscipline

(* A login: the new grant is behind every command so far, and before every  *)
(* one that follows.                                                        *)
LEMMA TicketGrant ==
    ASSUME TypeOK, TicketInv, NEW t \in Tickets, ReceiveConnectUserAck(t)
    PROVE  TicketInv'
<1>0. t \in Tickets \cup {NoTicket} /\ LoginCommands \in Seq(ControlCommands)
      /\ Issue(LoginCommands, t)
  BY CommandsAssumption DEF ReceiveConnectUserAck, Login
<1>1. /\ Len(msgs) \in Nat /\ Len(LoginCommands) \in Nat
      /\ Len(msgs') = Len(msgs) + Len(LoginCommands)
      /\ \A m \in 1 .. Len(msgs) : msgs'[m] = msgs[m]
      /\ \A m \in Len(msgs) + 1 .. Len(msgs') : msgs'[m].ticket = t
  BY <1>0, IssueTypes DEF TypeOK
<1>2. /\ Len(granted) \in Nat
      /\ \A i \in 1 .. Len(granted) : granted[i].issued \in Nat
  BY GrantTypes
<1>3. /\ Len(granted') = Len(granted) + 1
      /\ \A i \in 1 .. Len(granted) : granted'[i] = granted[i]
      /\ granted'[Len(granted) + 1].ticket = t
      /\ granted'[Len(granted) + 1].issued = Len(msgs)
  BY DEF TypeOK, ReceiveConnectUserAck
<1>4. ASSUME NEW m \in Nat, m > Len(msgs)
      PROVE  HeldBefore(m, t)'
  <2>1. /\ Len(granted) + 1 \in 1 .. Len(granted')
        /\ granted'[Len(granted) + 1].issued < m
        /\ Len(granted) + 1 + 1 .. Len(granted') = {}
    BY <1>1, <1>2, <1>3, <1>4
  <2>2. QED BY <1>3, <2>1 DEF HeldBefore
<1>5. ASSUME NEW m \in 1 .. Len(msgs)
      PROVE  HeldBefore(m, msgs[m].ticket)'
  <2>1. HeldBefore(m, msgs[m].ticket) /\ m <= Len(msgs) /\ msgs'[m] = msgs[m]
    BY <1>1 DEF TicketInv, TicketDiscipline
  <2>2. \A i \in 1 .. Len(granted') : i \in 1 .. Len(granted) \/ i = Len(granted) + 1
    BY <1>2, <1>3
  <2>3. CASE \A i \in 1 .. Len(granted) : granted[i].issued >= m
    <3>1. \A i \in 1 .. Len(granted') : granted'[i].issued >= m
      BY <1>1, <1>3, <2>1, <2>2, <2>3
    <3>2. msgs[m].ticket = NoTicket
      BY <1>1, <1>2, <2>1, <2>3 DEF HeldBefore
    <3>3. QED BY <2>1, <3>1, <3>2 DEF HeldBefore
  <2>4. CASE ~ \A i \in 1 .. Len(granted) : granted[i].issued >= m
    <3>1. PICK i \in 1 .. Len(granted) :
            /\ granted[i].issued < m
            /\ granted[i].ticket = msgs[m].ticket
            /\ \A j \in i + 1 .. Len(granted) : granted[j].issued >= m
      BY <2>1, <2>4 DEF HeldBefore
    <3>2. ASSUME NEW j \in i + 1 .. Len(granted')
          PROVE  granted'[j].issued >= m
      <4>1. j \in i + 1 .. Len(granted) \/ j = Len(granted) + 1
        <5>1. Len(granted') = Len(granted) + 1 /\ Len(granted) \in Nat /\ i \in Nat
          BY <1>2, <1>3, <3>1
        <5>2. QED BY <3>2, <5>1
      <4>2. CASE j \in i + 1 .. Len(granted)
        <5>1. j \in 1 .. Len(granted) /\ granted[j].issued >= m
          BY <1>2, <3>1, <4>2
        <5>2. QED BY <1>3, <5>1
      <4>3. CASE j = Len(granted) + 1
        BY <1>1, <1>3, <2>1, <4>3
      <4>4. QED BY <4>1, <4>2, <4>3
    <3>3. i \in 1 .. Len(granted') /\ granted'[i] = granted[i]
      BY <1>2, <1>3
    <3>4. QED BY <2>1, <3>1, <3>2, <3>3 DEF HeldBefore
  <2>5. QED BY <2>3, <2>4
<1>6. ASSUME NEW m \in 1 .. Len(msgs')
      PROVE  HeldBefore(m, msgs[m].ticket)'
  <2>1. CASE m \in 1 .. Len(msgs)
    BY <1>5, <2>1
  <2>2. CASE m \in Len(msgs) + 1 .. Len(msgs')
    <3>1. m \in Nat /\ m > Len(msgs) /\ msgs'[m].ticket = t
      BY <1>1, <2>2
    <3>2. HeldBefore(m, t)'
      BY <1>4, <3>1
    <3>3. QED BY <3>1, <3>2 DEF HeldBefore
  <2>3. QED BY <1>1, <2>1, <2>2
<1>7. HeldBefore(Len(msgs) + 1, ticket)'
  <2>1. Len(msgs') + 1 \in Nat /\ Len(msgs') + 1 > Len(msgs) /\ ticket' = t
    BY <1>1 DEF ReceiveConnectUserAck
  <2>2. QED BY <1>4, <2>1 DEF HeldBefore
<1>8. \A i \in 1 .. Len(granted') : granted'[i].issued <= Len(msgs')
  BY <1>1, <1>2, <1>3 DEF TicketInv
<1>9. QED BY <1>6, <1>7, <1>8 DEF TicketInv, TicketDiscipline

LEMMA TicketStep == IInv /\ TicketInv /\ [Next]_vars => TicketInv'
<1> SUFFICES ASSUME IInv, TicketInv, [Next]_vars PROVE TicketInv'
  OBVIOUS
<1>0. TypeOK
  BY DEF IInv
<1>1. CASE UNCHANGED <<msgs, ticket, granted>>
  BY <1>1, TicketIdle
<1>2. CASE ReceiveP2pRdy \/ ReceiveWifiSettingsAck
  <2>1. "ConnectUser" \in ControlCommands /\ "ListWifi" \in ControlCommands
    BY DEF ControlCommands
  <2>2. <<"ConnectUser">> \in Seq(ControlCommands) /\ <<"ListWifi">> \in Seq(ControlCommands)
    BY <2>1, Singleton, Zenon
  <2>3. QED BY <1>0, <1>2, <2>2, TicketIssue
            DEF ReceiveP2pRdy, ReceiveWifiSettingsAck, history
<1>3. ASSUME NEW t \in Tickets, ReceiveConnectUserAck(t) PROVE TicketInv'
  BY <1>0, <1>3, TicketGrant
<1>5. ASSUME NEW reply \in ListWifiReplies, ReceiveListWifiAck(reply) PROVE TicketInv'
  <2>1. reply \in Seq(ControlCommands)
    BY CommandsAssumption
  <2>2. QED BY <1>0, <1>5, <2>1, TicketIssue DEF ReceiveListWifiAck, history
<1>6. ASSUME NEW ids \in SUBSET HeardIds,
             ReceiveDrwAck(ids) \/ ReceiveCroppedDrwAck(ids)
      PROVE  TicketInv'
  BY <1>1, <1>6 DEF ReceiveDrwAck, ReceiveCroppedDrwAck, history
<1>7. ASSUME NEW len \in CloseLengths, ReceiveClose(len) PROVE TicketInv'
  BY <1>1, <1>7 DEF ReceiveClose, commands, history
<1>8. CASE ConnectStart \/ ConnectFail \/ ConnectionMade \/ HostClose \/ CameraHears
  BY <1>1, <1>8 DEF ConnectStart, ConnectFail, ConnectionMade, HostClose,
                    CameraHears, commands, history
<1>9. CASE ReceiveOther \/ ReceiveAlive \/ SessTick \/ ResendTick \/ Tick
  BY <1>1, <1>9 DEF ReceiveOther, ReceiveAlive, SessTick, ResendTick, Tick,
                    commands, history
<1>10. CASE UNCHANGED vars
  BY <1>1, <1>10 DEF vars, commands, history
<1>11. QED
  BY <1>2, <1>3, <1>5, <1>6, <1>7, <1>8, <1>9, <1>10
     DEF Next, Endpoint, Receive, Timers

(* Every command carries the ticket of the last login before it, none       *)
(* before the first one, whatever acks the camera sends and when: no command*)
(* goes out under a ticket that a later one replaced (impl.py               *)
(* make_data_read_write, handlers.py ConnectUserAck).                       *)
THEOREM TicketsGranted == Spec => []TicketDiscipline
<1>1. Init => TicketInv
  BY DEF Init, TicketInv, TicketDiscipline, HeldBefore
<1>2. TicketInv => TicketDiscipline
  BY DEF TicketInv
<1>3. QED BY <1>1, <1>2, TicketStep, InductiveInvariant, PTL DEF Spec

-----------------------------------------------------------------------------
(* Silence: the timers of a closed session are off, whoever closed it.      *)

SilentInv == transport = "closed" => sess_timer = Off /\ resend_timer = Off

LEMMA SilentIdle ==
    ASSUME SilentInv, UNCHANGED <<transport, sess_timer, resend_timer>>
    PROVE  SilentInv'
BY DEF SilentInv

LEMMA SilentDisconnect ==
    ASSUME SilentInv, Disconnect
    PROVE  SilentInv'
BY DEF SilentInv, Disconnect, ResendTimerCancelled

LEMMA SilentStep == SilentInv /\ [Next]_vars => SilentInv'
<1> SUFFICES ASSUME SilentInv, [Next]_vars PROVE SilentInv'
  OBVIOUS
<1>1. CASE UNCHANGED lifecycle
  BY <1>1, SilentIdle DEF lifecycle
<1>2. CASE Disconnect
  BY <1>2, SilentDisconnect
<1>3. CASE ConnectStart \/ ConnectFail \/ ConnectionMade
  BY <1>3 DEF ConnectStart, ConnectFail, ConnectionMade, SilentInv
<1>4. CASE SessTick
  BY <1>2, <1>4, TimingAssumption DEF SessTick, SilentInv, Off
<1>5. CASE ResendTick
  BY <1>5, TimingAssumption DEF ResendTick, SilentInv, Off
<1>6. CASE Tick
  BY <1>6 DEF Tick, SilentInv
<1>7. ASSUME NEW len \in CloseLengths, ReceiveClose(len) PROVE SilentInv'
  BY <1>1, <1>2, <1>7 DEF ReceiveClose
<1>8. CASE HostClose
  BY <1>2, <1>8 DEF HostClose
<1>9. CASE CameraHears \/ ReceiveP2pRdy \/ ReceiveWifiSettingsAck \/ ReceiveOther
           \/ ReceiveAlive
  BY <1>1, <1>9 DEF CameraHears, ReceiveP2pRdy, ReceiveWifiSettingsAck, ReceiveOther,
                    ReceiveAlive
<1>10. ASSUME NEW ids \in SUBSET HeardIds,
              ReceiveDrwAck(ids) \/ ReceiveCroppedDrwAck(ids)
       PROVE  SilentInv'
  BY <1>1, <1>10 DEF ReceiveDrwAck, ReceiveCroppedDrwAck
<1>11. ASSUME NEW t \in Tickets, ReceiveConnectUserAck(t) PROVE SilentInv'
  BY <1>1, <1>11 DEF ReceiveConnectUserAck
<1>12. ASSUME NEW reply \in ListWifiReplies, ReceiveListWifiAck(reply)
       PROVE  SilentInv'
  BY <1>1, <1>12 DEF ReceiveListWifiAck
<1>13. CASE UNCHANGED vars
  BY <1>1, <1>13 DEF vars
<1>14. QED
  BY <1>3, <1>4, <1>5, <1>6, <1>7, <1>8, <1>9, <1>10, <1>11, <1>12, <1>13
     DEF Next, Endpoint, Receive, Timers

(* A step of a closed session: the ones that send need an open endpoint or  *)
(* a running timer.                                                         *)
LEMMA ClosedStep ==
    ASSUME SilentInv, SilentInv', [Next]_vars, transport = "closed"
    PROVE  UNCHANGED commands /\ sess_timer' = Off /\ resend_timer' = Off
<1>1. sess_timer = Off /\ resend_timer = Off /\ ~Listening
  BY DEF SilentInv, Listening
<1>2. ~SessTick /\ ~ResendTick /\ ~Tick
  BY <1>1, TimingAssumption DEF SessTick, ResendTick, Tick, Off
<1>3. ~Receive
  BY <1>1 DEF Receive, ReceiveP2pRdy, ReceiveDrwAck, ReceiveCroppedDrwAck,
              ReceiveConnectUserAck, ReceiveWifiSettingsAck, ReceiveListWifiAck,
              ReceiveOther, ReceiveAlive, ReceiveClose
<1>4. ~ConnectStart /\ ~ConnectFail /\ ~ConnectionMade
  BY DEF ConnectStart, ConnectFail, ConnectionMade
<1>5. CASE HostClose
  BY <1>1, <1>5 DEF HostClose, Disconnect, ResendTimerCancelled
<1>6. CASE CameraHears
  BY <1>1, <1>6 DEF CameraHears, lifecycle
<1>7. CASE UNCHANGED vars
  BY <1>1, <1>7 DEF vars, lifecycle
<1>8. QED BY <1>2, <1>3, <1>4, <1>5, <1>6, <1>7 DEF Next, Endpoint, Timers

(* After its endpoint is closed a session neither wakes nor sends, whatever *)
(* timer was about to wake (session.py _on_disconnect).                     *)
THEOREM ClosedStaysSilent == Spec => ClosedIsSilent
<1>1. Init => SilentInv
  BY DEF Init, SilentInv
<1>2. SilentInv /\ SilentInv' /\ [Next]_vars =>
         [transport = "closed" => /\ UNCHANGED commands
                                  /\ sess_timer' = Off /\ resend_timer' = Off]_vars
  BY ClosedStep
<1>3. QED BY <1>1, <1>2, SilentStep, PTL DEF Spec, ClosedIsSilent

-----------------------------------------------------------------------------
(* The probe.  How long a session can have been quiet without one is how    *)
(* long its timer has slept, and AliveAfter at its last wake.               *)

ProbeInv ==
    sess_timer # Off /\ received /\ ~probed => quiet <= AliveAfter + sess_timer

LEMMA ProbeIdle ==
    ASSUME ProbeInv, UNCHANGED <<sess_timer, silence>>
    PROVE  ProbeInv'
BY DEF ProbeInv, silence

LEMMA ProbeCounts ==
    ASSUME TypeOK, TypeOK', Counts
    PROVE  ProbeInv'
<1>1. quiet' = 0
  BY DEF Counts
<1>2. sess_timer' # Off => sess_timer' \in Nat
  BY TimingAssumption DEF TypeOK, Off
<1>3. QED BY <1>1, <1>2, TimingAssumption DEF ProbeInv

LEMMA ProbeDisconnect ==
    ASSUME ProbeInv, Disconnect, UNCHANGED silence
    PROVE  ProbeInv'
BY DEF ProbeInv, Disconnect, silence

LEMMA ProbeStep == IInv /\ IInv' /\ ProbeInv /\ [Next]_vars => ProbeInv'
<1> SUFFICES ASSUME IInv, IInv', ProbeInv, [Next]_vars PROVE ProbeInv'
  OBVIOUS
<1>0. TypeOK /\ TypeOK'
  BY DEF IInv
<1>1. CASE UNCHANGED <<sess_timer, silence>>
  BY <1>1, ProbeIdle
<1>2. CASE Counts
  BY <1>0, <1>2, ProbeCounts
<1>3. CASE ConnectionMade
  BY <1>0, <1>3, TimingAssumption DEF ConnectionMade, ProbeInv, TypeOK, Off
<1>4. CASE SessTick
  <2>1. CASE sess_timer' = Off
    BY <2>1 DEF ProbeInv
  <2>2. CASE sess_timer' = 0
    <3>1. UNCHANGED <<received, quiet>> /\ probed' = (probed \/ NeedsProbe)
      BY <1>4 DEF SessTick
    <3>2. received /\ ~NeedsProbe => quiet <= AliveAfter
      <4>1. quiet \in Nat /\ AliveAfter \in Nat
        BY <1>0, TimingAssumption DEF TypeOK
      <4>2. QED BY <4>1 DEF NeedsProbe, Delta
    <3>3. received' /\ ~probed' => quiet' <= AliveAfter
      BY <3>1, <3>2, Zenon
    <3>4. AliveAfter + 0 = AliveAfter
      BY TimingAssumption
    <3>5. QED BY <2>2, <3>3, <3>4 DEF ProbeInv
  <2>3. QED BY <1>4, <2>1, <2>2 DEF SessTick, Disconnect
<1>5. CASE Tick
  <2>1. quiet \in Nat /\ quiet' \in Nat /\ quiet' <= quiet + 1
    BY <1>0, <1>5, TimingAssumption DEF Tick, Capped, TypeOK
  <2>2. sess_timer # Off => sess_timer \in Nat /\ sess_timer' = sess_timer + 1
    BY <1>0, <1>5, TimingAssumption DEF Tick, Slept, Capped, TypeOK, Off
  <2>3. sess_timer = Off => sess_timer' = Off
    BY <1>5 DEF Tick, Slept
  <2>4. UNCHANGED <<received, probed>>
    BY <1>5 DEF Tick
  <2>5. QED BY <2>1, <2>2, <2>3, <2>4, TimingAssumption DEF ProbeInv
<1>6. ASSUME NEW len \in CloseLengths, ReceiveClose(len) PROVE ProbeInv'
  BY <1>1, <1>2, <1>6 DEF ReceiveClose, lifecycle
<1>7. CASE HostClose
  BY <1>7, ProbeDisconnect DEF HostClose
<1>8. CASE ConnectStart \/ ConnectFail \/ CameraHears \/ ReceiveAlive \/ ResendTick
  BY <1>1, <1>8 DEF ConnectStart, ConnectFail, CameraHears, ReceiveAlive,
                    ResendTick, lifecycle
<1>9. CASE ReceiveP2pRdy \/ ReceiveWifiSettingsAck \/ ReceiveOther
  BY <1>2, <1>9 DEF ReceiveP2pRdy, ReceiveWifiSettingsAck, ReceiveOther
<1>10. ASSUME NEW ids \in SUBSET HeardIds, ReceiveDrwAck(ids) PROVE ProbeInv'
  BY <1>2, <1>10 DEF ReceiveDrwAck
<1>11. ASSUME NEW ids \in SUBSET HeardIds, ReceiveCroppedDrwAck(ids) PROVE ProbeInv'
  BY <1>1, <1>11 DEF ReceiveCroppedDrwAck, lifecycle
<1>12. ASSUME NEW t \in Tickets, ReceiveConnectUserAck(t) PROVE ProbeInv'
  BY <1>2, <1>12 DEF ReceiveConnectUserAck
<1>13. ASSUME NEW reply \in ListWifiReplies, ReceiveListWifiAck(reply) PROVE ProbeInv'
  BY <1>2, <1>13 DEF ReceiveListWifiAck
<1>14. CASE UNCHANGED vars
  BY <1>1, <1>14 DEF vars, lifecycle
<1>15. QED
  BY <1>3, <1>4, <1>5, <1>6, <1>7, <1>8, <1>9, <1>10, <1>11, <1>12, <1>13, <1>14
     DEF Next, Endpoint, Receive, Timers

(* With thresholds a period and the lag of the loop apart, as session.py    *)
(* has them, a camera that has answered once is not dropped for silence     *)
(* before it was probed at an earlier wake (_sess_timer).                   *)
THEOREM ProbedFirst ==
    ASSUME TimeoutMs >= AliveAfter + SessPeriod + Lag
    PROVE  Spec => ProbedBeforeDrop
<1>1. Init => ProbeInv
  BY DEF Init, ProbeInv
<1>2. IInv /\ ProbeInv =>
         [SessTick /\ connected /\ ~connected' /\ received => probed]_vars
  <2> SUFFICES ASSUME IInv, ProbeInv, SessTick, connected, ~connected', received
               PROVE  probed
    OBVIOUS
  <2>1. TypeOK
    BY DEF IInv
  <2>2. sess_timer \in Nat /\ sess_timer # Off /\ sess_timer <= SessPeriod + Lag
    BY <2>1, TimingAssumption DEF SessTick, TypeOK, Off
  <2>3. quiet \in Nat /\ quiet > TimeoutMs
    <3>1. Delta > TimeoutMs
      BY DEF SessTick
    <3>2. Delta = quiet
      BY DEF Delta
    <3>3. QED BY <2>1, <3>1, <3>2, TimingAssumption DEF TypeOK
  <2>4. ~(quiet <= AliveAfter + sess_timer)
    BY <2>2, <2>3, TimingAssumption
  <2>5. QED BY <2>2, <2>4 DEF ProbeInv
<1>3. QED BY <1>1, <1>2, ProbeStep, InductiveInvariant, PTL DEF Spec, ProbedBeforeDrop

-----------------------------------------------------------------------------
(* The refinement.                                                          *)

IsPending(m) == \E e \in unacked_drw : e.msg = m
Confirmed == {m \in 1 .. Len(msgs) : \A e \in unacked_drw : e.msg # m}
Delivered == {w.msg : w \in heard}

(* A step that sends no command and loses no entry stutters.                *)
LEMMA SameService ==
    ASSUME UNCHANGED <<msgs, heard>>,
           \A m : (\E e \in unacked_drw' : e.msg = m) <=> IsPending(m)
    PROVE  UNCHANGED Delivery!vars
<1>1. Confirmed' = Confirmed
  BY DEF Confirmed, IsPending
<1>2. Delivered' = Delivered
  BY DEF Delivered
<1>3. QED BY <1>1, <1>2 DEF Delivery!vars, Confirmed, Delivered

LEMMA IssueService ==
    ASSUME IInv, NEW cmds \in Seq(ControlCommands), NEW t \in Tickets \cup {NoTicket},
           Issue(cmds, t), UNCHANGED heard
    PROVE  [Delivery!Next]_(Delivery!vars)
<1> DEFINE sends == Numbered(Len(cmds))
<1>1. /\ TypeOK /\ Len(cmds) \in Nat /\ Len(msgs) \in Nat
      /\ outgoing_command_id \in Nat
      /\ Len(msgs') = Len(msgs) + Len(cmds)
      /\ unacked_drw' = Register(sends)
  BY IssueAppends, HorizonAssumption DEF IInv, TypeOK, Issue
<1>2. /\ sends \subseteq Transmission
      /\ \A s \in sends : s.id >= outgoing_command_id /\ s.msg > Len(msgs)
      /\ \A m \in Len(msgs) + 1 .. Len(msgs) + Len(cmds) : \E s \in sends : s.msg = m
  BY <1>1, NumberedSends DEF Issue
<1>3. \A e \in unacked_drw : e.id \in Nat /\ e.id < outgoing_command_id
  <2>1. ASSUME NEW e \in unacked_drw
        PROVE  e.id \in Nat /\ e.id < outgoing_command_id
    <3>1. [id |-> e.id, msg |-> e.msg] \in wire
      BY DEF IInv, ChannelInv, PendingIsLatest
    <3>2. e.id < outgoing_command_id
      BY <3>1 DEF IInv, ChannelInv, IdsGrow
    <3>3. e.id \in Nat
      BY HorizonAssumption DEF IInv, TypeOK, Pending, WireIds
    <3>4. QED BY <3>2, <3>3
  <2>2. QED BY <2>1
<1>4. \A s \in sends : s.id \in Nat /\ s.msg \in Nat
  BY <1>2, HorizonAssumption DEF Transmission, WireIds, MsgIds
<1> HIDE DEF sends
<1>5. unacked_drw' = unacked_drw \cup Fresh(sends)
  <2>1. \A e \in unacked_drw, s \in sends : s.id # e.id
    BY <1>1, <1>2, <1>3, <1>4
  <2>2. QED BY <1>1, <2>1 DEF Register
<1>6. \A e \in Fresh(sends) : \E s \in sends : e.msg = s.msg
  BY DEF Fresh
<1>7. \A s \in sends : \E e \in Fresh(sends) : e.msg = s.msg
  <2>1. ASSUME NEW s \in sends PROVE \E e \in Fresh(sends) : e.msg = s.msg
    <3>1. [id |-> s.id, msg |-> s.msg, age |-> 0] \in Fresh(sends)
      BY DEF Fresh
    <3>2. QED BY <3>1
  <2>2. QED BY <2>1
<1>8. Confirmed' = Confirmed
  <2>1. ASSUME NEW m \in 1 .. Len(msgs')
        PROVE  m \in Confirmed' <=> m \in Confirmed
    <3>1. CASE m \in 1 .. Len(msgs)
      <4>1. \A e \in Fresh(sends) : e.msg # m
        BY <1>1, <1>2, <1>4, <1>6, <3>1
      <4>2. QED BY <1>5, <2>1, <3>1, <4>1 DEF Confirmed
    <3>2. CASE m \notin 1 .. Len(msgs)
      <4>1. m \in Len(msgs) + 1 .. Len(msgs) + Len(cmds)
        BY <1>1, <3>2
      <4>2. \E e \in unacked_drw' : e.msg = m
        BY <1>2, <1>5, <1>7, <4>1
      <4>3. QED BY <3>2, <4>2 DEF Confirmed
    <3>3. QED BY <3>1, <3>2
  <2>2. 1 .. Len(msgs) \subseteq 1 .. Len(msgs')
    BY <1>1
  <2>3. QED BY <2>1, <2>2 DEF Confirmed
<1>9. Delivered' = Delivered
  BY DEF Delivered
<1>10. Len(msgs') = Len(msgs) \/ (Len(msgs') \in Nat /\ Len(msgs') > Len(msgs))
  BY <1>1
<1>11. QED BY <1>8, <1>9, <1>10
           DEF Delivery!Next, Delivery!Issue, Delivery!vars, Confirmed, Delivered

LEMMA AckService ==
    ASSUME IInv', NEW ids, unacked_drw' = Unacked(ids), UNCHANGED <<msgs, heard>>
    PROVE  [Delivery!Next]_(Delivery!vars)
<1>1. Confirmed \subseteq Confirmed'
  BY DEF Confirmed, Unacked
<1>2. Confirmed' \subseteq Delivered
  BY DEF IInv, ChannelInv, NoSilentLoss, Confirmed, Delivered
<1>3. Delivered' = Delivered
  BY DEF Delivered
<1>4. QED BY <1>1, <1>2, <1>3
          DEF Delivery!Next, Delivery!Confirm, Delivery!vars, Confirmed, Delivered

LEMMA HearService ==
    ASSUME IInv, CameraHears
    PROVE  [Delivery!Next]_(Delivery!vars)
<1>1. PICK w \in wire : heard' = heard \cup {w}
  BY DEF CameraHears
<1>2. w.msg \in 1 .. Len(msgs)
  <2>1. w.msg \in MsgIds /\ w.msg <= Len(msgs) /\ Len(msgs) \in Nat
    BY DEF IInv, TypeOK, ChannelInv, IdsGrow, Transmission
  <2>2. QED BY <2>1, HorizonAssumption DEF MsgIds
<1>3. Delivered' = Delivered \cup {w.msg}
  BY <1>1 DEF Delivered
<1>4. UNCHANGED <<msgs, unacked_drw>>
  BY DEF CameraHears, commands
<1>5. Confirmed' = Confirmed
  BY <1>4 DEF Confirmed
<1>6. QED BY <1>2, <1>3, <1>4, <1>5
          DEF Delivery!Next, Delivery!Deliver, Delivery!vars, Confirmed, Delivered

LEMMA ResendService ==
    ASSUME ResendTick
    PROVE  UNCHANGED Delivery!vars
<1>1. UNCHANGED <<msgs, heard>> /\ unacked_drw' = NotResent \cup Refiled
  BY DEF ResendTick, history
<1>2. ASSUME NEW e \in unacked_drw PROVE \E x \in unacked_drw' : x.msg = e.msg
  <2>1. CASE e \in Due
    <3>1. [id |-> FreshId(e), msg |-> e.msg] \in Resent
      BY <2>1 DEF Resent
    <3>2. [id |-> FreshId(e), msg |-> e.msg, age |-> 0] \in Refiled
      BY <3>1 DEF Refiled, Fresh
    <3>3. QED BY <1>1, <3>2
  <2>2. CASE e \notin Due
    BY <1>1, <2>2 DEF NotResent
  <2>3. QED BY <2>1, <2>2
<1>3. ASSUME NEW x \in unacked_drw' PROVE \E e \in unacked_drw : x.msg = e.msg
  <2>1. CASE x \in NotResent
    BY <2>1 DEF NotResent
  <2>2. CASE x \in Refiled
    <3>1. PICK s \in Resent : x.msg = s.msg
      BY <2>2 DEF Refiled, Fresh
    <3>2. PICK e \in Due : s.msg = e.msg
      BY <3>1 DEF Resent
    <3>3. QED BY <3>1, <3>2 DEF Due
  <2>3. QED BY <1>1, <2>1, <2>2
<1>4. QED BY <1>1, <1>2, <1>3, SameService DEF IsPending

LEMMA TickService ==
    ASSUME TypeOK, Tick
    PROVE  UNCHANGED Delivery!vars
<1>1. /\ UNCHANGED <<msgs, heard>>
      /\ unacked_drw' = {[e EXCEPT !.age = Capped(@, RetryAfter + 1)]
                             : e \in unacked_drw}
  BY DEF Tick, history
<1>2. \A e \in unacked_drw : [e EXCEPT !.age = Capped(@, RetryAfter + 1)].msg = e.msg
  BY DEF TypeOK, Pending
<1>3. \A m : (\E e \in unacked_drw' : e.msg = m) <=> IsPending(m)
  BY <1>1, <1>2 DEF IsPending
<1>4. QED BY <1>1, <1>3, SameService

LEMMA ServiceStep == IInv /\ IInv' /\ [Next]_vars => [Delivery!Next]_(Delivery!vars)
<1> SUFFICES ASSUME IInv, IInv', [Next]_vars PROVE [Delivery!Next]_(Delivery!vars)
  OBVIOUS
<1>0. TypeOK /\ ticket \in Tickets \cup {NoTicket}
  BY DEF IInv, TypeOK
<1>1. CASE UNCHANGED <<msgs, heard, unacked_drw>>
  BY <1>1, SameService DEF IsPending
<1>2. CASE ReceiveP2pRdy
  <2>1. <<"ConnectUser">> \in Seq(ControlCommands)
    <3>1. "ConnectUser" \in ControlCommands
      BY DEF ControlCommands
    <3>2. QED BY <3>1, Singleton, Zenon
  <2>2. QED BY <1>0, <1>2, <2>1, IssueService DEF ReceiveP2pRdy, history
<1>3. ASSUME NEW t \in Tickets, ReceiveConnectUserAck(t)
      PROVE  [Delivery!Next]_(Delivery!vars)
  <2>1. Issue(LoginCommands, t) /\ UNCHANGED heard /\ t \in Tickets \cup {NoTicket}
    BY <1>3 DEF ReceiveConnectUserAck, Login
  <2>2. QED BY <2>1, IssueService, CommandsAssumption
<1>4. CASE ReceiveWifiSettingsAck
  <2>1. <<"ListWifi">> \in Seq(ControlCommands)
    <3>1. "ListWifi" \in ControlCommands
      BY DEF ControlCommands
    <3>2. QED BY <3>1, Singleton, Zenon
  <2>2. QED BY <1>0, <1>4, <2>1, IssueService DEF ReceiveWifiSettingsAck, history
<1>5. ASSUME NEW reply \in ListWifiReplies, ReceiveListWifiAck(reply)
      PROVE  [Delivery!Next]_(Delivery!vars)
  <2>1. reply \in Seq(ControlCommands)
    BY CommandsAssumption
  <2>2. QED BY <1>0, <1>5, <2>1, IssueService DEF ReceiveListWifiAck, history
<1>6. ASSUME NEW ids \in SUBSET HeardIds,
             ReceiveDrwAck(ids) \/ ReceiveCroppedDrwAck(ids)
      PROVE  [Delivery!Next]_(Delivery!vars)
  BY <1>6, AckService DEF ReceiveDrwAck, ReceiveCroppedDrwAck, history
<1>7. CASE CameraHears
  BY <1>7, HearService
<1>8. CASE ResendTick
  BY <1>8, ResendService
<1>9. CASE Tick
  BY <1>0, <1>9, TickService
<1>10. ASSUME NEW len \in CloseLengths, ReceiveClose(len)
       PROVE  [Delivery!Next]_(Delivery!vars)
  BY <1>1, <1>10 DEF ReceiveClose, commands, history
<1>11. CASE ConnectStart \/ ConnectFail \/ ConnectionMade \/ HostClose
            \/ ReceiveOther \/ ReceiveAlive \/ SessTick
  BY <1>1, <1>11 DEF ConnectStart, ConnectFail, ConnectionMade, HostClose,
                     ReceiveOther, ReceiveAlive, SessTick, commands, history
<1>12. CASE UNCHANGED vars
  BY <1>1, <1>12 DEF vars, commands, history
<1>13. QED
  BY <1>2, <1>3, <1>4, <1>5, <1>6, <1>7, <1>8, <1>9, <1>10, <1>11, <1>12
     DEF Next, Endpoint, Receive, Timers

(* The session is an at-least-once delivery service for its commands: every *)
(* behaviour of the code is one of CommandDelivery, whatever is lost, late  *)
(* or repeated (session.py send, ack_drw and _resend_timer).                *)
THEOREM SessionDelivers == Spec => ImplementsDelivery
<1>1. Init => Delivery!Init
  BY DEF Init, Delivery!Init
<1>2. QED BY <1>1, ServiceStep, InductiveInvariant, PTL
          DEF Spec, ImplementsDelivery, Delivery!Spec

-----------------------------------------------------------------------------
(* The life of a session.                                                   *)

LEMMA LifeStep == TypeOK /\ [Next]_vars => [Life!Next]_(Life!vars)
<1> SUFFICES ASSUME TypeOK, [Next]_vars PROVE [Life!Next]_(Life!vars)
  OBVIOUS
<1> USE DEF Life!Next, Life!vars
<1>1. CASE UNCHANGED lifecycle
  BY <1>1 DEF lifecycle
<1>2. CASE ConnectStart
  BY <1>2 DEF ConnectStart, Life!Connect
<1>3. CASE ConnectFail
  BY <1>3 DEF ConnectFail, Life!Fail
<1>4. CASE ConnectionMade
  BY <1>4 DEF ConnectionMade, Life!Open, Off
<1>5. ASSUME Disconnect, UNCHANGED peer PROVE [Life!Next]_(Life!vars)
  <2>1. CASE connected
    BY <1>5, <2>1 DEF Disconnect, CloseTransport, Life!Disconnect
  <2>2. CASE ~connected
    BY <1>5, <2>2 DEF Disconnect
  <2>3. QED BY <2>1, <2>2
<1>6. CASE SessTick
  <2>1. sess_timer # Off /\ UNCHANGED peer
    BY <1>6, TimingAssumption DEF SessTick, Off
  <2>2. CASE Disconnect
    BY <1>5, <2>1, <2>2
  <2>3. CASE ~connected /\ sess_timer' = Off /\ UNCHANGED <<connected, transport>>
    BY <2>1, <2>3 DEF Life!GiveUp
  <2>4. CASE sess_timer' = 0 /\ UNCHANGED <<connected, transport>>
    BY <2>1, <2>4 DEF Off
  <2>5. QED BY <1>6, <2>2, <2>3, <2>4 DEF SessTick
<1>7. CASE Tick
  <2>1. (sess_timer' = Off) <=> (sess_timer = Off)
    BY <1>7, TimingAssumption DEF Tick, Slept, Capped, TypeOK, Off
  <2>2. QED BY <1>7, <2>1 DEF Tick
<1>8. ASSUME NEW len \in CloseLengths, ReceiveClose(len)
      PROVE  [Life!Next]_(Life!vars)
  BY <1>1, <1>5, <1>8 DEF ReceiveClose
<1>9. CASE HostClose
  BY <1>5, <1>9 DEF HostClose
<1>10. CASE CameraHears \/ ReceiveP2pRdy \/ ReceiveWifiSettingsAck
            \/ ReceiveOther \/ ReceiveAlive
  BY <1>1, <1>10 DEF CameraHears, ReceiveP2pRdy, ReceiveWifiSettingsAck,
                     ReceiveOther, ReceiveAlive
<1>11. ASSUME NEW ids \in SUBSET HeardIds,
              ReceiveDrwAck(ids) \/ ReceiveCroppedDrwAck(ids)
       PROVE  [Life!Next]_(Life!vars)
  BY <1>1, <1>11 DEF ReceiveDrwAck, ReceiveCroppedDrwAck
<1>12. ASSUME NEW t \in Tickets, ReceiveConnectUserAck(t)
       PROVE  [Life!Next]_(Life!vars)
  BY <1>1, <1>12 DEF ReceiveConnectUserAck
<1>13. ASSUME NEW reply \in ListWifiReplies, ReceiveListWifiAck(reply)
       PROVE  [Life!Next]_(Life!vars)
  BY <1>1, <1>13 DEF ReceiveListWifiAck
<1>14. CASE ResendTick
  BY <1>14 DEF ResendTick
<1>15. CASE UNCHANGED vars
  BY <1>1, <1>15 DEF vars
<1>16. QED
  BY <1>2, <1>3, <1>4, <1>6, <1>7, <1>8, <1>9, <1>10, <1>11, <1>12, <1>13,
     <1>14, <1>15
     DEF Next, Endpoint, Receive, Timers

(* A session lives as its owner may expect (session.py connection_made,     *)
(* _on_disconnect, _sess_timer): connected from the start, disconnected     *)
(* once, and an endpoint that can still open after that.                    *)
THEOREM LivesOn == Spec => LivesAsTold
<1>1. Init => Life!Init
  BY DEF Init, Life!Init
<1>2. IInv => TypeOK
  BY DEF IInv
<1>3. QED BY <1>1, <1>2, LifeStep, InductiveInvariant, PTL
          DEF Spec, LivesAsTold, Life!Spec
=============================================================================
