---------------------------- MODULE TxOwnerProofs ----------------------------
(***************************************************************************)
(* Theorems about TxOwner for every number of calls, categories, epochs,   *)
(* generations, revisions and joints.                                      *)
(***************************************************************************)
EXTENDS TxOwner, TLAPS, FiniteSetTheorems

-----------------------------------------------------------------------------
\* _trim_cpv_results forgets results and changes none.
LEMMA TrimForgets ==
  ASSUME NEW res \in [Revs -> Statuses]
  PROVE  /\ Trim(res) \in [Revs -> Statuses]
         /\ \A r \in Revs : Trim(res)[r] \in {res[r], "absent"}
  BY DEF Trim, Statuses

\* It never forgets the newest revision it knows.
LEMMA TrimKeepsNewest ==
  ASSUME NEW res \in [Revs -> Statuses], NEW n \in Revs,
         \A r \in Revs : r > n => res[r] = "absent"
  PROVE  Trim(res)[n] = res[n]
<1> DEFINE known == {r \in Revs : res[r] # "absent"}
<1>1. {s \in known : s > n} = {}
  BY DEF Revs
<1>2. Cardinality({s \in known : s > n}) = 0
  BY <1>1, FS_EmptySet
<1> QED BY <1>2, TrimAssumption DEF Trim

-----------------------------------------------------------------------------
\* The ways a dispatch ends or goes on keep the types.

LEMMA BumpType ==
  ASSUME StreamType, NEW outcome \in {"sent", "superseded", "revoked", "failed"}
  PROVE  Bump(outcome) \in [{"sent", "superseded", "revoked", "failed"} -> Nat]
  BY DEF StreamType, Bump

LEMMA DropMailboxType ==
  ASSUME StreamType, mailbox # None, DropMailbox, UNCHANGED <<revision, lastSent, barrier>>
  PROVE  StreamType'
<1>1. result' \in [Revs -> Statuses]
  BY DEF StreamType, DropMailbox, Entry, Statuses, Terminal
<1> QED BY <1>1, BumpType DEF StreamType, DropMailbox

LEMMA SettleType ==
  ASSUME TypeOK, cur \in Entry, NEW outcome \in {"sent", "revoked", "failed"},
         Settle(outcome)
  PROVE  TypeOK'
<1>1. [result EXCEPT ![cur.rev] = outcome] \in [Revs -> Statuses]
  BY DEF TypeOK, StreamType, Statuses, Terminal
<1>2. result' \in [Revs -> Statuses]
  BY <1>1, TrimForgets DEF Settle
<1>3. count' \in [{"sent", "superseded", "revoked", "failed"} -> Nat]
  BY BumpType DEF TypeOK, Settle
<1>4. lastSent' \in 0..MaxRev
  BY BoundsAssumption DEF TypeOK, StreamType, Settle, Entry, Revs
<1>5. StreamType'
  BY <1>2, <1>3, <1>4 DEF TypeOK, StreamType, Settle
<1>6. EpochType' /\ CallType'
  BY DEF TypeOK, EpochType, CallType, Settle, epochVars, callVars
<1>7. ThreadType'
  <2>1. failedEpoch' \in Epochs \cup {None} /\ broken' \subseteq Epochs
    BY DEF TypeOK, ThreadType, Settle, Entry
  <2>2. envState' = envState /\ env' = env
    BY DEF Settle, callVars
  <2>3. pc \notin {"envelope", "execute", "backend"}
    BY NoneAssumption DEF TypeOK, ThreadType
  <2> QED BY <2>1, <2>2, <2>3, NoneAssumption DEF TypeOK, ThreadType, Settle
<1> QED BY <1>5, <1>6, <1>7 DEF TypeOK

LEMMA GoToType ==
  ASSUME TypeOK, cur \in Entry, NEW next \in {"checked", "guard", "write"}, GoTo(next)
  PROVE  TypeOK'
<1>1. EpochType' /\ CallType' /\ StreamType'
  BY DEF TypeOK, EpochType, CallType, StreamType, GoTo, epochVars, callVars, cpvVars
<1>2. pc \notin {"envelope", "execute", "backend"}
  BY NoneAssumption DEF TypeOK, ThreadType
<1>3. ThreadType'
  BY <1>2 DEF TypeOK, ThreadType, GoTo, callVars
<1> QED BY <1>1, <1>3 DEF TypeOK

LEMMA SkipType ==
  ASSUME TypeOK, pc \in {"high", "cpv", "any", "cpv2"},
         NEW next \in {"high", "cpv", "any", "cpv2"}, Skip(next)
  PROVE  TypeOK'
  BY DEF TypeOK, EpochType, CallType, StreamType, ThreadType, Skip,
         epochVars, callVars, cpvVars

LEMMA TakeEntryType ==
  ASSUME TypeOK, pc \in {"cpv", "cpv2"}, mailbox # None, TakeEntry
  PROVE  TypeOK'
<1>1. EpochType' /\ StreamType'
  BY DEF TypeOK, EpochType, StreamType, TakeEntry, epochVars
<1>2. CallType'
  BY DEF TypeOK, CallType, TakeEntry
<1>3. ThreadType'
  BY DEF TypeOK, ThreadType, StreamType, TakeEntry
<1> QED BY <1>1, <1>2, <1>3 DEF TypeOK

LEMMA TakeEnvelopeType ==
  ASSUME TypeOK, pc \in {"high", "any"}, NEW c \in Queued, TakeEnvelope(c)
  PROVE  TypeOK'
<1>1. EpochType' /\ StreamType'
  BY DEF TypeOK, EpochType, StreamType, TakeEnvelope, epochVars, cpvVars
<1>2. CallType'
  BY DEF TypeOK, CallType, TakeEnvelope, Queued
<1>3. ThreadType'
  <2>1. c \in Calls /\ envState[c] = "queued"
    BY DEF Queued
  <2> QED BY <2>1 DEF TypeOK, ThreadType, CallType, TakeEnvelope
<1> QED BY <1>1, <1>2, <1>3 DEF TypeOK

LEMMA EnvelopeMovesType ==
  ASSUME TypeOK, pc \in {"envelope", "execute"}, stale' \in Nat,
         NEW state \in {"cleared", "running"}, NEW next \in {"execute", "backend"},
         EnvelopeMoves(state, next)
  PROVE  TypeOK'
<1>1. EpochType' /\ StreamType'
  BY DEF TypeOK, EpochType, StreamType, EnvelopeMoves, epochVars, cpvVars
<1>2. CallType'
  BY DEF TypeOK, CallType, EnvelopeMoves
<1>3. ThreadType'
  <2>1. curCall \in Calls /\ env[curCall] # None
    BY DEF TypeOK, ThreadType
  <2> QED BY <2>1 DEF TypeOK, ThreadType, CallType, EnvelopeMoves
<1> QED BY <1>1, <1>2, <1>3 DEF TypeOK

LEMMA EnvelopeDoneType ==
  ASSUME TypeOK, pc \in {"envelope", "backend"}, NEW verdict \in {"served", "rejected"},
         EnvelopeDone(verdict)
  PROVE  TypeOK'
<1>1. EpochType' /\ StreamType'
  BY DEF TypeOK, EpochType, StreamType, EnvelopeDone, epochVars, cpvVars
<1>2. CallType'
  BY DEF TypeOK, CallType, EnvelopeDone
<1>3. ThreadType'
  <2>1. curCall \in Calls /\ env[curCall] # None
    BY DEF TypeOK, ThreadType
  <2> QED BY <2>1 DEF TypeOK, ThreadType, CallType, EnvelopeDone
<1> QED BY <1>1, <1>2, <1>3 DEF TypeOK

-----------------------------------------------------------------------------
LEMMA InitType == Init => TypeOK
<1> SUFFICES ASSUME Init PROVE TypeOK OBVIOUS
<1>1. EpochType
  BY BoundsAssumption DEF Init, EpochType, Epochs
<1>2. StreamType
  <2>1. barrier \in [Epochs -> -1..MaxGen]
    BY BoundsAssumption DEF Init
  <2>2. count \in [{"sent", "superseded", "revoked", "failed"} -> Nat]
    BY DEF Init, NoCount
  <2>3. result \in [Revs -> Statuses]
    BY DEF Init, Statuses
  <2> QED BY <2>1, <2>2, <2>3, BoundsAssumption DEF Init, StreamType
<1>3. CallType
  BY DEF Init, CallType
<1>4. ThreadType
  BY DEF Init, ThreadType
<1> QED BY <1>1, <1>2, <1>3, <1>4 DEF TypeOK

LEMMA StreamStepType ==
  ASSUME TypeOK, Stream PROVE TypeOK'
<1>1. ASSUME NEW e \in Epochs, NEW g \in Gens, NEW m \in Modes, Publish(e, g, m)
      PROVE  TypeOK'
  <2> DEFINE after == IF mailbox = None THEN result
                      ELSE [result EXCEPT ![mailbox.rev] = "superseded"]
  <2>1. revision + 1 \in Revs
    BY <1>1, BoundsAssumption DEF Publish, TypeOK, StreamType, Revs
  <2>2. [after EXCEPT ![revision + 1] = "pending"] \in [Revs -> Statuses]
    BY <2>1 DEF TypeOK, StreamType, Entry, Statuses, Terminal
  <2>3. result' \in [Revs -> Statuses]
    BY <1>1, <2>2, TrimForgets DEF Publish
  <2>4. mailbox' \in Entry
    BY <1>1, <2>1 DEF Publish, Entry
  <2>5. count' \in [{"sent", "superseded", "revoked", "failed"} -> Nat]
    BY <1>1, BumpType DEF Publish, TypeOK, StreamType
  <2>6. revision' \in 0..MaxRev
    BY <1>1, <2>1, BoundsAssumption DEF Publish, Revs
  <2>7. UNCHANGED <<lastSent, barrier>>
    BY <1>1 DEF Publish
  <2>8. StreamType'
    BY <2>3, <2>4, <2>5, <2>6, <2>7 DEF TypeOK, StreamType
  <2> QED BY <1>1, <2>8 DEF Publish, TypeOK, EpochType, CallType, ThreadType,
                            epochVars, callVars, txVars
<1>2. ASSUME NEW e \in Epochs, NEW g \in Gens, RevokeBefore(e, g)
      PROVE  TypeOK'
  <2>1. barrier' \in [Epochs -> -1..MaxGen]
    BY <1>2, BoundsAssumption DEF RevokeBefore, TypeOK, StreamType, Larger, Gens
  <2>2. /\ mailbox' \in Entry \cup {None}
        /\ result' \in [Revs -> Statuses]
        /\ count' \in [{"sent", "superseded", "revoked", "failed"} -> Nat]
    <3>1. CASE mailbox # None /\ DropMailbox
      <4>1. result' \in [Revs -> Statuses]
        BY <3>1 DEF TypeOK, StreamType, DropMailbox, Entry, Statuses, Terminal
      <4> QED BY <3>1, <4>1, BumpType DEF TypeOK, DropMailbox
    <3>2. CASE KeepMailbox
      BY <3>2 DEF KeepMailbox, TypeOK, StreamType
    <3> QED BY <1>2, <3>1, <3>2 DEF RevokeBefore
  <2>3. StreamType'
    BY <1>2, <2>1, <2>2 DEF RevokeBefore, TypeOK, StreamType
  <2> QED BY <1>2, <2>3 DEF RevokeBefore, TypeOK, EpochType, CallType, ThreadType,
                            epochVars, callVars, txVars
<1> QED BY <1>1, <1>2 DEF Stream

LEMMA OwnershipStepType ==
  ASSUME TypeOK, Ownership PROVE TypeOK'
<1>1. ASSUME NEW cat \in Categories \cup {None}, AdvanceEpoch(cat) PROVE TypeOK'
  <2>1. EpochType'
    BY <1>1, BoundsAssumption DEF AdvanceEpoch, TypeOK, EpochType, Epochs
  <2> QED BY <1>1, <2>1 DEF AdvanceEpoch, TypeOK, StreamType, CallType, ThreadType,
                            cpvVars, callVars, txVars
<1>2. ASSUME PurgeMailbox PROVE TypeOK'
  <2>1. StreamType'
    <3>1. CASE mailbox # None /\ DropMailbox
      BY <1>2, <3>1, DropMailboxType DEF PurgeMailbox, TypeOK
    <3>2. CASE KeepMailbox
      BY <1>2, <3>2 DEF PurgeMailbox, KeepMailbox, TypeOK, StreamType
    <3> QED BY <1>2, <3>1, <3>2 DEF PurgeMailbox
  <2> QED BY <1>2, <2>1 DEF PurgeMailbox, TypeOK, EpochType, CallType, ThreadType,
                            callVars, txVars
<1>3. ASSUME NEW e \in Epochs, NEW cat \in Categories, CompleteTransition(e, cat)
      PROVE  TypeOK'
  BY <1>3 DEF CompleteTransition, TypeOK, EpochType, StreamType, CallType, ThreadType,
              cpvVars, callVars, txVars
<1> QED BY <1>1, <1>2, <1>3 DEF Ownership

LEMMA CallingStepType ==
  ASSUME TypeOK, Calling PROVE TypeOK'
<1>1. ASSUME NEW c \in Calls, NEW p \in Priorities, NEW e \in Epochs,
             NEW cat \in Categories \cup {"normal"}, CallBegin(c, p, e, cat)
      PROVE  TypeOK'
  <2> DEFINE new == [prio |-> p, epoch |-> e, cat |-> cat, seq |-> sequence + 1]
  <2>1. new \in Envelope
    BY DEF TypeOK, EpochType, CallType, Envelope
  <2>2. CallType'
    BY <1>1, <2>1 DEF CallBegin, TypeOK, CallType
  <2>3. ThreadType'
    BY <1>1, <2>1, NoneAssumption DEF CallBegin, TypeOK, CallType, ThreadType, txVars
  <2> QED BY <1>1, <2>2, <2>3 DEF CallBegin, TypeOK, EpochType, StreamType,
                                  cpvVars, epochVars
<1>2. ASSUME NEW c \in Calls, CallEnqueue(c) PROVE TypeOK'
  <2>1. CallType'
    BY <1>2 DEF CallEnqueue, TypeOK, CallType
  <2>2. ThreadType'
    BY <1>2 DEF CallEnqueue, TypeOK, CallType, ThreadType, txVars
  <2> QED BY <1>2, <2>1, <2>2 DEF CallEnqueue, TypeOK, EpochType, StreamType,
                                  cpvVars, epochVars
<1>3. ASSUME Close PROVE TypeOK'
  BY <1>3 DEF Close, TypeOK, EpochType, StreamType, CallType, ThreadType,
              cpvVars, epochVars, txVars
<1> QED BY <1>1, <1>2, <1>3 DEF Calling

LEMMA OwnerStepType ==
  ASSUME TypeOK, Owner PROVE TypeOK'
<1>1. CASE TakeHigh
  BY <1>1, TakeEnvelopeType, SkipType DEF TakeHigh, Head
<1>2. CASE TakeCpv
  BY <1>2, TakeEntryType, SkipType DEF TakeCpv
<1>3. CASE TakeAny
  <2>1. ASSUME StopThread, pc = "any" PROVE TypeOK'
    BY <2>1 DEF StopThread, TypeOK, EpochType, StreamType, CallType, ThreadType,
                cpvVars, epochVars
  <2> QED BY <1>3, <2>1, TakeEnvelopeType, SkipType DEF TakeAny, Head
<1>4. CASE TakeCpvLast
  BY <1>4, TakeEntryType, SkipType DEF TakeCpvLast
<1>5. ASSUME NEW g \in BOOLEAN, CheckEntry(g) PROVE TypeOK'
  BY <1>5, GoToType, SettleType DEF CheckEntry, TypeOK, ThreadType
<1>6. ASSUME NEW ok \in BOOLEAN, PrepareEntry(ok) PROVE TypeOK'
  BY <1>6, GoToType, SettleType DEF PrepareEntry, TypeOK, ThreadType
<1>7. ASSUME NEW g \in BOOLEAN, MitGuard(g) PROVE TypeOK'
  BY <1>7, GoToType, SettleType DEF MitGuard, TypeOK, ThreadType
<1>8. CASE WriteCur
  BY <1>8 DEF WriteCur, TypeOK, EpochType, StreamType, CallType, ThreadType,
              cpvVars, epochVars, callVars
<1>9. ASSUME NEW ok \in BOOLEAN, WriteReturns(ok) PROVE TypeOK'
  BY <1>9, GoToType, SettleType DEF WriteReturns, TypeOK, ThreadType
<1>10. ASSUME NEW g \in BOOLEAN, CheckEnvelope(g) PROVE TypeOK'
  BY <1>10, EnvelopeMovesType, EnvelopeDoneType DEF CheckEnvelope, TypeOK, ThreadType
<1>11. CASE StartEnvelope
  BY <1>11, EnvelopeMovesType DEF StartEnvelope, TypeOK, ThreadType
<1>12. CASE EnvelopeReturns
  BY <1>12, EnvelopeDoneType DEF EnvelopeReturns
<1> QED BY <1>1, <1>2, <1>3, <1>4, <1>5, <1>6, <1>7, <1>8, <1>9, <1>10, <1>11, <1>12
        DEF Owner

\* Every variable of HardwareTxOwner keeps its type, for all bounds.
THEOREM TypeCorrect == Spec => []TypeOK
<1>1. TypeOK /\ [Next]_vars => TypeOK'
  <2> SUFFICES ASSUME TypeOK, [Next]_vars PROVE TypeOK' OBVIOUS
  <2>1. CASE UNCHANGED vars
    BY <2>1 DEF vars, TypeOK, EpochType, StreamType, CallType, ThreadType,
                cpvVars, epochVars, callVars, txVars
  <2> QED BY <2>1, StreamStepType, OwnershipStepType, CallingStepType, OwnerStepType
          DEF Next
<1> QED BY <1>1, InitType, PTL DEF Spec

-----------------------------------------------------------------------------
\* The order of revisions and what the results say of them: the newest one
\* waits, an older one is dispatched, a still older one was the last sent.
StreamInv ==
  /\ lastSent =< revision
  /\ mailbox # None => mailbox.rev = revision /\ lastSent < revision
  /\ cur # None => cur.rev =< revision /\ lastSent < cur.rev
  /\ mailbox # None /\ cur # None => cur.rev < revision
  /\ \A r \in Revs : r > revision => result[r] = "absent"
  /\ mailbox # None => result[revision] = "pending"
  /\ \A r \in Revs : result[r] = "pending" =>
       \/ mailbox # None /\ r = mailbox.rev
       \/ cur # None /\ r = cur.rev

streamVars == <<mailbox, cur, revision, lastSent, result>>

LEMMA StreamInvStutters ==
  ASSUME StreamInv, UNCHANGED streamVars PROVE StreamInv'
  BY DEF StreamInv, streamVars

LEMMA PublishStreamInv ==
  ASSUME TypeOK, StreamInv, NEW e \in Epochs, NEW g \in Gens, NEW m \in Modes,
         Publish(e, g, m)
  PROVE  StreamInv'
<1> DEFINE new == revision + 1
           after == IF mailbox = None THEN result
                    ELSE [result EXCEPT ![mailbox.rev] = "superseded"]
           res == [after EXCEPT ![new] = "pending"]
<1>1. new \in Revs /\ revision' = new /\ mailbox'.rev = new /\ result' = Trim(res)
  BY BoundsAssumption DEF Publish, TypeOK, StreamType, Revs
<1>2. res \in [Revs -> Statuses]
  BY <1>1 DEF TypeOK, StreamType, Entry, Statuses, Terminal
<1>3. UNCHANGED <<cur, lastSent>>
  BY DEF Publish, txVars
<1>4. \A r \in Revs : r > new => res[r] = "absent"
  BY <1>1 DEF StreamInv, TypeOK, StreamType, Revs, Entry
<1>5. result'[new] = "pending"
  BY <1>1, <1>2, <1>4, TrimKeepsNewest DEF TypeOK, StreamType
<1>6. \A r \in Revs : r > new => result'[r] = "absent"
  BY <1>1, <1>2, <1>4, TrimForgets
<1>7. \A r \in Revs : result'[r] = "pending" => r = new \/ (cur # None /\ r = cur.rev)
  <2> SUFFICES ASSUME NEW r \in Revs, result'[r] = "pending", r # new
               PROVE  cur # None /\ r = cur.rev
    OBVIOUS
  <2>1. res[r] = "pending"
    BY <1>1, <1>2, TrimForgets
  <2>2. after[r] = "pending"
    BY <2>1 DEF TypeOK, StreamType, Entry
  <2>3. result[r] = "pending" /\ (mailbox # None => r # mailbox.rev)
    BY <2>2 DEF TypeOK, StreamType, Entry
  <2> QED BY <2>3 DEF StreamInv
<1>8. mailbox' # None
  BY <1>1, NoneAssumption DEF Publish, Entry
<1>9. revision \in Nat /\ lastSent \in Nat /\ (cur # None => cur.rev \in Nat)
  BY BoundsAssumption DEF TypeOK, StreamType, ThreadType, Entry, Revs
<1>10. lastSent < new /\ (cur # None => cur.rev < new /\ lastSent < cur.rev)
  BY <1>9 DEF StreamInv
<1>11. mailbox'.rev = revision' /\ revision' = revision + 1 /\ cur' = cur /\ lastSent' = lastSent
  BY <1>1, <1>3
<1>12. \A r \in Revs : r > revision' => result'[r] = "absent"
  BY <1>6, <1>11
<1>13. result'[revision'] = "pending"
  BY <1>5, <1>11
<1>14. \A r \in Revs : result'[r] = "pending" =>
         \/ mailbox' # None /\ r = mailbox'.rev
         \/ cur' # None /\ r = cur'.rev
  BY <1>7, <1>8, <1>11
<1> HIDE DEF new, after, res
<1> QED BY <1>8, <1>9, <1>10, <1>11, <1>12, <1>13, <1>14 DEF StreamInv, new

LEMMA DropStreamInv ==
  ASSUME TypeOK, StreamInv, mailbox # None, DropMailbox,
         UNCHANGED <<cur, revision, lastSent>>
  PROVE  StreamInv'
<1>1. mailbox.rev \in Revs
  BY DEF TypeOK, StreamType, Entry
<1> QED BY <1>1 DEF StreamInv, TypeOK, StreamType, DropMailbox

LEMMA SettleStreamInv ==
  ASSUME TypeOK, StreamInv, cur \in Entry, NEW outcome \in {"sent", "revoked", "failed"},
         Settle(outcome)
  PROVE  StreamInv'
<1> DEFINE res == [result EXCEPT ![cur.rev] = outcome]
<1>1. cur.rev \in Revs /\ cur # None /\ cur' = None
  BY NoneAssumption DEF Entry, Settle
<1>2. res \in [Revs -> Statuses]
  BY <1>1 DEF TypeOK, StreamType, Statuses, Terminal
<1>3. result' \in [Revs -> Statuses] /\ \A r \in Revs : result'[r] \in {res[r], "absent"}
  BY <1>2, TrimForgets DEF Settle
<1>4. UNCHANGED <<mailbox, revision>>
  BY DEF Settle
<1>5. lastSent' \in {lastSent, cur.rev}
  BY DEF Settle
<1>6. \A r \in Revs : r > revision => result'[r] = "absent"
  BY <1>1, <1>3 DEF StreamInv, TypeOK, StreamType, Revs
<1>7. mailbox # None => result'[revision] = "pending"
  <2> SUFFICES ASSUME mailbox # None PROVE result'[revision] = "pending" OBVIOUS
  <2>1. revision \in Revs /\ revision # cur.rev /\ res[revision] = "pending"
    BY <1>1 DEF StreamInv, TypeOK, StreamType, Entry, Revs
  <2>2. \A r \in Revs : r > revision => res[r] = "absent"
    BY <1>1 DEF StreamInv, TypeOK, StreamType, Revs
  <2>3. Trim(res)[revision] = "pending"
    BY <1>2, <2>1, <2>2, TrimKeepsNewest
  <2> QED BY <2>1, <2>3 DEF Settle
<1>8. \A r \in Revs : result'[r] = "pending" => mailbox # None /\ r = mailbox.rev
  BY <1>1, <1>3 DEF StreamInv, TypeOK, StreamType
<1> QED BY <1>1, <1>4, <1>5, <1>6, <1>7, <1>8
        DEF StreamInv, TypeOK, StreamType, Entry, Revs

LEMMA TakeEntryStreamInv ==
  ASSUME TypeOK, StreamInv, pc \in {"cpv", "cpv2"}, mailbox # None, TakeEntry
  PROVE  StreamInv'
<1>1. cur' = mailbox /\ mailbox' = None /\ UNCHANGED <<revision, lastSent, result>>
  BY DEF TakeEntry
<1>2. cur = None
  BY DEF TypeOK, ThreadType
<1>3. revision \in Nat /\ mailbox.rev = revision /\ lastSent < revision
  BY DEF TypeOK, StreamType, StreamInv
<1>4. \A r \in Revs : result[r] = "pending" => r = mailbox.rev
  BY <1>2 DEF StreamInv
<1> QED BY <1>1, <1>2, <1>3, <1>4 DEF StreamInv

THEOREM StreamCorrect == Spec => []StreamInv
<1>1. Init => StreamInv
  BY BoundsAssumption DEF Init, StreamInv, Revs
<1>2. TypeOK /\ StreamInv /\ [Next]_vars => StreamInv'
  <2> SUFFICES ASSUME TypeOK, StreamInv, [Next]_vars PROVE StreamInv' OBVIOUS
  <2>1. CASE Stream
    <3>1. ASSUME NEW e \in Epochs, NEW g \in Gens, RevokeBefore(e, g) PROVE StreamInv'
      BY <3>1, DropStreamInv, StreamInvStutters
         DEF RevokeBefore, KeepMailbox, txVars, streamVars
    <3> QED BY <2>1, <3>1, PublishStreamInv DEF Stream
  <2>2. CASE Ownership
    <3>1. CASE PurgeMailbox
      BY <3>1, DropStreamInv, StreamInvStutters
         DEF PurgeMailbox, KeepMailbox, txVars, streamVars
    <3> QED BY <2>2, <3>1, StreamInvStutters
            DEF Ownership, AdvanceEpoch, CompleteTransition, cpvVars, txVars, streamVars
  <2>3. CASE Calling
    BY <2>3, StreamInvStutters
       DEF Calling, CallBegin, CallEnqueue, Close, cpvVars, txVars, streamVars
  <2>4. CASE Owner
    <3>1. CASE TakeHigh
      BY <3>1, StreamInvStutters DEF TakeHigh, TakeEnvelope, Skip, cpvVars, streamVars
    <3>2. CASE TakeCpv
      BY <3>2, TakeEntryStreamInv, StreamInvStutters DEF TakeCpv, Skip, cpvVars, streamVars
    <3>3. CASE TakeAny
      BY <3>3, StreamInvStutters
         DEF TakeAny, TakeEnvelope, StopThread, Skip, cpvVars, streamVars
    <3>4. CASE TakeCpvLast
      BY <3>4, TakeEntryStreamInv, StreamInvStutters
         DEF TakeCpvLast, Skip, cpvVars, streamVars
    <3>5. ASSUME NEW next, GoTo(next) PROVE StreamInv'
      BY <3>5, StreamInvStutters DEF GoTo, cpvVars, streamVars
    <3>6. ASSUME NEW g \in BOOLEAN, CheckEntry(g) PROVE StreamInv'
      BY <3>5, <3>6, SettleStreamInv DEF CheckEntry, TypeOK, ThreadType
    <3>7. ASSUME NEW ok \in BOOLEAN, PrepareEntry(ok) PROVE StreamInv'
      BY <3>5, <3>7, SettleStreamInv DEF PrepareEntry, TypeOK, ThreadType
    <3>8. ASSUME NEW g \in BOOLEAN, MitGuard(g) PROVE StreamInv'
      BY <3>5, <3>8, SettleStreamInv DEF MitGuard, TypeOK, ThreadType
    <3>9. ASSUME NEW ok \in BOOLEAN, WriteReturns(ok) PROVE StreamInv'
      BY <3>5, <3>9, SettleStreamInv DEF WriteReturns, TypeOK, ThreadType
    <3>10. CASE WriteCur
      BY <3>10, StreamInvStutters DEF WriteCur, cpvVars, streamVars
    <3>11. ASSUME NEW g \in BOOLEAN, CheckEnvelope(g) PROVE StreamInv'
      BY <3>11, StreamInvStutters
         DEF CheckEnvelope, EnvelopeMoves, EnvelopeDone, cpvVars, streamVars
    <3>12. CASE StartEnvelope
      BY <3>12, StreamInvStutters DEF StartEnvelope, EnvelopeMoves, cpvVars, streamVars
    <3>13. CASE EnvelopeReturns
      BY <3>13, StreamInvStutters DEF EnvelopeReturns, EnvelopeDone, cpvVars, streamVars
    <3> QED BY <2>4, <3>1, <3>2, <3>3, <3>4, <3>6, <3>7, <3>8, <3>9, <3>10, <3>11,
               <3>12, <3>13 DEF Owner
  <2>5. CASE UNCHANGED vars
    BY <2>5, StreamInvStutters DEF vars, cpvVars, txVars, streamVars
  <2> QED BY <2>1, <2>2, <2>3, <2>4, <2>5 DEF Next
<1> QED BY <1>1, <1>2, TypeCorrect, PTL DEF Spec

\* wait_cpv_result never waits for a revision nobody holds any more.
THEOREM PendingIsAlwaysHeld == Spec => []PendingIsHeld
<1>1. TypeOK /\ StreamInv => PendingIsHeld
  BY DEF TypeOK, StreamType, StreamInv, PendingIsHeld, Held
<1> QED BY <1>1, TypeCorrect, StreamCorrect, PTL

-----------------------------------------------------------------------------
\* The owner's stream implements the channel of LatestValue.

LEMMA DropRefines ==
  ASSUME TypeOK, StreamInv, mailbox # None, DropMailbox, UNCHANGED <<cur, revision, lastSent>>
  PROVE  Channel!Withdraw
<1>1. mailbox.rev \in Nat \ {0}
  BY BoundsAssumption DEF TypeOK, StreamType, Entry, Revs
<1>2. count.sent \in Nat /\ count.superseded \in Nat /\ count.revoked \in Nat
      /\ count.failed \in Nat
  BY DEF TypeOK, StreamType
<1>3. count'.sent = count.sent /\ count'.superseded = count.superseded
      /\ count'.revoked = count.revoked + 1 /\ count'.failed = count.failed
  BY DEF TypeOK, StreamType, DropMailbox, Bump
<1>4. mailbox' = None
  BY DEF DropMailbox
<1> QED BY <1>1, <1>2, <1>3, <1>4 DEF Channel!Withdraw

LEMMA PublishRefines ==
  ASSUME TypeOK, StreamInv, NEW e \in Epochs, NEW g \in Gens, NEW m \in Modes,
         Publish(e, g, m)
  PROVE  Channel!Publish
<1>1. revision \in Nat /\ (mailbox # None => mailbox.rev \in Nat \ {0})
  BY BoundsAssumption DEF TypeOK, StreamType, Entry, Revs
<1>2. count.sent \in Nat /\ count.superseded \in Nat /\ count.revoked \in Nat
      /\ count.failed \in Nat
  BY DEF TypeOK, StreamType
<1>3. mailbox' \in Entry /\ mailbox'.rev = revision + 1
  BY BoundsAssumption DEF Publish, TypeOK, StreamType, Entry, Revs
<1>4. UNCHANGED <<cur, lastSent>> /\ revision' = revision + 1
  BY DEF Publish, txVars
<1>5. CASE mailbox = None
  <2>1. count' = count
    BY <1>5 DEF Publish
  <2> QED BY <1>1, <1>3, <1>4, <1>5, <2>1, NoneAssumption DEF Channel!Publish
<1>6. CASE mailbox # None
  <2>1. count'.sent = count.sent /\ count'.superseded = count.superseded + 1
        /\ count'.revoked = count.revoked /\ count'.failed = count.failed
    BY <1>6 DEF Publish, Bump, TypeOK, StreamType
  <2> QED BY <1>1, <1>2, <1>3, <1>4, <1>6, <2>1, NoneAssumption DEF Channel!Publish
<1> QED BY <1>5, <1>6

LEMMA SettleRefines ==
  ASSUME TypeOK, StreamInv, cur \in Entry, NEW outcome \in {"sent", "revoked", "failed"},
         Settle(outcome)
  PROVE  Channel!Finish
<1>1. cur.rev \in Nat \ {0} /\ cur # None
  BY BoundsAssumption, NoneAssumption DEF Entry, Revs
<1>2. count.sent \in Nat /\ count.superseded \in Nat /\ count.revoked \in Nat
      /\ count.failed \in Nat
  BY DEF TypeOK, StreamType
<1>3. count' = [count EXCEPT ![outcome] = @ + 1]
  BY DEF Settle, Bump
<1>4. count'.sent + count'.superseded + count'.revoked + count'.failed
      = count.sent + count.superseded + count.revoked + count.failed + 1
  <2>1. CASE outcome = "sent" BY <1>2, <1>3, <2>1 DEF TypeOK, StreamType
  <2>2. CASE outcome = "revoked" BY <1>2, <1>3, <2>2 DEF TypeOK, StreamType
  <2>3. CASE outcome = "failed" BY <1>2, <1>3, <2>3 DEF TypeOK, StreamType
  <2> QED BY <2>1, <2>2, <2>3
<1>5. UNCHANGED <<mailbox, revision>> /\ cur' = None /\ lastSent' \in {lastSent, cur.rev}
  BY DEF Settle
<1> QED BY <1>1, <1>4, <1>5 DEF Channel!Finish

LEMMA TakeEntryRefines ==
  ASSUME TypeOK, StreamInv, pc \in {"cpv", "cpv2"}, mailbox # None, TakeEntry
  PROVE  Channel!Start
<1>1. mailbox.rev \in Nat \ {0}
  BY BoundsAssumption DEF TypeOK, StreamType, Entry, Revs
<1>2. cur = None
  BY DEF TypeOK, ThreadType
<1> QED BY <1>1, <1>2 DEF TakeEntry, Channel!Start

channelVars == <<mailbox, cur, revision, lastSent, count>>

LEMMA StutterRefines ==
  ASSUME UNCHANGED channelVars PROVE UNCHANGED Channel!vars
  BY DEF channelVars, Channel!vars

\* Every behaviour of the owner is a behaviour of the channel of capacity
\* one, whatever the threads around it publish, revoke, advance, call or fail.
THEOREM OwnerImplementsChannel == Spec => ImplementsChannel
<1>1. Init => Channel!Init
  BY DEF Init, NoCount, Channel!Init
<1>2. TypeOK /\ StreamInv /\ [Next]_vars => [Channel!Next]_(Channel!vars)
  <2> SUFFICES ASSUME TypeOK, StreamInv, [Next]_vars
               PROVE  Channel!Next \/ UNCHANGED Channel!vars
    BY DEF Channel!vars
  <2> USE DEF Channel!Next
  <2>1. CASE Stream
    <3>1. ASSUME NEW e \in Epochs, NEW g \in Gens, RevokeBefore(e, g)
          PROVE  Channel!Next \/ UNCHANGED Channel!vars
      BY <3>1, DropRefines, StutterRefines DEF RevokeBefore, KeepMailbox, txVars, channelVars
    <3> QED BY <2>1, <3>1, PublishRefines DEF Stream
  <2>2. CASE Ownership
    <3>1. CASE PurgeMailbox
      BY <3>1, DropRefines, StutterRefines DEF PurgeMailbox, KeepMailbox, txVars, channelVars
    <3> QED BY <2>2, <3>1, StutterRefines
            DEF Ownership, AdvanceEpoch, CompleteTransition, cpvVars, txVars, channelVars
  <2>3. CASE Calling
    BY <2>3, StutterRefines
       DEF Calling, CallBegin, CallEnqueue, Close, cpvVars, txVars, channelVars
  <2>4. CASE Owner
    <3>1. CASE TakeHigh
      BY <3>1, StutterRefines DEF TakeHigh, TakeEnvelope, Skip, cpvVars, channelVars
    <3>2. CASE TakeCpv
      BY <3>2, TakeEntryRefines, StutterRefines DEF TakeCpv, Skip, cpvVars, channelVars
    <3>3. CASE TakeAny
      BY <3>3, StutterRefines
         DEF TakeAny, TakeEnvelope, StopThread, Skip, cpvVars, channelVars
    <3>4. CASE TakeCpvLast
      BY <3>4, TakeEntryRefines, StutterRefines DEF TakeCpvLast, Skip, cpvVars, channelVars
    <3>5. ASSUME NEW next, GoTo(next) PROVE UNCHANGED Channel!vars
      BY <3>5, StutterRefines DEF GoTo, cpvVars, channelVars
    <3>6. ASSUME NEW g \in BOOLEAN, CheckEntry(g)
          PROVE  Channel!Next \/ UNCHANGED Channel!vars
      BY <3>5, <3>6, SettleRefines DEF CheckEntry, TypeOK, ThreadType
    <3>7. ASSUME NEW ok \in BOOLEAN, PrepareEntry(ok)
          PROVE  Channel!Next \/ UNCHANGED Channel!vars
      BY <3>5, <3>7, SettleRefines DEF PrepareEntry, TypeOK, ThreadType
    <3>8. ASSUME NEW g \in BOOLEAN, MitGuard(g)
          PROVE  Channel!Next \/ UNCHANGED Channel!vars
      BY <3>5, <3>8, SettleRefines DEF MitGuard, TypeOK, ThreadType
    <3>9. ASSUME NEW ok \in BOOLEAN, WriteReturns(ok)
          PROVE  Channel!Next \/ UNCHANGED Channel!vars
      BY <3>5, <3>9, SettleRefines DEF WriteReturns, TypeOK, ThreadType
    <3>10. CASE WriteCur
      BY <3>10, StutterRefines DEF WriteCur, cpvVars, channelVars
    <3>11. ASSUME NEW g \in BOOLEAN, CheckEnvelope(g) PROVE UNCHANGED Channel!vars
      BY <3>11, StutterRefines
         DEF CheckEnvelope, EnvelopeMoves, EnvelopeDone, cpvVars, channelVars
    <3>12. CASE StartEnvelope
      BY <3>12, StutterRefines DEF StartEnvelope, EnvelopeMoves, cpvVars, channelVars
    <3>13. CASE EnvelopeReturns
      BY <3>13, StutterRefines DEF EnvelopeReturns, EnvelopeDone, cpvVars, channelVars
    <3> QED BY <2>4, <3>1, <3>2, <3>3, <3>4, <3>6, <3>7, <3>8, <3>9, <3>10, <3>11,
               <3>12, <3>13 DEF Owner
  <2>5. CASE UNCHANGED vars
    BY <2>5, StutterRefines DEF vars, cpvVars, txVars, channelVars
  <2> QED BY <2>1, <2>2, <2>3, <2>4, <2>5 DEF Next
<1> QED BY <1>1, <1>2, TypeCorrect, StreamCorrect, PTL
        DEF Spec, ImplementsChannel, Channel!Spec

\* In the channel of capacity one, values only move forward and none is lost
\* without being counted; so the owner's stream, which implements it, sends
\* revisions in the order of their publication, each at most once, and knows what
\* became of every one.
THEOREM StreamIsOrdered == Spec => []Channel!Ordered
<1>1. Channel!Init => Channel!Ordered
  BY DEF Channel!Init, Channel!Ordered, Channel!Open
<1>2. Channel!Ordered /\ [Channel!Next]_(Channel!vars) => Channel!Ordered'
  <2> SUFFICES ASSUME Channel!Ordered, [Channel!Next]_(Channel!vars)
               PROVE  Channel!Ordered'
    OBVIOUS
  <2> USE DEF Channel!Ordered, Channel!Open
  <2>1. CASE Channel!Publish BY <2>1 DEF Channel!Publish
  <2>2. CASE Channel!Withdraw BY <2>2 DEF Channel!Withdraw
  <2>3. CASE Channel!Start BY <2>3 DEF Channel!Start
  <2>4. CASE Channel!Finish BY <2>4 DEF Channel!Finish
  <2>5. CASE UNCHANGED Channel!vars BY <2>5 DEF Channel!vars
  <2> QED BY <2>1, <2>2, <2>3, <2>4, <2>5 DEF Channel!Next
<1> QED BY <1>1, <1>2, OwnerImplementsChannel, PTL DEF ImplementsChannel, Channel!Spec

-----------------------------------------------------------------------------
\* A revocation is for ever: no later step makes a revoked entry current.
Revoked == cur.epoch < epoch \/ cur.gen < barrier[cur.epoch]

\* The strengthening of StaleBound.  Past its check an entry of the current
\* epoch is in a phase without an exclusive category (one only ever starts
\* with a new epoch), so an entry that may not be written is Revoked, and a
\* second write would need a guard that a Revoked entry cannot pass.
StaleInv ==
  /\ mailbox # None => mailbox.epoch =< epoch
  /\ cur # None => cur.epoch =< epoch
  /\ pc \in {"checked", "guard", "write", "sdk"} /\ cur.epoch = epoch => exclusive = None
  /\ pc \notin {"guard", "sdk", "backend"} => stale = 0
  /\ stale =< 1
  /\ pc \in {"guard", "sdk"} /\ stale = 1 => Revoked

staleVars == <<mailbox, cur, epoch, exclusive, barrier, pc, stale>>

LEMMA StaleInvStutters ==
  ASSUME StaleInv, UNCHANGED staleVars PROVE StaleInv'
  BY DEF StaleInv, Revoked, staleVars

\* Steps of the other threads leave the dispatch alone.
LEMMA OthersStaleInv ==
  ASSUME TypeOK, StaleInv, Stream \/ Ownership \/ Calling PROVE StaleInv'
<1>1. ASSUME NEW e \in Epochs, NEW g \in Gens, NEW m \in Modes, Publish(e, g, m)
      PROVE  StaleInv'
  BY <1>1 DEF Publish, StaleInv, Revoked, epochVars, txVars
<1>2. ASSUME NEW e \in Epochs, NEW g \in Gens, RevokeBefore(e, g) PROVE StaleInv'
  <2>1. \A x \in Epochs : barrier'[x] >= barrier[x]
    BY <1>2 DEF RevokeBefore, TypeOK, StreamType, Larger, Gens
  <2>2. UNCHANGED <<cur, epoch, exclusive, pc, stale>> /\ mailbox' \in {mailbox, None}
    BY <1>2 DEF RevokeBefore, DropMailbox, KeepMailbox, epochVars, txVars
  <2>3. Revoked /\ pc \in {"guard", "sdk"} /\ stale = 1 => Revoked'
    <3>1. CASE cur \in Entry
      <4>1. barrier'[cur.epoch] >= barrier[cur.epoch]
        BY <2>1, <3>1 DEF Entry
      <4>2. cur.gen \in Nat /\ barrier[cur.epoch] \in Int /\ barrier'[cur.epoch] \in Int
        BY <1>2, <3>1, BoundsAssumption
           DEF Entry, Gens, TypeOK, StreamType, RevokeBefore, Larger
      <4> QED BY <2>2, <4>1, <4>2 DEF Revoked
    <3>2. CASE cur = None /\ pc = "sdk"
      BY <3>2, NoneAssumption DEF TypeOK, ThreadType
    <3> QED BY <3>1, <3>2, NoneAssumption DEF TypeOK, ThreadType
  <2> QED BY <2>2, <2>3 DEF StaleInv
<1>3. ASSUME NEW cat \in Categories \cup {None}, AdvanceEpoch(cat) PROVE StaleInv'
  <2>1. epoch' = epoch + 1 /\ epoch \in Nat
    BY <1>3, BoundsAssumption DEF AdvanceEpoch, TypeOK, EpochType, Epochs
  <2>2. UNCHANGED <<mailbox, cur, barrier, pc, stale>>
    BY <1>3 DEF AdvanceEpoch, cpvVars, txVars
  <2>3. mailbox # None => mailbox.epoch \in Nat
    BY BoundsAssumption DEF TypeOK, StreamType, Entry, Epochs
  <2>4. cur # None => cur.epoch \in Nat
    BY BoundsAssumption DEF TypeOK, ThreadType, Entry, Epochs
  <2>5. pc \in {"checked", "guard", "write", "sdk"} => cur # None
    BY NoneAssumption DEF TypeOK, ThreadType
  <2> QED BY <2>1, <2>2, <2>3, <2>4, <2>5 DEF StaleInv, Revoked
<1>4. ASSUME PurgeMailbox PROVE StaleInv'
  BY <1>4 DEF PurgeMailbox, DropMailbox, KeepMailbox, StaleInv, Revoked, txVars
<1>5. ASSUME NEW e \in Epochs, NEW cat \in Categories, CompleteTransition(e, cat)
      PROVE  StaleInv'
  BY <1>5 DEF CompleteTransition, StaleInv, Revoked, cpvVars, txVars
<1>6. ASSUME Calling PROVE StaleInv'
  BY <1>6, StaleInvStutters
     DEF Calling, CallBegin, CallEnqueue, Close, cpvVars, epochVars, txVars, staleVars
<1> QED BY <1>1, <1>2, <1>3, <1>4, <1>5, <1>6 DEF Stream, Ownership

LEMMA SettleStaleInv ==
  ASSUME StaleInv, NEW outcome, Settle(outcome) PROVE StaleInv'
  BY DEF StaleInv, Settle, epochVars

LEMMA OwnerStaleInv ==
  ASSUME TypeOK, StaleInv, Owner PROVE StaleInv'
<1>1. CASE TakeHigh
  BY <1>1 DEF TakeHigh, TakeEnvelope, Skip, StaleInv, cpvVars, epochVars
<1>2. CASE TakeCpv
  BY <1>2 DEF TakeCpv, TakeEntry, Skip, StaleInv, cpvVars, epochVars
<1>3. CASE TakeAny
  BY <1>3 DEF TakeAny, TakeEnvelope, StopThread, Skip, StaleInv, cpvVars, epochVars
<1>4. CASE TakeCpvLast
  BY <1>4 DEF TakeCpvLast, TakeEntry, Skip, StaleInv, cpvVars, epochVars
<1>5. ASSUME NEW g \in BOOLEAN, CheckEntry(g) PROVE StaleInv'
  BY <1>5, SettleStaleInv
     DEF CheckEntry, GoTo, MayWrite, EpochOpen, StaleInv, cpvVars, epochVars
<1>6. ASSUME NEW ok \in BOOLEAN, PrepareEntry(ok) PROVE StaleInv'
  BY <1>6, SettleStaleInv DEF PrepareEntry, GoTo, StaleInv, cpvVars, epochVars
<1>7. ASSUME NEW g \in BOOLEAN, MitGuard(g) PROVE StaleInv'
  <2>1. ASSUME MayWrite, pc = "guard" PROVE stale = 0
    <3>1. cur \in Entry /\ stale \in Nat
      BY <2>1 DEF TypeOK, ThreadType
    <3>2. cur.epoch \in Int /\ cur.gen \in Int /\ barrier[cur.epoch] \in Int /\ epoch \in Int
      BY <3>1, BoundsAssumption DEF Entry, Epochs, Gens, TypeOK, StreamType, EpochType
    <3> QED BY <2>1, <3>1, <3>2 DEF StaleInv, Revoked, MayWrite, EpochOpen
  <2> QED BY <1>7, <2>1, SettleStaleInv DEF MitGuard, GoTo, StaleInv, cpvVars, epochVars
<1>8. CASE WriteCur
  <2>1. cur \in Entry /\ stale = 0 /\ cur.epoch =< epoch /\ cur # None
    BY <1>8, NoneAssumption DEF WriteCur, StaleInv, TypeOK, ThreadType
  <2>2. cur.epoch \in Int /\ cur.gen \in Int /\ barrier[cur.epoch] \in Int /\ epoch \in Int
    BY <2>1, BoundsAssumption DEF Entry, Epochs, Gens, TypeOK, StreamType, EpochType
  <2>3. ~MayWrite => Revoked
    BY <1>8, <2>1, <2>2 DEF WriteCur, MayWrite, EpochOpen, Revoked, StaleInv
  <2> QED BY <1>8, <2>1, <2>3 DEF WriteCur, StaleInv, Revoked, cpvVars, epochVars
<1>9. ASSUME NEW ok \in BOOLEAN, WriteReturns(ok) PROVE StaleInv'
  BY <1>9, SettleStaleInv DEF WriteReturns, GoTo, StaleInv, Revoked, cpvVars, epochVars
<1>10. ASSUME NEW g \in BOOLEAN, CheckEnvelope(g) PROVE StaleInv'
  BY <1>10 DEF CheckEnvelope, EnvelopeMoves, EnvelopeDone, StaleInv, cpvVars, epochVars
<1>11. CASE StartEnvelope
  BY <1>11 DEF StartEnvelope, EnvelopeMoves, StaleInv, cpvVars, epochVars
<1>12. CASE EnvelopeReturns
  BY <1>12 DEF EnvelopeReturns, EnvelopeDone, StaleInv, cpvVars, epochVars
<1> QED BY <1>1, <1>2, <1>3, <1>4, <1>5, <1>6, <1>7, <1>8, <1>9, <1>10, <1>11, <1>12
        DEF Owner

LEMMA StaleInvariant == Spec => []StaleInv
<1>1. Init => StaleInv
  BY DEF Init, StaleInv
<1>2. TypeOK /\ StaleInv /\ [Next]_vars => StaleInv'
  <2>1. UNCHANGED vars => UNCHANGED staleVars
    BY DEF vars, cpvVars, epochVars, txVars, staleVars
  <2> QED BY <2>1, OthersStaleInv, OwnerStaleInv, StaleInvStutters DEF Next
<1> QED BY <1>1, <1>2, TypeCorrect, PTL DEF Spec

\* No dispatch begins more than one SDK write after its revocation, in any
\* interleaving and for any number of joints.
THEOREM AtMostOneStaleWrite == Spec => []StaleBound
<1>1. StaleInv => StaleBound
  BY DEF StaleInv, StaleBound
<1> QED BY <1>1, StaleInvariant, PTL

-----------------------------------------------------------------------------
\* The threads around the owner change no variable of its own.
LEMMA OthersKeepOwner ==
  ASSUME TypeOK, Stream \/ Ownership \/ Calling
  PROVE  UNCHANGED txVars /\ epoch \in Nat /\ epoch' \in Nat /\ epoch' >= epoch
<1>1. epoch \in Nat
  BY BoundsAssumption DEF TypeOK, EpochType, Epochs
<1>2. CASE Stream
  BY <1>1, <1>2 DEF Stream, Publish, RevokeBefore, txVars, epochVars
<1>3. CASE Ownership
  BY <1>1, <1>3 DEF Ownership, AdvanceEpoch, PurgeMailbox, CompleteTransition, txVars
<1>4. CASE Calling
  BY <1>1, <1>4 DEF Calling, CallBegin, CallEnqueue, Close, txVars, epochVars
<1> QED BY <1>2, <1>3, <1>4

\* The latch of a failed MIT batch.

\* Past its check, an entry is of the newest epoch in which a MIT batch failed
\* or of a later one, so that the one epoch the latch holds is enough.
LatchInv ==
  /\ failedEpoch # None => failedEpoch =< epoch
  /\ \A e \in broken : failedEpoch # None /\ e =< failedEpoch
  /\ pc \in {"checked", "guard", "write", "sdk"} /\ failedEpoch # None =>
       failedEpoch =< cur.epoch
  /\ pc \in {"guard", "write", "sdk"} /\ cur.mode = "impedance" => cur.epoch \notin broken

LEMMA OthersLatchInv ==
  ASSUME TypeOK, LatchInv, Stream \/ Ownership \/ Calling PROVE LatchInv'
<1>1. UNCHANGED <<pc, cur, failedEpoch, broken>> /\ epoch' >= epoch
      /\ epoch \in Nat /\ epoch' \in Nat
  BY OthersKeepOwner DEF txVars
<1>2. failedEpoch # None => failedEpoch \in Nat
  BY BoundsAssumption DEF TypeOK, ThreadType, Epochs
<1> QED BY <1>1, <1>2 DEF LatchInv

\* A verdict: only a dispatch past its check can fail.
LEMMA SettleLatchInv ==
  ASSUME TypeOK, LatchInv, StaleInv, cur \in Entry,
         NEW outcome \in {"sent", "revoked", "failed"}, Settle(outcome),
         outcome = "failed" => pc \in {"checked", "guard", "write", "sdk"}
  PROVE  LatchInv'
<1>1. cur.epoch \in Nat /\ cur.epoch =< epoch /\ epoch' = epoch /\ pc' = "high"
  BY NoneAssumption, BoundsAssumption DEF Entry, Epochs, StaleInv, Settle, epochVars
<1>2. CASE outcome = "failed" /\ cur.mode = "impedance"
  <2>1. failedEpoch' = cur.epoch /\ broken' = broken \cup {cur.epoch}
    BY <1>2 DEF Settle
  <2>2. cur.epoch # None
    BY NoneAssumption DEF Entry
  <2>3. \A e \in broken : e =< cur.epoch
    <3> SUFFICES ASSUME NEW e \in broken PROVE e =< cur.epoch OBVIOUS
    <3>1. failedEpoch # None /\ e =< failedEpoch /\ failedEpoch =< cur.epoch
      BY <1>2 DEF LatchInv
    <3>2. e \in Nat /\ failedEpoch \in Nat
      BY <3>1, BoundsAssumption DEF TypeOK, ThreadType, Epochs
    <3> QED BY <1>1, <3>1, <3>2
  <2> QED BY <1>1, <2>1, <2>2, <2>3 DEF LatchInv
<1>3. CASE ~(outcome = "failed" /\ cur.mode = "impedance")
  BY <1>1, <1>3 DEF LatchInv, Settle
<1> QED BY <1>2, <1>3

LEMMA OwnerLatchInv ==
  ASSUME TypeOK, LatchInv, StaleInv, Owner PROVE LatchInv'
<1> USE DEF LatchInv, cpvVars, epochVars
<1>1. CASE TakeHigh
  BY <1>1 DEF TakeHigh, TakeEnvelope, Skip
<1>2. CASE TakeCpv
  BY <1>2 DEF TakeCpv, TakeEntry, Skip
<1>3. CASE TakeAny
  BY <1>3 DEF TakeAny, TakeEnvelope, StopThread, Skip
<1>4. CASE TakeCpvLast
  BY <1>4 DEF TakeCpvLast, TakeEntry, Skip
<1>5. ASSUME NEW g \in BOOLEAN, CheckEntry(g) PROVE LatchInv'
  <2>1. CASE GoTo("checked") /\ MayWrite
    BY <1>5, <2>1 DEF CheckEntry, GoTo, MayWrite, EpochOpen
  <2>2. CASE Settle("revoked")
    BY <1>5, <2>2, SettleLatchInv DEF CheckEntry, TypeOK, ThreadType
  <2> QED BY <1>5, <2>1, <2>2 DEF CheckEntry
<1>6. ASSUME NEW ok \in BOOLEAN, PrepareEntry(ok) PROVE LatchInv'
  <2>1. ASSUME ~MitLatched, cur.mode = "impedance", pc = "checked"
        PROVE  cur.epoch \notin broken
    <3> SUFFICES ASSUME cur.epoch \in broken PROVE FALSE OBVIOUS
    <3>1. failedEpoch # None /\ cur.epoch =< failedEpoch /\ failedEpoch =< cur.epoch
      BY <2>1
    <3>2. cur.epoch \in Epochs /\ failedEpoch \in Epochs
      BY <3>1 DEF TypeOK, ThreadType
    <3>3. cur.epoch \in Nat /\ failedEpoch \in Nat
      BY <3>2, BoundsAssumption DEF Epochs
    <3> QED BY <2>1, <3>1, <3>3 DEF MitLatched
  <2>2. CASE Settle("failed")
    BY <1>6, <2>2, SettleLatchInv DEF PrepareEntry, TypeOK, ThreadType
  <2> QED BY <1>6, <2>1, <2>2 DEF PrepareEntry, GoTo
<1>7. ASSUME NEW g \in BOOLEAN, MitGuard(g) PROVE LatchInv'
  <2>1. CASE GoTo("write")
    BY <1>7, <2>1 DEF MitGuard, GoTo
  <2>2. ASSUME NEW outcome \in {"revoked", "failed"}, Settle(outcome) PROVE LatchInv'
    BY <1>7, <2>2, SettleLatchInv DEF MitGuard, TypeOK, ThreadType
  <2> QED BY <1>7, <2>1, <2>2 DEF MitGuard
<1>8. CASE WriteCur
  BY <1>8 DEF WriteCur
<1>9. ASSUME NEW ok \in BOOLEAN, WriteReturns(ok) PROVE LatchInv'
  <2>1. CASE GoTo("guard")
    BY <1>9, <2>1 DEF WriteReturns, GoTo
  <2>2. ASSUME NEW outcome \in {"sent", "failed"}, Settle(outcome) PROVE LatchInv'
    BY <1>9, <2>2, SettleLatchInv DEF WriteReturns, TypeOK, ThreadType
  <2> QED BY <1>9, <2>1, <2>2 DEF WriteReturns
<1>10. ASSUME NEW g \in BOOLEAN, CheckEnvelope(g) PROVE LatchInv'
  BY <1>10 DEF CheckEnvelope, EnvelopeMoves, EnvelopeDone
<1>11. CASE StartEnvelope
  BY <1>11 DEF StartEnvelope, EnvelopeMoves
<1>12. CASE EnvelopeReturns
  BY <1>12 DEF EnvelopeReturns, EnvelopeDone
<1> QED BY <1>1, <1>2, <1>3, <1>4, <1>5, <1>6, <1>7, <1>8, <1>9, <1>10, <1>11, <1>12
        DEF Owner

\* After a MIT batch failed in an epoch, wholly or half-way, no MIT frame is
\* written in that epoch again, although _impedance_failed_epoch holds one
\* epoch only.
THEOREM FailedMitStaysLatched == Spec => []NoMitAfterFailure
<1>1. Init => LatchInv
  BY DEF Init, LatchInv
<1>2. TypeOK /\ StaleInv /\ LatchInv /\ [Next]_vars => LatchInv'
  <2> SUFFICES ASSUME TypeOK, StaleInv, LatchInv, [Next]_vars PROVE LatchInv' OBVIOUS
  <2>1. CASE UNCHANGED vars
    BY <2>1 DEF vars, epochVars, txVars, LatchInv
  <2> QED BY <2>1, OthersLatchInv, OwnerLatchInv DEF Next
<1>3. LatchInv => NoMitAfterFailure
  BY DEF LatchInv, NoMitAfterFailure
<1> QED BY <1>1, <1>2, <1>3, TypeCorrect, StaleInvariant, PTL DEF Spec

-----------------------------------------------------------------------------
\* Turns.

Dispatching == pc \in {"entry", "checked", "guard", "write", "sdk"}

\* The owner has served the stream since it last served the queue, and looks
\* at the queue before it serves the stream again.
OwesTurn == Dispatching \/ (lastWasCpv /\ pc \in {"high", "any"})

TurnInv ==
  /\ \A c \in Calls : envState[c] \in {"none", "numbered"} => overtaken[c] = 0
  /\ \A c \in Queued : overtaken[c] =< served[c] + (IF OwesTurn THEN 1 ELSE 0)
  /\ \A c \in Queued : pc \in {"cpv2", "stopped"} => overtaken[c] = 0

\* A P0 or P1 that was queued when the loop started over is taken first.
UrgentInv ==
  \A c \in Queued : env[c].prio =< 1 =>
    /\ overtaken[c] =< 1
    /\ pc \in {"cpv", "any", "cpv2", "stopped"} => overtaken[c] = 0

TurnsInv == TurnInv /\ UrgentInv

\* What CallBegin and CallEnqueue do to the calls.
LEMMA CallingTurnsInv ==
  ASSUME TypeOK, TurnsInv, Calling PROVE TurnsInv'
<1> USE DEF TurnsInv, TurnInv, UrgentInv, OwesTurn, Dispatching, Queued, txVars
<1>1. ASSUME NEW c \in Calls, NEW p \in Priorities, NEW e \in Epochs,
             NEW cat \in Categories \cup {"normal"}, CallBegin(c, p, e, cat)
      PROVE  TurnsInv'
  <2>1. /\ envState'[c] = "numbered" /\ envState[c] = "none"
        /\ \A d \in Calls \ {c} : envState'[d] = envState[d] /\ env'[d] = env[d]
    BY <1>1 DEF CallBegin, TypeOK, CallType
  <2>2. UNCHANGED <<pc, lastWasCpv, overtaken, served>>
    BY <1>1 DEF CallBegin
  <2> QED BY <2>1, <2>2
<1>2. ASSUME NEW c \in Calls, CallEnqueue(c) PROVE TurnsInv'
  <2>1. /\ envState'[c] = "queued" /\ overtaken[c] = 0
        /\ \A d \in Calls \ {c} : envState'[d] = envState[d]
    BY <1>2 DEF CallEnqueue, TypeOK, CallType
  <2>2. UNCHANGED <<pc, lastWasCpv, overtaken, served, env>>
    BY <1>2 DEF CallEnqueue
  <2>3. served[c] \in Nat
    BY DEF TypeOK, CallType
  <2> QED BY <2>1, <2>2, <2>3
<1>3. CASE Close
  BY <1>3 DEF Close
<1> QED BY <1>1, <1>2, <1>3 DEF Calling

\* Served: everybody else in the queue gets a turn's credit.
LEMMA TakeEnvelopeTurnsInv ==
  ASSUME TypeOK, TurnsInv, pc \in {"high", "any"}, NEW c \in Queued, TakeEnvelope(c),
         pc = "any" => \A d \in Queued : env[d].prio =< 1 => overtaken[d] = 0
  PROVE  TurnsInv'
<1>1. pc' = "envelope" /\ env' = env /\ c \in Calls
  BY DEF TakeEnvelope, Queued
<1>2. envState'[c] = "taken" /\ \A d \in Calls \ {c} : envState'[d] = envState[d]
  BY <1>1 DEF TakeEnvelope, TypeOK, CallType
<1>3. \A d \in Calls \ {c} : overtaken'[d] = overtaken[d] /\ overtaken[d] \in Nat
  BY <1>1 DEF TakeEnvelope, TypeOK, CallType
<1>4. \A d \in Queued \ {c} : served'[d] = served[d] + 1 /\ served[d] \in Nat
  BY <1>1 DEF TakeEnvelope, TypeOK, CallType, Queued
<1>5. Queued' = Queued \ {c}
  BY <1>2 DEF Queued
<1>6. TurnInv'
  <2>1. \A d \in Calls : envState'[d] \in {"none", "numbered"} => overtaken'[d] = 0
    BY <1>2, <1>3 DEF TurnsInv, TurnInv
  <2>2. \A d \in Queued' : overtaken'[d] =< served'[d]
    <3> SUFFICES ASSUME NEW d \in Queued \ {c} PROVE overtaken'[d] =< served'[d]
      BY <1>5
    <3>1. overtaken[d] =< served[d] + 1
      BY <1>3, <1>4 DEF TurnsInv, TurnInv, Queued
    <3> QED BY <1>3, <1>4, <3>1 DEF Queued
  <2> QED BY <1>1, <2>1, <2>2, <1>4, <1>5 DEF TurnInv, OwesTurn, Dispatching
<1>7. UrgentInv'
  BY <1>1, <1>3, <1>5 DEF TurnsInv, UrgentInv, Queued
<1> QED BY <1>6, <1>7 DEF TurnsInv

\* Overtaken: only by a stream that nobody had to wait for before.
LEMMA TakeEntryTurnsInv ==
  ASSUME TypeOK, TurnsInv, pc \in {"cpv", "cpv2"}, TakeEntry
  PROVE  TurnsInv'
<1>1. pc' = "entry" /\ UNCHANGED <<env, envState, served>> /\ Queued' = Queued
  BY DEF TakeEntry, Queued
<1>2. \A d \in Calls :
        /\ overtaken[d] \in Nat /\ served[d] \in Nat
        /\ d \in Queued => overtaken'[d] = overtaken[d] + 1
        /\ d \notin Queued => overtaken'[d] = overtaken[d]
  BY DEF TakeEntry, TypeOK, CallType
<1>3. TurnInv'
  <2>1. \A d \in Calls : envState'[d] \in {"none", "numbered"} => overtaken'[d] = 0
    BY <1>1, <1>2 DEF TurnsInv, TurnInv, Queued
  <2>2. \A d \in Queued : overtaken[d] =< served[d]
    BY <1>2 DEF TurnsInv, TurnInv, OwesTurn, Dispatching, Queued
  <2> QED BY <1>1, <1>2, <2>1, <2>2 DEF TurnInv, OwesTurn, Dispatching, Queued
<1>4. UrgentInv'
  BY <1>1, <1>2 DEF TurnsInv, UrgentInv, Queued
<1> QED BY <1>3, <1>4 DEF TurnsInv

\* A dispatch goes on or ends, an envelope goes on or ends: the queue stays.
LEMMA DispatchTurnsInv ==
  ASSUME TypeOK, TurnsInv, UNCHANGED callVars, Dispatching,
         Dispatching' \/ (pc' = "high" /\ lastWasCpv')
  PROVE  TurnsInv'
  BY DEF TurnsInv, TurnInv, UrgentInv, OwesTurn, Dispatching, Queued, callVars

LEMMA EnvelopeTurnsInv ==
  ASSUME TypeOK, TurnsInv, pc \in {"envelope", "execute", "backend"},
         NEW state \in {"cleared", "running", "served", "rejected"},
         envState' = [envState EXCEPT ![curCall] = state],
         UNCHANGED <<env, overtaken, served>>,
         pc' \in {"execute", "backend"} \/ (pc' = "high" /\ ~lastWasCpv')
  PROVE  TurnsInv'
<1>1. curCall \in Calls /\ envState[curCall] \in {"taken", "cleared", "running"}
  BY DEF TypeOK, ThreadType
<1>2. /\ envState'[curCall] = state
      /\ \A d \in Calls \ {curCall} : envState'[d] = envState[d]
  BY <1>1 DEF TypeOK, CallType
<1>3. Queued' = Queued
  BY <1>1, <1>2 DEF Queued
<1>4. ~OwesTurn /\ ~OwesTurn'
  BY DEF OwesTurn, Dispatching
<1> QED BY <1>1, <1>2, <1>3, <1>4 DEF TurnsInv, TurnInv, UrgentInv

LEMMA OwnerTurnsInv ==
  ASSUME TypeOK, TurnsInv, Owner PROVE TurnsInv'
<1>1. CASE TakeHigh
  <2>1. ASSUME NEW c \in Calls, Head(c), TakeEnvelope(c) PROVE TurnsInv'
    BY <1>1, <2>1, TakeEnvelopeTurnsInv DEF TakeHigh, Head
  <2>2. ASSUME \A c \in Queued : env[c].prio > 1, Skip(IF lastWasCpv THEN "any" ELSE "cpv")
        PROVE  TurnsInv'
    <3>1. \A c \in Queued : ~(env[c].prio =< 1)
      <4> SUFFICES ASSUME NEW c \in Queued PROVE ~(env[c].prio =< 1) OBVIOUS
      <4>1. env[c] \in Envelope
        BY DEF Queued, TypeOK, CallType, ThreadType
      <4>2. env[c].prio \in 0..2
        BY <4>1, InstanceAssumption DEF Envelope
      <4> QED BY <2>2, <4>2
    <3>2. UNCHANGED callVars /\ UNCHANGED lastWasCpv
          /\ pc' = IF lastWasCpv THEN "any" ELSE "cpv"
      BY <2>2 DEF Skip
    <3>3. pc = "high"
      BY <1>1 DEF TakeHigh
    <3>4. UrgentInv'
      BY <3>1, <3>2 DEF UrgentInv, Queued, callVars
    <3>5. TurnInv'
      BY <3>2, <3>3 DEF TurnsInv, TurnInv, OwesTurn, Dispatching, Queued, callVars
    <3> QED BY <3>4, <3>5 DEF TurnsInv
  <2> QED BY <1>1, <2>1, <2>2 DEF TakeHigh
<1>2. CASE TakeCpv
  <2>1. CASE Skip("any")
    <3>1. UNCHANGED callVars /\ UNCHANGED lastWasCpv /\ pc = "cpv" /\ pc' = "any"
      BY <1>2, <2>1 DEF TakeCpv, Skip
    <3>2. \A d \in Queued : overtaken[d] \in Nat /\ served[d] \in Nat
      BY DEF TypeOK, CallType, Queued
    <3> QED BY <3>1, <3>2
            DEF TurnsInv, TurnInv, UrgentInv, OwesTurn, Dispatching, Queued, callVars
  <2> QED BY <1>2, <2>1, TakeEntryTurnsInv DEF TakeCpv
<1>3. CASE TakeAny
  <2>1. ASSUME NEW c \in Calls, Head(c), TakeEnvelope(c) PROVE TurnsInv'
    BY <1>3, <2>1, TakeEnvelopeTurnsInv DEF TakeAny, Head, TurnsInv, UrgentInv
  <2>2. CASE Queued = {} /\ UNCHANGED <<env, envState, overtaken, served>>
    BY <2>2 DEF TurnsInv, TurnInv, UrgentInv, Queued
  <2> QED BY <1>3, <2>1, <2>2 DEF TakeAny, StopThread, Skip, callVars
<1>4. CASE TakeCpvLast
  <2>1. CASE Skip("high")
    <3>1. UNCHANGED callVars /\ pc = "cpv2" /\ pc' = "high"
      BY <1>4, <2>1 DEF TakeCpvLast, Skip
    <3>2. \A d \in Queued : overtaken[d] = 0 /\ served[d] \in Nat
      BY <3>1 DEF TypeOK, CallType, Queued, TurnsInv, TurnInv
    <3> QED BY <3>1, <3>2
            DEF TurnsInv, TurnInv, UrgentInv, OwesTurn, Dispatching, Queued, callVars
  <2> QED BY <1>4, <2>1, TakeEntryTurnsInv DEF TakeCpvLast
<1>5. ASSUME NEW next \in {"checked", "guard", "write"}, GoTo(next), Dispatching
      PROVE  TurnsInv'
  BY <1>5, DispatchTurnsInv DEF GoTo, Dispatching
<1>6. ASSUME NEW outcome, Settle(outcome), Dispatching PROVE TurnsInv'
  BY <1>6, DispatchTurnsInv DEF Settle
<1>7. ASSUME NEW g \in BOOLEAN, CheckEntry(g) PROVE TurnsInv'
  BY <1>5, <1>6, <1>7 DEF CheckEntry, Dispatching
<1>8. ASSUME NEW ok \in BOOLEAN, PrepareEntry(ok) PROVE TurnsInv'
  BY <1>5, <1>6, <1>8 DEF PrepareEntry, Dispatching
<1>9. ASSUME NEW g \in BOOLEAN, MitGuard(g) PROVE TurnsInv'
  BY <1>5, <1>6, <1>9 DEF MitGuard, Dispatching
<1>10. CASE WriteCur
  BY <1>10, DispatchTurnsInv DEF WriteCur, Dispatching
<1>11. ASSUME NEW ok \in BOOLEAN, WriteReturns(ok) PROVE TurnsInv'
  BY <1>5, <1>6, <1>11 DEF WriteReturns, Dispatching
<1>12. ASSUME NEW g \in BOOLEAN, CheckEnvelope(g) PROVE TurnsInv'
  BY <1>12, EnvelopeTurnsInv DEF CheckEnvelope, EnvelopeMoves, EnvelopeDone
<1>13. CASE StartEnvelope
  BY <1>13, EnvelopeTurnsInv DEF StartEnvelope, EnvelopeMoves
<1>14. CASE EnvelopeReturns
  BY <1>14, EnvelopeTurnsInv DEF EnvelopeReturns, EnvelopeDone
<1> QED BY <1>1, <1>2, <1>3, <1>4, <1>7, <1>8, <1>9, <1>10, <1>11, <1>12, <1>13, <1>14
        DEF Owner

\* Neither does the stream starve the queue nor does it delay urgent work by
\* more than the dispatch the loop had already decided on.
THEOREM TurnsAreKept == Spec => []TurnsKept
<1>1. Init => TurnsInv
  BY DEF Init, TurnsInv, TurnInv, UrgentInv, Queued
<1>2. TypeOK /\ TurnsInv /\ [Next]_vars => TurnsInv'
  <2> SUFFICES ASSUME TypeOK, TurnsInv, [Next]_vars PROVE TurnsInv' OBVIOUS
  <2>1. CASE UNCHANGED <<txVars, callVars>>
    BY <2>1 DEF txVars, callVars, TurnsInv, TurnInv, UrgentInv, OwesTurn, Dispatching, Queued
  <2>2. CASE Stream \/ Ownership
    BY <2>1, <2>2, OthersKeepOwner
       DEF Stream, Publish, RevokeBefore, Ownership, AdvanceEpoch, PurgeMailbox,
           CompleteTransition
  <2>3. CASE UNCHANGED vars
    BY <2>1, <2>3 DEF vars
  <2> QED BY <2>2, <2>3, CallingTurnsInv, OwnerTurnsInv DEF Next
<1>3. TypeOK /\ TurnsInv => TurnsKept
  <2> SUFFICES ASSUME TypeOK, TurnsInv, NEW c \in Queued
               PROVE  /\ env[c].prio =< 1 => overtaken[c] =< 1
                      /\ overtaken[c] =< served[c] + 1
    BY DEF TurnsKept, P0NotOvertaken, FairTurn
  <2>1. overtaken[c] \in Nat /\ served[c] \in Nat
    BY DEF TypeOK, CallType, Queued
  <2> QED BY <2>1 DEF TurnsInv, TurnInv, UrgentInv
<1> QED BY <1>1, <1>2, <1>3, TypeCorrect, PTL DEF Spec

-----------------------------------------------------------------------------
\* Verdicts.

\* What is being dispatched has no verdict yet, though it may be trimmed.
VerdictInv == cur # None => result[cur.rev] \in {"pending", "absent"}

\* Every step keeps what has been decided, or forgets it.
Decided == \A r \in Revs : result[r] \in Terminal => result'[r] \in {result[r], "absent"}

LEMMA PublishDecides ==
  ASSUME TypeOK, StreamInv, VerdictInv, NEW e \in Epochs, NEW g \in Gens, NEW m \in Modes,
         Publish(e, g, m)
  PROVE  Decided /\ VerdictInv'
<1> DEFINE new == revision + 1
           after == IF mailbox = None THEN result
                    ELSE [result EXCEPT ![mailbox.rev] = "superseded"]
           res == [after EXCEPT ![new] = "pending"]
<1>1. new \in Revs /\ result' = Trim(res) /\ cur' = cur
  BY BoundsAssumption DEF Publish, TypeOK, StreamType, Revs, txVars
<1>2. res \in [Revs -> Statuses]
  BY <1>1 DEF TypeOK, StreamType, Entry, Statuses, Terminal
<1>3. \A r \in Revs : result'[r] \in {res[r], "absent"}
  BY <1>1, <1>2, TrimForgets
<1>4. result[new] = "absent" /\ (mailbox # None => result[mailbox.rev] = "pending")
  BY <1>1 DEF StreamInv, TypeOK, StreamType, Revs
<1>5. \A r \in Revs : res[r] # result[r] => r = new \/ (mailbox # None /\ r = mailbox.rev)
  BY <1>1 DEF TypeOK, StreamType, Entry
<1>6. Decided
  BY <1>3, <1>4, <1>5 DEF Decided, Terminal
<1>7. VerdictInv'
  <2> SUFFICES ASSUME cur # None PROVE result'[cur.rev] \in {"pending", "absent"}
    BY <1>1 DEF VerdictInv
  <2>1. cur.rev \in Revs /\ cur.rev =< revision
        /\ (mailbox # None => cur.rev < revision /\ mailbox.rev = revision)
    BY DEF TypeOK, ThreadType, Entry, StreamInv
  <2>2. cur.rev # new /\ (mailbox # None => cur.rev # mailbox.rev)
    BY <2>1, <1>1 DEF TypeOK, StreamType, Revs
  <2>3. res[cur.rev] = result[cur.rev]
    BY <1>5, <2>1, <2>2
  <2> QED BY <1>3, <2>1, <2>3 DEF VerdictInv
<1> QED BY <1>6, <1>7

LEMMA DropDecides ==
  ASSUME TypeOK, StreamInv, VerdictInv, mailbox # None, DropMailbox, UNCHANGED cur
  PROVE  Decided /\ VerdictInv'
<1>1. mailbox.rev \in Revs /\ result[mailbox.rev] = "pending"
  BY DEF TypeOK, StreamType, Entry, StreamInv
<1>2. \A r \in Revs \ {mailbox.rev} : result'[r] = result[r]
  BY DEF DropMailbox, TypeOK, StreamType
<1>3. cur # None => cur.rev \in Revs /\ cur.rev # mailbox.rev
  BY DEF TypeOK, StreamType, ThreadType, Entry, StreamInv, Revs
<1> QED BY <1>1, <1>2, <1>3 DEF Decided, VerdictInv, Terminal

LEMMA SettleDecides ==
  ASSUME TypeOK, VerdictInv, cur \in Entry, NEW outcome \in {"sent", "revoked", "failed"},
         Settle(outcome)
  PROVE  Decided /\ VerdictInv'
<1> DEFINE res == [result EXCEPT ![cur.rev] = outcome]
<1>1. cur.rev \in Revs /\ cur # None /\ cur' = None
  BY NoneAssumption DEF Entry, Settle
<1>2. res \in [Revs -> Statuses]
  BY <1>1 DEF TypeOK, StreamType, Statuses, Terminal
<1>3. \A r \in Revs : result'[r] \in {res[r], "absent"}
  BY <1>2, TrimForgets DEF Settle
<1>4. \A r \in Revs \ {cur.rev} : res[r] = result[r]
  BY DEF TypeOK, StreamType
<1>5. result[cur.rev] \notin Terminal
  BY <1>1 DEF VerdictInv, Terminal
<1> HIDE DEF res
<1> QED BY <1>1, <1>3, <1>4, <1>5 DEF Decided, VerdictInv

LEMMA UndecidedStep ==
  ASSUME VerdictInv, result' = result, cur' \in {cur, None} PROVE Decided /\ VerdictInv'
  BY DEF Decided, VerdictInv

LEMMA TakeEntryDecides ==
  ASSUME TypeOK, StreamInv, mailbox # None, TakeEntry PROVE Decided /\ VerdictInv'
  BY DEF TakeEntry, StreamInv, VerdictInv, Decided

LEMMA StepDecides ==
  ASSUME TypeOK, StreamInv, VerdictInv, [Next]_vars PROVE Decided /\ VerdictInv'
<1>1. CASE Stream
  <2>1. ASSUME NEW e \in Epochs, NEW g \in Gens, RevokeBefore(e, g)
        PROVE  Decided /\ VerdictInv'
    BY <2>1, DropDecides, UndecidedStep DEF RevokeBefore, KeepMailbox, txVars
  <2> QED BY <1>1, <2>1, PublishDecides DEF Stream
<1>2. CASE Ownership
  <2>1. CASE PurgeMailbox
    BY <2>1, DropDecides, UndecidedStep DEF PurgeMailbox, KeepMailbox, txVars
  <2> QED BY <1>2, <2>1, UndecidedStep
          DEF Ownership, AdvanceEpoch, CompleteTransition, cpvVars, txVars
<1>3. CASE Calling
  BY <1>3, UndecidedStep DEF Calling, CallBegin, CallEnqueue, Close, cpvVars, txVars
<1>4. CASE Owner
  <2>1. CASE TakeHigh
    BY <2>1, UndecidedStep DEF TakeHigh, TakeEnvelope, Skip, cpvVars
  <2>2. CASE TakeCpv
    BY <2>2, TakeEntryDecides, UndecidedStep DEF TakeCpv, Skip, cpvVars
  <2>3. CASE TakeAny
    BY <2>3, UndecidedStep DEF TakeAny, TakeEnvelope, StopThread, Skip, cpvVars
  <2>4. CASE TakeCpvLast
    BY <2>4, TakeEntryDecides, UndecidedStep DEF TakeCpvLast, Skip, cpvVars
  <2>5. ASSUME NEW next, GoTo(next) PROVE Decided /\ VerdictInv'
    BY <2>5, UndecidedStep DEF GoTo, cpvVars
  <2>6. ASSUME NEW g \in BOOLEAN, CheckEntry(g) PROVE Decided /\ VerdictInv'
    BY <2>5, <2>6, SettleDecides DEF CheckEntry, TypeOK, ThreadType
  <2>7. ASSUME NEW ok \in BOOLEAN, PrepareEntry(ok) PROVE Decided /\ VerdictInv'
    BY <2>5, <2>7, SettleDecides DEF PrepareEntry, TypeOK, ThreadType
  <2>8. ASSUME NEW g \in BOOLEAN, MitGuard(g) PROVE Decided /\ VerdictInv'
    BY <2>5, <2>8, SettleDecides DEF MitGuard, TypeOK, ThreadType
  <2>9. ASSUME NEW ok \in BOOLEAN, WriteReturns(ok) PROVE Decided /\ VerdictInv'
    BY <2>5, <2>9, SettleDecides DEF WriteReturns, TypeOK, ThreadType
  <2>10. CASE WriteCur
    BY <2>10, UndecidedStep DEF WriteCur, cpvVars
  <2>11. ASSUME NEW g \in BOOLEAN, CheckEnvelope(g) PROVE Decided /\ VerdictInv'
    BY <2>11, UndecidedStep DEF CheckEnvelope, EnvelopeMoves, EnvelopeDone, cpvVars
  <2>12. CASE StartEnvelope
    BY <2>12, UndecidedStep DEF StartEnvelope, EnvelopeMoves, cpvVars
  <2>13. CASE EnvelopeReturns
    BY <2>13, UndecidedStep DEF EnvelopeReturns, EnvelopeDone, cpvVars
  <2> QED BY <1>4, <2>1, <2>2, <2>3, <2>4, <2>6, <2>7, <2>8, <2>9, <2>10, <2>11, <2>12,
             <2>13 DEF Owner
<1>5. CASE UNCHANGED vars
  BY <1>5, UndecidedStep DEF vars, cpvVars, txVars
<1> QED BY <1>1, <1>2, <1>3, <1>4, <1>5 DEF Next

\* What cpv_result once reported as sent, superseded, revoked or failed, it
\* reports until the revision is trimmed.
THEOREM VerdictsAreFinal == Spec => ResultsFinal
<1>1. Init => VerdictInv
  BY DEF Init, VerdictInv
<1>2. TypeOK /\ StreamInv /\ VerdictInv /\ [Next]_vars => [Decided]_vars /\ VerdictInv'
  BY StepDecides
<1>3. [][Decided]_vars <=> ResultsFinal
  BY PTL DEF ResultsFinal, Decided
<1> QED BY <1>1, <1>2, <1>3, TypeCorrect, StreamCorrect, PTL DEF Spec

-----------------------------------------------------------------------------
\* Transitions.

Begun == {c \in Calls : envState[c] \in {"running", "served"}}

\* A dispatch past its check belongs to the newest epoch in which anything has
\* run, and an exclusive category that is not its own is of a later epoch.
IsolationInv ==
  /\ \A c \in Calls : envState[c] # "none" => env[c].epoch =< epoch
  /\ pc \in {"checked", "guard", "write", "sdk"} =>
       /\ \A c \in Begun : env[c].epoch =< cur.epoch
       /\ cur.epoch =< epoch /\ (cur.epoch = epoch => exclusive = None)
  /\ pc = "execute" /\ CurEnv.prio # 0 =>
       /\ \A c \in Begun : env[c].epoch =< CurEnv.epoch
       /\ CurEnv.epoch = epoch => exclusive \in {None, CurEnv.cat}

\* The step TransitionIsolated allows.
IsolatedStep ==
  WriteStarts /\ TransitionBegan =>
    pc = "execute" /\ (CurEnv.prio = 0 \/ CurEnv.cat = exclusive)

LEMMA EpochTypes ==
  ASSUME TypeOK
  PROVE  /\ epoch \in Nat
         /\ \A c \in Calls : envState[c] # "none" => env[c] \in Envelope /\ env[c].epoch \in Nat
         /\ cur # None => cur.epoch \in Nat
<1>1. Epochs \subseteq Nat
  BY BoundsAssumption DEF Epochs
<1>2. \A c \in Calls : envState[c] # "none" => env[c] \in Envelope
  BY DEF TypeOK, CallType, ThreadType
<1> QED BY <1>1, <1>2 DEF TypeOK, EpochType, ThreadType, Entry, Envelope

LEMMA IsolationShows ==
  ASSUME TypeOK, IsolationInv, [Next]_vars PROVE IsolatedStep
<1> SUFFICES ASSUME WriteStarts, TransitionBegan
             PROVE  pc = "execute" /\ (CurEnv.prio = 0 \/ CurEnv.cat = exclusive)
  BY DEF IsolatedStep
<1>1. PICK c \in Begun : env[c].cat = exclusive /\ env[c].epoch = epoch
  BY DEF TransitionBegan, Begun
<1>2. exclusive # None /\ epoch \in Nat
  BY EpochTypes DEF TransitionBegan
<1>3. CASE pc = "write"
  <2>1. epoch =< cur.epoch /\ cur.epoch =< epoch /\ (cur.epoch = epoch => exclusive = None)
    BY <1>1, <1>3 DEF IsolationInv
  <2>2. cur.epoch \in Nat
    BY <1>3, EpochTypes, NoneAssumption DEF TypeOK, ThreadType
  <2> QED BY <1>2, <2>1, <2>2
<1>4. CASE pc = "execute" /\ CurEnv.prio # 0
  <2>1. epoch =< CurEnv.epoch /\ (CurEnv.epoch = epoch => exclusive \in {None, CurEnv.cat})
    BY <1>1, <1>4 DEF IsolationInv
  <2>2. curCall \in Calls /\ envState[curCall] # "none"
    BY <1>4 DEF TypeOK, ThreadType
  <2>3. CurEnv.epoch \in Nat /\ CurEnv.epoch =< epoch
    BY <2>2, EpochTypes DEF IsolationInv, CurEnv
  <2> QED BY <1>2, <1>4, <2>1, <2>3
<1> QED BY <1>3, <1>4 DEF WriteStarts

\* Nobody else starts a call or ends an epoch's freedom in the same epoch.
LEMMA OthersIsolationInv ==
  ASSUME TypeOK, IsolationInv, Stream \/ Ownership \/ Calling PROVE IsolationInv'
<1> USE DEF Begun, CurEnv
<1>1. UNCHANGED <<pc, cur, curCall>> /\ epoch \in Nat /\ epoch' \in Nat /\ epoch' >= epoch
  BY OthersKeepOwner DEF txVars
<1>2. CASE Stream
  BY <1>2 DEF Stream, Publish, RevokeBefore, IsolationInv, epochVars, callVars, txVars
<1>3. ASSUME NEW cat \in Categories \cup {None}, AdvanceEpoch(cat) PROVE IsolationInv'
  <2>1. epoch' = epoch + 1 /\ UNCHANGED <<env, envState, pc, cur, curCall>>
    BY <1>3 DEF AdvanceEpoch, callVars, txVars
  <2>2. pc = "execute" => curCall \in Calls /\ envState[curCall] # "none"
    BY DEF TypeOK, ThreadType
  <2>3. pc = "execute" => CurEnv.epoch \in Nat /\ CurEnv.epoch =< epoch
    BY <2>2, EpochTypes DEF IsolationInv
  <2>4. pc \in {"checked", "guard", "write", "sdk"} => cur.epoch \in Nat /\ cur.epoch =< epoch
    BY EpochTypes, NoneAssumption DEF IsolationInv, TypeOK, ThreadType
  <2>5. \A c \in Calls : envState[c] # "none" => env[c].epoch =< epoch'
    BY <2>1, <1>1, EpochTypes DEF IsolationInv
  <2> QED BY <1>1, <2>1, <2>3, <2>4, <2>5 DEF IsolationInv
<1>4. CASE PurgeMailbox
  BY <1>4 DEF PurgeMailbox, IsolationInv, callVars, txVars
<1>5. ASSUME NEW e \in Epochs, NEW cat \in Categories, CompleteTransition(e, cat)
      PROVE  IsolationInv'
  BY <1>5 DEF CompleteTransition, IsolationInv, callVars, txVars
<1>6. ASSUME NEW c \in Calls, NEW p \in Priorities, NEW e \in Epochs,
             NEW cat \in Categories \cup {"normal"}, CallBegin(c, p, e, cat)
      PROVE  IsolationInv'
  <2>1. /\ envState'[c] = "numbered" /\ envState[c] = "none"
        /\ env'[c].epoch = e /\ e =< epoch
        /\ \A d \in Calls \ {c} : envState'[d] = envState[d] /\ env'[d] = env[d]
    BY <1>6 DEF CallBegin, TypeOK, CallType
  <2>2. UNCHANGED <<pc, cur, curCall, epoch, exclusive>>
    BY <1>6 DEF CallBegin, txVars, epochVars
  <2>3. pc = "execute" => curCall \in Calls /\ curCall # c
    BY <2>1 DEF TypeOK, ThreadType
  <2>4. Begun' = Begun
    BY <2>1
  <2> QED BY <2>1, <2>2, <2>3, <2>4 DEF IsolationInv
<1>7. ASSUME NEW c \in Calls, CallEnqueue(c) PROVE IsolationInv'
  <2>1. /\ envState'[c] = "queued" /\ envState[c] = "numbered"
        /\ \A d \in Calls \ {c} : envState'[d] = envState[d]
    BY <1>7 DEF CallEnqueue, TypeOK, CallType
  <2>2. UNCHANGED <<pc, cur, curCall, env, epoch, exclusive>>
    BY <1>7 DEF CallEnqueue, txVars, epochVars
  <2>3. Begun' = Begun
    BY <2>1
  <2> QED BY <2>1, <2>2, <2>3 DEF IsolationInv
<1>8. CASE Close
  BY <1>8 DEF Close, IsolationInv, txVars, epochVars
<1> QED BY <1>2, <1>3, <1>4, <1>5, <1>6, <1>7, <1>8 DEF Ownership, Calling

\* An owner step that leaves the calls alone and passes no check.
LEMMA IdleIsolationInv ==
  ASSUME IsolationInv, UNCHANGED <<env, envState, epoch, exclusive>>,
         \/ pc' \notin {"checked", "guard", "write", "sdk", "execute"}
         \/ /\ pc \in {"checked", "guard", "write", "sdk"} /\ pc' # "execute"
            /\ UNCHANGED cur
  PROVE  IsolationInv'
  BY DEF IsolationInv, Begun

\* One that moves its envelope, but does not start it.
LEMMA MovedIsolationInv ==
  ASSUME TypeOK, IsolationInv, UNCHANGED <<env, epoch, exclusive>>, NEW c \in Calls,
         envState[c] # "none", NEW state, envState' = [envState EXCEPT ![c] = state],
         pc' \notin {"checked", "guard", "write", "sdk", "execute"}
  PROVE  IsolationInv'
  BY DEF IsolationInv, Begun, TypeOK, CallType

LEMMA OwnerIsolationInv ==
  ASSUME TypeOK, IsolationInv, Owner PROVE IsolationInv'
<1> USE DEF callVars, epochVars
<1>1. ASSUME NEW c \in Calls, Head(c), TakeEnvelope(c) PROVE IsolationInv'
  BY <1>1, MovedIsolationInv DEF TakeEnvelope, Head, Queued
<1>2. CASE TakeHigh
  BY <1>1, <1>2, IdleIsolationInv DEF TakeHigh, Skip
<1>3. CASE TakeCpv
  BY <1>3, IdleIsolationInv DEF TakeCpv, TakeEntry, Skip
<1>4. CASE TakeAny
  BY <1>1, <1>4, IdleIsolationInv DEF TakeAny, StopThread, Skip
<1>5. CASE TakeCpvLast
  BY <1>5, IdleIsolationInv DEF TakeCpvLast, TakeEntry, Skip
<1>6. ASSUME NEW outcome, Settle(outcome) PROVE IsolationInv'
  BY <1>6, IdleIsolationInv DEF Settle
<1>7. ASSUME NEW g \in BOOLEAN, CheckEntry(g) PROVE IsolationInv'
  <2>1. CASE GoTo("checked") /\ MayWrite
    <3>1. epoch = cur.epoch /\ exclusive = None /\ pc' = "checked"
          /\ UNCHANGED <<env, envState, epoch, exclusive, cur>>
      BY <2>1 DEF GoTo, MayWrite, EpochOpen
    <3>2. epoch \in Nat /\ \A c \in Begun : env[c].epoch =< epoch
      BY EpochTypes DEF IsolationInv, Begun
    <3> QED BY <3>1, <3>2 DEF IsolationInv, Begun
  <2> QED BY <1>6, <1>7, <2>1 DEF CheckEntry
<1>8. ASSUME NEW next \in {"checked", "guard", "write"}, GoTo(next),
             pc \in {"checked", "guard", "write", "sdk"}
      PROVE  IsolationInv'
  BY <1>8, IdleIsolationInv DEF GoTo
<1>9. ASSUME NEW ok \in BOOLEAN, PrepareEntry(ok) PROVE IsolationInv'
  BY <1>6, <1>8, <1>9 DEF PrepareEntry
<1>10. ASSUME NEW g \in BOOLEAN, MitGuard(g) PROVE IsolationInv'
  BY <1>6, <1>8, <1>10 DEF MitGuard
<1>11. CASE WriteCur
  BY <1>11, IdleIsolationInv DEF WriteCur
<1>12. ASSUME NEW ok \in BOOLEAN, WriteReturns(ok) PROVE IsolationInv'
  BY <1>6, <1>8, <1>12 DEF WriteReturns
<1>13. ASSUME NEW g \in BOOLEAN, CheckEnvelope(g) PROVE IsolationInv'
  <2>1. curCall \in Calls /\ envState[curCall] # "none"
    BY <1>13 DEF CheckEnvelope, TypeOK, ThreadType
  <2>2. CASE EnvelopeMoves("cleared", "execute") /\ Admitted(CurEnv)
    <3>1. /\ envState'[curCall] = "cleared" /\ UNCHANGED <<env, curCall, epoch, exclusive>>
          /\ \A d \in Calls \ {curCall} : envState'[d] = envState[d]
          /\ pc' = "execute"
      BY <2>1, <2>2 DEF EnvelopeMoves, TypeOK, CallType
    <3>2. Begun' \subseteq Begun /\ CurEnv' = CurEnv
      BY <3>1 DEF Begun, CurEnv
    <3>3. \A c \in Begun : env[c].epoch =< epoch
      BY EpochTypes DEF IsolationInv, Begun
    <3>4. CurEnv.prio # 0 => CurEnv.epoch = epoch /\ exclusive \in {None, CurEnv.cat}
      BY <2>2 DEF Admitted
    <3>5. \A d \in Calls : envState'[d] # "none" => env[d].epoch =< epoch
      BY <2>1, <3>1 DEF IsolationInv
    <3> QED BY <3>1, <3>2, <3>3, <3>4, <3>5 DEF IsolationInv, Begun
  <2>3. CASE EnvelopeDone("rejected")
    BY <2>1, <2>3, MovedIsolationInv DEF EnvelopeDone
  <2> QED BY <1>13, <2>2, <2>3 DEF CheckEnvelope
<1>14. CASE StartEnvelope
  <2>1. curCall \in Calls /\ envState[curCall] # "none"
    BY <1>14 DEF StartEnvelope, TypeOK, ThreadType
  <2> QED BY <1>14, <2>1, MovedIsolationInv DEF StartEnvelope, EnvelopeMoves
<1>15. CASE EnvelopeReturns
  <2>1. curCall \in Calls /\ envState[curCall] # "none"
    BY <1>15 DEF EnvelopeReturns, TypeOK, ThreadType
  <2> QED BY <1>15, <2>1, MovedIsolationInv DEF EnvelopeReturns, EnvelopeDone
<1> QED BY <1>2, <1>3, <1>4, <1>5, <1>7, <1>9, <1>10, <1>11, <1>12, <1>13, <1>14, <1>15
        DEF Owner

\* From the first SDK call of an exclusive transition to its completion, no
\* servo batch, MIT frame or foreign command starts.
THEOREM TransitionsAreIsolated == Spec => TransitionIsolated
<1>1. Init => IsolationInv
  BY DEF Init, IsolationInv
<1>2. TypeOK /\ IsolationInv /\ [Next]_vars => IsolationInv'
  <2> SUFFICES ASSUME TypeOK, IsolationInv, [Next]_vars PROVE IsolationInv' OBVIOUS
  <2>1. CASE UNCHANGED vars
    BY <2>1 DEF vars, epochVars, callVars, txVars, IsolationInv, Begun, CurEnv
  <2> QED BY <2>1, OthersIsolationInv, OwnerIsolationInv DEF Next
<1>3. TypeOK /\ IsolationInv /\ [Next]_vars => [IsolatedStep]_vars
  BY IsolationShows
<1>4. [][IsolatedStep]_vars <=> TransitionIsolated
  BY PTL DEF TransitionIsolated, IsolatedStep
<1> QED BY <1>1, <1>2, <1>3, <1>4, TypeCorrect, PTL DEF Spec

=============================================================================
