--------------------------- MODULE AuthorityProofs ---------------------------
(***************************************************************************)
(* Theorems about Authority for every number of threads and epochs.        *)
(* EpochsAgree is inductive with the types.  ExclusiveOwned and FenceHolds *)
(* rest on what the two locks exclude (HandInv, PromotedInv) and on how    *)
(* far everybody's epoch is behind the supervisor's (EpochInv); FenceHolds *)
(* also on who can still assign (PermitInv) and on what carries the epoch  *)
(* in which the servo gets the arm back (CleanInv).                        *)
(***************************************************************************)
EXTENDS Authority, TLAPS

\* Where an HTTP thread is once its exclusive transition has been promoted.
Transit == {"transition", "abandoned", "aborted", "surrender", "calling", "ok", "failed"}

OpPlaces == {"idle", "begun", "braking", "joining", "stopped"} \cup Transit
StartPlaces == {"idle", "begun", "exiting", "preparing", "priming", "prepared", "granting",
                "granted", "failed"}
LoopPlaces == {"none", "idle", "tick", "publish", "final", "fault", "promoted", "frozen"}

\* The types, apart from the bound on the epochs.
AuthType ==
  /\ auth \in [writer : Writers, mode : Modes, epoch : Nat]
  /\ txEpoch \in Nat /\ exclusive \in Exclusives \cup {None}
  /\ promoted \in Held \cup {None}
  /\ handoff \in Actors \cup {None}
  /\ leader \in BOOLEAN /\ fenced \in BOOLEAN /\ straddled \in BOOLEAN

ThreadType ==
  /\ op \in [Operators -> [kind : Kinds \cup {None}, at : OpPlaces, epoch : Nat]]
  /\ starter \in [at : StartPlaces, epoch : Nat]
  /\ loop \in [Loops -> [at : LoopPlaces, epoch : Nat]]
  /\ mark \in [Marks -> [at : {"none", "spawned", "checked"}, epoch : Nat]]

ServoType ==
  /\ session \in {"none", "STARTING", "ACTIVE", "STOPPING"}
  /\ trajectory \in {"HOLD_READY", "RUNNING", "BRAKING", "FAULT"}
  /\ motionEpoch \in Nat /\ box \in Nat \cup {None} /\ resume \in Nat \cup {None}

Typed == AuthType /\ ThreadType /\ ServoType

\* _handoff_lock: a handoff and FREEDRIVE from beginning to end, a fault while
\* it takes over, a start while it prepares, having left FREEDRIVE first.
HandInv ==
  /\ \A o \in Operators :
       op[o].at # "idle" => op[o].kind \in Kinds /\ (op[o].kind # "stop" => handoff = o)
  /\ \A o \in Operators : op[o].at \in Transit \cup {"stopped"} => op[o].kind # "stop"
  /\ \A l \in Loops : loop[l].at \in {"promoted", "frozen"} => handoff = l
  /\ starter.at \in {"exiting", "preparing", "priming"} => handoff = "starter"
  /\ starter.at \in {"preparing", "priming"} => ~leader

\* Whoever is inside an advancing _set_authority, holds that lock.
PromotedInv ==
  promoted # None =>
    /\ handoff = promoted.by
    /\ \/ /\ promoted.by \in Operators /\ op[promoted.by].at = "transition"
          /\ promoted.writer = "MODE_TRANSITION"
       \/ /\ promoted.by \in Loops /\ loop[promoted.by].at = "promoted"
          /\ promoted.writer = "SAFETY"
       \/ /\ promoted.by = "starter"
          /\ \/ starter.at = "exiting" /\ promoted.writer = "MODE_TRANSITION"
             \/ /\ starter.at = "priming" /\ promoted.writer = "SERVO"
                /\ starter.epoch = auth.epoch + 1
             \/ starter.at = "failed" /\ promoted.writer = "NONE"

\* Nobody's epoch is ahead of the supervisor's, but for the epoch a promotion
\* is opening.
EpochInv ==
  /\ box # None => box <= auth.epoch
  /\ motionEpoch <= auth.epoch
  /\ \A l \in Loops : loop[l].epoch <= auth.epoch
  /\ \A o \in Operators : op[o].at \in Transit => op[o].epoch = txEpoch
  /\ starter.epoch <= auth.epoch \/ (promoted # None /\ promoted.writer = "SERVO")

\* The exclusive category is the one of the thread that opened the transition.
ExclusiveInv ==
  exclusive # None =>
    /\ handoff \in Operators /\ exclusive = Category(op[handoff].kind)
    /\ op[handoff].at \in {"transition", "abandoned", "aborted", "calling"}

\* A thread has the arm in an epoch of its own, opened without straddling.
Taken ==
  \/ \E l \in Loops : loop[l].at \in {"promoted", "frozen"}
  \/ \E o \in Operators : op[o].at \in Transit
  \/ starter.at = "exiting"

HandingBack == \E o \in Operators : op[o].at \in Transit /\ op[o].kind = "handoff"

\* The servo is the writer, or a handoff is about to make it the writer.
Returned == auth.writer = "SERVO" \/ (promoted = None /\ HandingBack)

\* Nothing left over from the old servo carries epoch e.
Clean(e) ==
  /\ box # e /\ starter.epoch # e
  /\ \A l \in Loops : loop[l].epoch # e
  /\ session = "ACTIVE" => motionEpoch # e

\* After a revocation that straddled nobody's check, nobody still holds an old
\* permission to assign, and the new owner keeps the servo out ...
PermitInv ==
  fenced /\ ~straddled =>
    /\ auth.writer # "SERVO" => ~Pending
    /\ promoted = None /\ Taken => auth.writer # "SERVO"

\* ... and a servo that is given the arm back finds nothing of that epoch.
CleanInv == fenced /\ ~straddled /\ Returned => Clean(auth.epoch)

\* FREEDRIVE is left before the arm is the servo's again.
LeaderInv ==
  /\ promoted = None /\ Taken => fenced
  /\ leader => fenced
  /\ \A o \in Operators : op[o].at = "ok" /\ op[o].kind = "handoff" => ~leader
  /\ ~straddled /\ leader => auth.writer # "SERVO"

\* What every theorem rests on.
LockInv == Typed /\ HandInv /\ PromotedInv /\ EpochsAgree /\ EpochInv

-----------------------------------------------------------------------------
\* What the shared operators come to.

LEMMA AssignEffect ==
  ASSUME AuthType, NEW writer \in Writers, NEW mode \in Modes, Assign(writer, mode)
  PROVE  /\ promoted = None
         /\ auth' \in [writer : Writers, mode : Modes, epoch : Nat]
         /\ auth'.writer = writer /\ auth'.epoch = auth.epoch
         /\ UNCHANGED <<txEpoch, exclusive, promoted, fenced, straddled>>
  BY DEF AuthType, Assign

LEMMA PromoteEffect ==
  ASSUME AuthType, NEW actor \in Actors, NEW writer \in Writers, NEW mode \in Modes,
         NEW category \in Exclusives \cup {None}, Promote(actor, writer, mode, category)
  PROVE  /\ promoted = None /\ promoted' \in Held /\ promoted' # None
         /\ promoted'.by = actor /\ promoted'.writer = writer
         /\ txEpoch' = auth.epoch + 1 /\ txEpoch' \in Nat /\ exclusive' = category
         /\ UNCHANGED <<auth, fenced, straddled>>
<1>1. promoted' \in Held
  BY DEF Promote, Held
<1>2. auth.epoch \in Nat
  BY DEF AuthType
<1> QED BY <1>1, <1>2, ActorAssumption DEF Promote

LEMMA InstallEffect ==
  ASSUME AuthType, Install
  PROVE  /\ promoted \in Held
         /\ auth' \in [writer : Writers, mode : Modes, epoch : Nat]
         /\ auth'.writer = promoted.writer /\ auth'.epoch = auth.epoch + 1
         /\ promoted' = None
         /\ fenced' = (promoted.writer # "SERVO") /\ fenced' \in BOOLEAN
         /\ straddled' = Pending /\ straddled' \in BOOLEAN
<1>1. promoted \in Held
  BY DEF AuthType, Install
<1>2. promoted.writer \in Writers /\ promoted.mode \in Modes
  BY <1>1 DEF Held
<1>3. auth.epoch + 1 \in Nat
  BY DEF AuthType
<1>4. Pending \in BOOLEAN
  BY DEF Pending
<1> QED BY <1>1, <1>2, <1>3, <1>4 DEF Install

\* Complete clears the category it names and no other.
LEMMA CompleteEffect ==
  ASSUME NEW e, NEW category, Complete(e, category)
  PROVE  /\ exclusive' \in {exclusive, None}
         /\ txEpoch = e /\ exclusive = category => exclusive' = None
         /\ UNCHANGED <<auth, txEpoch, promoted, fenced, straddled>>
  BY DEF Complete

\* The three kinds of thread go from place to place.
LEMMA StageEffect ==
  ASSUME ThreadType, NEW o \in Operators, NEW place \in OpPlaces, Stage(o, place)
  PROVE  /\ op' \in [Operators -> [kind : Kinds \cup {None}, at : OpPlaces, epoch : Nat]]
         /\ op'[o].at = place /\ op'[o].kind = op[o].kind /\ op'[o].epoch = op[o].epoch
         /\ \A p \in Operators : p # o => op'[p] = op[p]
  BY DEF ThreadType, Stage

LEMMA GoesEffect ==
  ASSUME ThreadType, NEW l \in Loops, NEW place \in LoopPlaces, Goes(l, place)
  PROVE  /\ loop' \in [Loops -> [at : LoopPlaces, epoch : Nat]]
         /\ loop'[l].at = place /\ loop'[l].epoch = loop[l].epoch
         /\ \A k \in Loops : k # l => loop'[k] = loop[k]
  BY DEF ThreadType, Goes

\* OpEnds assigns, and never inside a promotion.
LEMMA EndsEffect ==
  ASSUME Typed, HandInv, NEW o \in Operators, OpEnds(o)
  PROVE  /\ op[o].at \in {"ok", "failed", "surrender"}
         /\ op[o].kind \in {"handoff", "freedrive"}
         /\ \E writer \in {"NONE", "SERVO", "SAFETY"}, mode \in Modes :
              /\ Assign(writer, mode)
              /\ writer = "SERVO" => op[o].kind = "handoff" /\ op[o].at = "ok"
<1>1. op[o].kind \in {"handoff", "freedrive"} /\ op[o].at \in {"ok", "failed", "surrender"}
  BY DEF OpEnds, HandInv, Kinds, Transit
<1>2. \/ Assign("NONE", "SUSPENDED")
      \/ Assign("SERVO", "HOLDING") /\ op[o].kind = "handoff" /\ op[o].at = "ok"
      \/ Assign("SAFETY", "HOLDING")
  BY <1>1 DEF OpEnds
<1> QED BY <1>1, <1>2 DEF Modes

\* Only threads of mark_osc_stopping that have ended are spawned again.
LEMMA SpawnEffect ==
  ASSUME Typed, Spawn
  PROVE  /\ mark' \in [Marks -> [at : {"none", "spawned", "checked"}, epoch : Nat]]
         /\ \A m \in Marks : mark'[m].at = "checked" => mark[m].at = "checked"
<1> DEFINE free == {m \in Marks : mark[m].at = "none"}
           m == CHOOSE m \in free : TRUE
           new == [at |-> "spawned", epoch |-> motionEpoch]
<1>1. mark \in [Marks -> [at : {"none", "spawned", "checked"}, epoch : Nat]]
      /\ motionEpoch \in Nat
  BY DEF Typed, ThreadType, ServoType
<1>2. new \in [at : {"none", "spawned", "checked"}, epoch : Nat] /\ new.at = "spawned"
  BY <1>1
<1>3. mark' = mark \/ mark' = [mark EXCEPT ![m] = new]
  BY DEF Spawn
<1> HIDE DEF m, new
<1> QED BY <1>1, <1>2, <1>3

-----------------------------------------------------------------------------
\* Types.

LEMMA InitTyped == Init => Typed
<1> SUFFICES ASSUME Init PROVE Typed OBVIOUS
<1>1. AuthType
  BY DEF Init, AuthType, Writers, Modes
<1>2. ThreadType
  <2>1. op \in [Operators -> [kind : Kinds \cup {None}, at : OpPlaces, epoch : Nat]]
    BY DEF Init, OpPlaces
  <2>2. starter \in [at : StartPlaces, epoch : Nat]
    BY DEF Init, StartPlaces
  <2>3. loop \in [Loops -> [at : LoopPlaces, epoch : Nat]]
    BY DEF Init, LoopPlaces
  <2>4. mark \in [Marks -> [at : {"none", "spawned", "checked"}, epoch : Nat]]
    BY DEF Init
  <2> QED BY <2>1, <2>2, <2>3, <2>4 DEF ThreadType
<1>3. ServoType
  BY DEF Init, ServoType
<1> QED BY <1>1, <1>2, <1>3 DEF Typed

\* Every action keeps the types.
LEMMA TypedStep ==
  ASSUME Typed, HandInv, [Next]_vars
  PROVE  Typed'
<1> USE DEF Typed, AuthType, ThreadType, ServoType, authVars, servoVars, OpPlaces, StartPlaces,
            LoopPlaces, Transit, Writers, Modes, Actors, Category, Exclusives
<1>1. CASE Install
  BY <1>1, InstallEffect DEF Install
<1>2. CASE ResumeCheck
  BY <1>2 DEF ResumeCheck
<1>3. CASE ResumeAct
  BY <1>3, AssignEffect DEF ResumeAct
<1>4. ASSUME NEW m \in Marks, MarkCheck(m)
      PROVE  Typed'
  BY <1>4 DEF MarkCheck
<1>5. ASSUME NEW m \in Marks, MarkAct(m)
      PROVE  Typed'
  BY <1>5, AssignEffect DEF MarkAct
<1>6. ASSUME NEW l \in Loops, LoopExit(l)
      PROVE  Typed'
  BY <1>6 DEF LoopExit, Goes
<1>7. ASSUME NEW l \in Loops, NEW expired \in BOOLEAN, LoopRead(l, expired)
      PROVE  Typed'
  BY <1>7, SpawnEffect DEF LoopRead, Invalidate
<1>8. ASSUME NEW l \in Loops, LoopGate(l)
      PROVE  Typed'
  BY <1>8 DEF LoopGate, Goes
<1>9. ASSUME NEW l \in Loops, LoopPublish(l)
      PROVE  Typed'
  BY <1>9 DEF LoopPublish, Goes
<1>10. ASSUME NEW l \in Loops, NEW settled \in BOOLEAN, LoopFinal(l, settled)
      PROVE  Typed'
  BY <1>10, AssignEffect DEF LoopFinal, Goes
<1>11. ASSUME NEW l \in Loops, LoopFault(l)
      PROVE  Typed'
  BY <1>11 DEF LoopFault, Goes
<1>12. ASSUME NEW l \in Loops, FaultTakesOver(l)
      PROVE  Typed'
  BY <1>12, PromoteEffect DEF FaultTakesOver, Goes
<1>13. ASSUME NEW l \in Loops, FaultFreezes(l)
      PROVE  Typed'
  BY <1>13 DEF FaultFreezes, Goes
<1>14. ASSUME NEW l \in Loops, FaultEnds(l)
      PROVE  Typed'
  BY <1>14, AssignEffect DEF FaultEnds, Goes
<1>15. CASE Dispatch
  BY <1>15 DEF Dispatch
<1>16. ASSUME NEW o \in Operators, NEW kind \in Kinds, OpBegin(o, kind)
      PROVE  Typed'
  BY <1>16 DEF OpBegin
<1>17. ASSUME NEW o \in Operators, StopBrakes(o)
      PROVE  Typed'
  BY <1>17, SpawnEffect DEF StopBrakes, Stage, Invalidate
<1>18. ASSUME NEW o \in Operators, StopSignals(o)
      PROVE  Typed'
  BY <1>18 DEF StopSignals, Stage
<1>19. ASSUME NEW o \in Operators, NEW timeout \in BOOLEAN, StopJoins(o, timeout)
      PROVE  Typed'
  BY <1>19 DEF StopJoins, Stage, Release
<1>20. ASSUME NEW o \in Operators, OpGivesUp(o)
      PROVE  Typed'
  BY <1>20 DEF OpGivesUp, Stage, Release
<1>21. ASSUME NEW o \in Operators, OpPromotes(o)
      PROVE  Typed'
  <2> DEFINE r == [kind |-> op[o].kind, at |-> "transition", epoch |-> auth.epoch + 1]
  <2>1. AuthType' /\ auth.epoch + 1 \in Nat
    BY <1>21, PromoteEffect DEF OpPromotes
  <2>2. r \in [kind : Kinds \cup {None}, at : OpPlaces, epoch : Nat]
    BY <2>1
  <2>3. op' = [op EXCEPT ![o] = r]
    BY <1>21 DEF OpPromotes
  <2>4. op' \in [Operators -> [kind : Kinds \cup {None}, at : OpPlaces, epoch : Nat]]
    BY <2>2, <2>3
  <2>5. ThreadType' /\ ServoType'
    BY <1>21, <2>4 DEF OpPromotes
  <2> QED BY <2>1, <2>5
<1>22. ASSUME NEW o \in Operators, OpAbandons(o)
      PROVE  Typed'
  BY <1>22 DEF OpAbandons, Stage
<1>23. ASSUME NEW o \in Operators, NEW timeout \in BOOLEAN, OpJoins(o, timeout)
      PROVE  Typed'
  <2>1. op' \in [Operators -> [kind : Kinds \cup {None}, at : OpPlaces, epoch : Nat]]
    BY <1>23, StageEffect DEF OpJoins
  <2> QED BY <1>23, <2>1 DEF OpJoins
<1>24. ASSUME NEW o \in Operators, NEW outcome \in {"ok", "failed", "raised"},
             OpCallReturns(o, outcome)
      PROVE  Typed'
  <2>1. AuthType'
    BY <1>24, CompleteEffect DEF OpCallReturns, Release
  <2>2. op' \in [Operators -> [kind : Kinds \cup {None}, at : OpPlaces, epoch : Nat]]
    BY <1>24, StageEffect DEF OpCallReturns
  <2> QED BY <1>24, <2>1, <2>2 DEF OpCallReturns
<1>25. ASSUME NEW o \in Operators, OpAborts(o)
      PROVE  Typed'
  BY <1>25, CompleteEffect DEF OpAborts, Stage
<1>26. ASSUME NEW o \in Operators, OpEnds(o)
      PROVE  Typed'
  <2>1. PICK writer \in Writers, mode \in Modes : Assign(writer, mode)
    BY <1>26, EndsEffect DEF Writers
  <2>2. AuthType'
    BY <1>26, <2>1, AssignEffect DEF OpEnds, Release
  <2>3. op' \in [Operators -> [kind : Kinds \cup {None}, at : OpPlaces, epoch : Nat]]
    BY <1>26, StageEffect DEF OpEnds
  <2>4. ThreadType' /\ ServoType'
    BY <1>26, <2>3 DEF OpEnds
  <2> QED BY <2>2, <2>4
<1>27. CASE StartBegin
  BY <1>27 DEF StartBegin, Starts
<1>28. CASE PrepareBegins
  BY <1>28, PromoteEffect DEF PrepareBegins, Starts
<1>29. ASSUME NEW ok \in BOOLEAN, ExitReturns(ok)
      PROVE  Typed'
  <2>1. AuthType'
    BY <1>29, AssignEffect DEF ExitReturns
  <2>2. ThreadType' /\ ServoType'
    BY <1>29 DEF ExitReturns, Starts
  <2> QED BY <2>1, <2>2
<1>30. CASE PreparePromotes
  BY <1>30, PromoteEffect DEF PreparePromotes
<1>31. ASSUME NEW ok \in BOOLEAN, PrimeReturns(ok)
      PROVE  Typed'
  BY <1>31, PromoteEffect DEF PrimeReturns, Starts
<1>32. CASE StartRefused
  BY <1>32 DEF StartRefused, Starts
<1>33. CASE StartFails
  BY <1>33 DEF StartFails, Starts, Release
<1>34. CASE GrantCheck
  BY <1>34 DEF GrantCheck, Starts
<1>35. CASE GrantAct
  BY <1>35, AssignEffect DEF GrantAct, Starts
<1>36. ASSUME NEW l \in Loops, Activate(l)
      PROVE  Typed'
  BY <1>36 DEF Activate, Goes, Starts
<1>37. CASE UNCHANGED vars
  BY <1>37 DEF vars
<1> QED BY <1>1, <1>2, <1>3, <1>4, <1>5, <1>6, <1>7, <1>8, <1>9, <1>10, <1>11, <1>12, <1>13,
           <1>14, <1>15, <1>16, <1>17, <1>18, <1>19, <1>20, <1>21, <1>22, <1>23, <1>24, <1>25,
           <1>26, <1>27, <1>28, <1>29, <1>30, <1>31, <1>32, <1>33, <1>34, <1>35, <1>36, <1>37
     DEF Next, Resuming, Marking, Servo, OpRuns, StartRuns

-----------------------------------------------------------------------------
\* The handoff lock and the promotion lock.

LEMMA InitHand == Init => HandInv /\ PromotedInv
  BY DEF Init, HandInv, PromotedInv, Transit

\* Every action keeps the rules of the two locks.
LEMMA HandStep ==
  ASSUME Typed, HandInv, PromotedInv, [Next]_vars
  PROVE  HandInv' /\ PromotedInv'
<1> USE DEF HandInv, PromotedInv, Installed, Transit, Kinds, Actors, AuthType, ThreadType,
            authVars, servoVars
<1>0. AuthType /\ ThreadType
  BY DEF Typed
<1>1. CASE Install
  BY <1>1, <1>0, ActorAssumption, InstallEffect DEF Install
<1>2. CASE ResumeCheck
  BY <1>2, <1>0, ActorAssumption DEF ResumeCheck
<1>3. CASE ResumeAct
  BY <1>3, <1>0, ActorAssumption DEF ResumeAct, Assign
<1>4. ASSUME NEW m \in Marks, MarkCheck(m)
      PROVE  HandInv' /\ PromotedInv'
  BY <1>4, <1>0, ActorAssumption DEF MarkCheck
<1>5. ASSUME NEW m \in Marks, MarkAct(m)
      PROVE  HandInv' /\ PromotedInv'
  BY <1>5, <1>0, ActorAssumption DEF MarkAct, Assign
<1>6. ASSUME NEW l \in Loops, LoopExit(l)
      PROVE  HandInv' /\ PromotedInv'
  BY <1>6, <1>0, ActorAssumption DEF LoopExit, Goes
<1>7. ASSUME NEW l \in Loops, NEW expired \in BOOLEAN, LoopRead(l, expired)
      PROVE  HandInv' /\ PromotedInv'
  BY <1>7, <1>0, ActorAssumption DEF LoopRead
<1>8. ASSUME NEW l \in Loops, LoopGate(l)
      PROVE  HandInv' /\ PromotedInv'
  BY <1>8, <1>0, ActorAssumption DEF LoopGate, Goes
<1>9. ASSUME NEW l \in Loops, LoopPublish(l)
      PROVE  HandInv' /\ PromotedInv'
  <2>1. loop'[l].at \in {"final", "idle"} /\ \A k \in Loops : k # l => loop'[k] = loop[k]
    BY <1>9, <1>0, GoesEffect DEF LoopPublish, LoopPlaces
  <2> QED BY <1>9, <1>0, <2>1, ActorAssumption DEF LoopPublish
<1>10. ASSUME NEW l \in Loops, NEW settled \in BOOLEAN, LoopFinal(l, settled)
      PROVE  HandInv' /\ PromotedInv'
  BY <1>10, <1>0, ActorAssumption DEF LoopFinal, Goes, Assign
<1>11. ASSUME NEW l \in Loops, LoopFault(l)
      PROVE  HandInv' /\ PromotedInv'
  BY <1>11, <1>0, ActorAssumption DEF LoopFault, Goes
<1>12. ASSUME NEW l \in Loops, FaultTakesOver(l)
      PROVE  HandInv' /\ PromotedInv'
  BY <1>12, <1>0, ActorAssumption, PromoteEffect DEF FaultTakesOver, Goes, Writers, Modes,
     Exclusives, Category
<1>13. ASSUME NEW l \in Loops, FaultFreezes(l)
      PROVE  HandInv' /\ PromotedInv'
  BY <1>13, <1>0, ActorAssumption DEF FaultFreezes, Goes
<1>14. ASSUME NEW l \in Loops, FaultEnds(l)
      PROVE  HandInv' /\ PromotedInv'
  BY <1>14, <1>0, ActorAssumption DEF FaultEnds, Goes, Assign
<1>15. CASE Dispatch
  BY <1>15, <1>0, ActorAssumption DEF Dispatch
<1>16. ASSUME NEW o \in Operators, NEW kind \in Kinds, OpBegin(o, kind)
      PROVE  HandInv' /\ PromotedInv'
  BY <1>16, <1>0, ActorAssumption DEF OpBegin
<1>17. ASSUME NEW o \in Operators, StopBrakes(o)
      PROVE  HandInv' /\ PromotedInv'
  BY <1>17, <1>0, ActorAssumption DEF StopBrakes, Stage
<1>18. ASSUME NEW o \in Operators, StopSignals(o)
      PROVE  HandInv' /\ PromotedInv'
  BY <1>18, <1>0, ActorAssumption DEF StopSignals, Stage
<1>19. ASSUME NEW o \in Operators, NEW timeout \in BOOLEAN, StopJoins(o, timeout)
      PROVE  HandInv' /\ PromotedInv'
  BY <1>19, <1>0, ActorAssumption DEF StopJoins, Stage, Release
<1>20. ASSUME NEW o \in Operators, OpGivesUp(o)
      PROVE  HandInv' /\ PromotedInv'
  BY <1>20, <1>0, ActorAssumption DEF OpGivesUp, Stage, Release
<1>21. ASSUME NEW o \in Operators, OpPromotes(o)
      PROVE  HandInv' /\ PromotedInv'
  BY <1>21, <1>0, ActorAssumption, PromoteEffect DEF OpPromotes, Writers, Modes, Exclusives,
     Category
<1>22. ASSUME NEW o \in Operators, OpAbandons(o)
      PROVE  HandInv' /\ PromotedInv'
  BY <1>22, <1>0, ActorAssumption DEF OpAbandons, Stage
<1>23. ASSUME NEW o \in Operators, NEW timeout \in BOOLEAN, OpJoins(o, timeout)
      PROVE  HandInv' /\ PromotedInv'
  BY <1>23, <1>0, ActorAssumption DEF OpJoins, Stage
<1>24. ASSUME NEW o \in Operators, NEW outcome \in {"ok", "failed", "raised"},
             OpCallReturns(o, outcome)
      PROVE  HandInv' /\ PromotedInv'
  BY <1>24, <1>0, ActorAssumption DEF OpCallReturns, Stage, Release, Complete
<1>25. ASSUME NEW o \in Operators, OpAborts(o)
      PROVE  HandInv' /\ PromotedInv'
  BY <1>25, <1>0, ActorAssumption DEF OpAborts, Stage, Complete
<1>26. ASSUME NEW o \in Operators, OpEnds(o)
      PROVE  HandInv' /\ PromotedInv'
  <2>1. promoted = None /\ promoted' = None
    BY <1>26, EndsEffect DEF Assign
  <2>2. op'[o].at = "idle" /\ \A p \in Operators : p # o => op'[p] = op[p]
    BY <1>26, <1>0, StageEffect DEF OpEnds, OpPlaces
  <2>3. handoff = o /\ handoff' = None /\ UNCHANGED <<loop, starter>>
    BY <1>26, EndsEffect DEF OpEnds, Release
  <2> QED BY <1>0, <2>1, <2>2, <2>3, ActorAssumption
<1>27. CASE StartBegin
  BY <1>27, <1>0, ActorAssumption DEF StartBegin, Starts
<1>28. CASE PrepareBegins
  BY <1>28, <1>0, ActorAssumption, PromoteEffect DEF PrepareBegins, Starts, Writers, Modes,
     Exclusives, Category
<1>29. ASSUME NEW ok \in BOOLEAN, ExitReturns(ok)
      PROVE  HandInv' /\ PromotedInv'
  BY <1>29, <1>0, ActorAssumption DEF ExitReturns, Starts, Assign
<1>30. CASE PreparePromotes
  <2>1. /\ promoted' \in Held /\ promoted'.by = "starter" /\ promoted'.writer = "SERVO"
        /\ UNCHANGED auth
    BY <1>30, <1>0, PromoteEffect DEF PreparePromotes, Writers, Modes
  <2>2. starter'.at = "priming" /\ starter'.epoch = auth.epoch + 1
    BY <1>30 DEF PreparePromotes
  <2> QED BY <1>30, <1>0, <2>1, <2>2, ActorAssumption DEF PreparePromotes
<1>31. ASSUME NEW ok \in BOOLEAN, PrimeReturns(ok)
      PROVE  HandInv' /\ PromotedInv'
  BY <1>31, <1>0, ActorAssumption, PromoteEffect DEF PrimeReturns, Starts, Writers, Modes,
     Exclusives, Category
<1>32. CASE StartRefused
  BY <1>32, <1>0, ActorAssumption DEF StartRefused, Starts
<1>33. CASE StartFails
  BY <1>33, <1>0, ActorAssumption DEF StartFails, Starts, Release
<1>34. CASE GrantCheck
  BY <1>34, <1>0, ActorAssumption DEF GrantCheck, Starts
<1>35. CASE GrantAct
  BY <1>35, <1>0, ActorAssumption DEF GrantAct, Starts, Assign
<1>36. ASSUME NEW l \in Loops, Activate(l)
      PROVE  HandInv' /\ PromotedInv'
  BY <1>36, <1>0, ActorAssumption DEF Activate, Goes, Starts
<1>37. CASE UNCHANGED vars
  BY <1>37 DEF vars
<1> QED BY <1>1, <1>2, <1>3, <1>4, <1>5, <1>6, <1>7, <1>8, <1>9, <1>10, <1>11, <1>12, <1>13,
           <1>14, <1>15, <1>16, <1>17, <1>18, <1>19, <1>20, <1>21, <1>22, <1>23, <1>24, <1>25,
           <1>26, <1>27, <1>28, <1>29, <1>30, <1>31, <1>32, <1>33, <1>34, <1>35, <1>36, <1>37
     DEF Next, Resuming, Marking, Servo, OpRuns, StartRuns

-----------------------------------------------------------------------------
\* Epochs.

\* An exclusive transition holds the handoff lock, so nobody else is in one.
LEMMA TransitHolds ==
  ASSUME Typed, HandInv, NEW o \in Operators, op[o].at \in Transit \cup {"stopped"}
  PROVE  handoff = o /\ op[o].kind \in {"handoff", "freedrive"} /\ op[o].at # "idle"
  BY DEF HandInv, Transit, Kinds

\* Past its _set_authority, a thread that holds the handoff lock finds no
\* promotion under way.
LEMMA InstalledHolder ==
  ASSUME Typed, PromotedInv, handoff # None, Installed(handoff)
  PROVE  promoted = None
  BY DEF PromotedInv, Installed

LEMMA InitEpoch == Init => EpochsAgree /\ EpochInv
  BY DEF Init, EpochsAgree, EpochInv, Transit

\* The transport is ahead of the supervisor exactly while a promotion is under way,
\* and nobody else is.
LEMMA EpochStep ==
  ASSUME Typed, HandInv, PromotedInv, EpochsAgree, EpochInv, [Next]_vars
  PROVE  EpochsAgree' /\ EpochInv'
<1> USE DEF EpochsAgree, EpochInv, Installed, Transit, AuthType, ThreadType, ServoType, authVars,
            servoVars
<1>0. AuthType /\ ThreadType /\ ServoType
  BY DEF Typed
<1>1. CASE Install
  <2>1. promoted.writer = "SERVO" => starter.epoch = auth.epoch + 1
    BY <1>1 DEF PromotedInv, Install
  <2> QED BY <1>1, <1>0, <2>1, InstallEffect DEF Install
<1>2. CASE ResumeCheck
  BY <1>2, <1>0 DEF ResumeCheck
<1>3. CASE ResumeAct
  BY <1>3, <1>0, AssignEffect DEF ResumeAct, Writers, Modes
<1>4. ASSUME NEW m \in Marks, MarkCheck(m)
      PROVE  EpochsAgree' /\ EpochInv'
  BY <1>4, <1>0 DEF MarkCheck
<1>5. ASSUME NEW m \in Marks, MarkAct(m)
      PROVE  EpochsAgree' /\ EpochInv'
  BY <1>5, <1>0, AssignEffect DEF MarkAct, Writers, Modes
<1>6. ASSUME NEW l \in Loops, LoopExit(l)
      PROVE  EpochsAgree' /\ EpochInv'
  BY <1>6, <1>0 DEF LoopExit, Goes
<1>7. ASSUME NEW l \in Loops, NEW expired \in BOOLEAN, LoopRead(l, expired)
      PROVE  EpochsAgree' /\ EpochInv'
  BY <1>7, <1>0 DEF LoopRead
<1>8. ASSUME NEW l \in Loops, LoopGate(l)
      PROVE  EpochsAgree' /\ EpochInv'
  BY <1>8, <1>0 DEF LoopGate, Goes
<1>9. ASSUME NEW l \in Loops, LoopPublish(l)
      PROVE  EpochsAgree' /\ EpochInv'
  BY <1>9, <1>0 DEF LoopPublish, Goes
<1>10. ASSUME NEW l \in Loops, NEW settled \in BOOLEAN, LoopFinal(l, settled)
      PROVE  EpochsAgree' /\ EpochInv'
  BY <1>10, <1>0, AssignEffect DEF LoopFinal, Goes, Writers, Modes
<1>11. ASSUME NEW l \in Loops, LoopFault(l)
      PROVE  EpochsAgree' /\ EpochInv'
  BY <1>11, <1>0 DEF LoopFault, Goes
<1>12. ASSUME NEW l \in Loops, FaultTakesOver(l)
      PROVE  EpochsAgree' /\ EpochInv'
  <2>1. \A p \in Operators : op[p].at \notin Transit
    BY <1>12, TransitHolds, ActorAssumption DEF FaultTakesOver, Actors
  <2>2. /\ promoted = None /\ promoted' # None /\ txEpoch' = auth.epoch + 1
        /\ UNCHANGED auth
    BY <1>12, <1>0, PromoteEffect DEF FaultTakesOver, Writers, Modes, Actors
  <2> QED BY <1>12, <1>0, <2>1, <2>2 DEF FaultTakesOver, Goes
<1>13. ASSUME NEW l \in Loops, FaultFreezes(l)
      PROVE  EpochsAgree' /\ EpochInv'
  BY <1>13, <1>0 DEF FaultFreezes, Goes
<1>14. ASSUME NEW l \in Loops, FaultEnds(l)
      PROVE  EpochsAgree' /\ EpochInv'
  BY <1>14, <1>0, AssignEffect DEF FaultEnds, Goes, Writers, Modes
<1>15. CASE Dispatch
  BY <1>15, <1>0 DEF Dispatch
<1>16. ASSUME NEW o \in Operators, NEW kind \in Kinds, OpBegin(o, kind)
      PROVE  EpochsAgree' /\ EpochInv'
  BY <1>16, <1>0 DEF OpBegin
<1>17. ASSUME NEW o \in Operators, StopBrakes(o)
      PROVE  EpochsAgree' /\ EpochInv'
  BY <1>17, <1>0 DEF StopBrakes, Stage
<1>18. ASSUME NEW o \in Operators, StopSignals(o)
      PROVE  EpochsAgree' /\ EpochInv'
  BY <1>18, <1>0 DEF StopSignals, Stage
<1>19. ASSUME NEW o \in Operators, NEW timeout \in BOOLEAN, StopJoins(o, timeout)
      PROVE  EpochsAgree' /\ EpochInv'
  BY <1>19, <1>0 DEF StopJoins, Stage, Release
<1>20. ASSUME NEW o \in Operators, OpGivesUp(o)
      PROVE  EpochsAgree' /\ EpochInv'
  BY <1>20, <1>0 DEF OpGivesUp, Stage, Release
<1>21. ASSUME NEW o \in Operators, OpPromotes(o)
      PROVE  EpochsAgree' /\ EpochInv'
  <2>1. \A p \in Operators : p # o => op[p].at \notin Transit
    BY <1>21, TransitHolds DEF OpPromotes
  <2>2. /\ promoted = None /\ promoted' # None /\ txEpoch' = auth.epoch + 1
        /\ UNCHANGED auth
    BY <1>21, <1>0, PromoteEffect DEF OpPromotes, Writers, Modes, Actors, Exclusives, Category
  <2> QED BY <1>21, <1>0, <2>1, <2>2 DEF OpPromotes
<1>22. ASSUME NEW o \in Operators, OpAbandons(o)
      PROVE  EpochsAgree' /\ EpochInv'
  <2>1. promoted = None
    BY <1>22, TransitHolds, InstalledHolder, ActorAssumption DEF OpAbandons, Actors
  <2>2. op[o].epoch = auth.epoch
    BY <1>22, <2>1 DEF OpAbandons
  <2> QED BY <1>22, <1>0, <2>1, <2>2 DEF OpAbandons, Stage
<1>23. ASSUME NEW o \in Operators, NEW timeout \in BOOLEAN, OpJoins(o, timeout)
      PROVE  EpochsAgree' /\ EpochInv'
  BY <1>23, <1>0 DEF OpJoins, Stage
<1>24. ASSUME NEW o \in Operators, NEW outcome \in {"ok", "failed", "raised"},
             OpCallReturns(o, outcome)
      PROVE  EpochsAgree' /\ EpochInv'
  BY <1>24, <1>0, CompleteEffect DEF OpCallReturns, Stage, Release
<1>25. ASSUME NEW o \in Operators, OpAborts(o)
      PROVE  EpochsAgree' /\ EpochInv'
  BY <1>25, <1>0, CompleteEffect DEF OpAborts, Stage
<1>26. ASSUME NEW o \in Operators, OpEnds(o)
      PROVE  EpochsAgree' /\ EpochInv'
  <2>1. auth'.epoch = auth.epoch /\ UNCHANGED <<txEpoch, promoted>>
    BY <1>26, <1>0, EndsEffect, AssignEffect DEF Writers
  <2>2. \A p \in Operators : op'[p].at \in Transit => op'[p] = op[p]
    BY <1>26, <1>0, StageEffect DEF OpEnds, OpPlaces
  <2> QED BY <1>26, <1>0, <2>1, <2>2 DEF OpEnds
<1>27. CASE StartBegin
  BY <1>27, <1>0 DEF StartBegin, Starts
<1>28. CASE PrepareBegins
  <2>1. \A p \in Operators : op[p].at \notin Transit
    BY <1>28, TransitHolds, ActorAssumption DEF PrepareBegins, Actors
  <2>2. CASE leader
    <3>1. /\ promoted = None /\ promoted' # None /\ txEpoch' = auth.epoch + 1
          /\ UNCHANGED auth
      <4>1. Promote("starter", "MODE_TRANSITION", "SUSPENDED", None)
        BY <1>28, <2>2 DEF PrepareBegins
      <4> QED BY <1>0, <4>1, PromoteEffect DEF Writers, Modes, Actors
    <3> QED BY <1>28, <1>0, <2>1, <3>1 DEF PrepareBegins, Starts
  <2>3. CASE ~leader
    BY <1>28, <1>0, <2>3 DEF PrepareBegins, Starts
  <2> QED BY <2>2, <2>3
<1>29. ASSUME NEW ok \in BOOLEAN, ExitReturns(ok)
      PROVE  EpochsAgree' /\ EpochInv'
  BY <1>29, <1>0, AssignEffect DEF ExitReturns, Starts, Writers, Modes
<1>30. CASE PreparePromotes
  <2>1. handoff = "starter"
    BY <1>30 DEF PreparePromotes, HandInv
  <2>2. \A p \in Operators : op[p].at \notin Transit
    BY <2>1, TransitHolds, ActorAssumption
  <2>3. /\ promoted = None /\ promoted' # None /\ txEpoch' = auth.epoch + 1
        /\ promoted'.writer = "SERVO" /\ UNCHANGED auth
    <3>1. Promote("starter", "SERVO", "HOLDING", None)
      BY <1>30 DEF PreparePromotes
    <3>2. "starter" \in Actors /\ "SERVO" \in Writers /\ "HOLDING" \in Modes
      BY DEF Writers, Modes, Actors
    <3> QED BY <1>0, <3>1, <3>2, PromoteEffect
  <2> QED BY <1>30, <1>0, <2>2, <2>3 DEF PreparePromotes
<1>31. ASSUME NEW ok \in BOOLEAN, PrimeReturns(ok)
      PROVE  EpochsAgree' /\ EpochInv'
  <2>1. handoff = "starter"
    BY <1>31 DEF PrimeReturns, HandInv
  <2>2. \A p \in Operators : op[p].at \notin Transit
    BY <2>1, TransitHolds, ActorAssumption
  <2>3. CASE Promote("starter", "NONE", "SUSPENDED", None)
    <3>1. /\ promoted = None /\ promoted' # None /\ txEpoch' = auth.epoch + 1
          /\ UNCHANGED auth
      BY <1>0, <2>3, PromoteEffect DEF Writers, Modes, Actors
    <3> QED BY <1>31, <1>0, <2>2, <3>1 DEF PrimeReturns, Starts
  <2>4. CASE UNCHANGED authVars
    BY <1>31, <1>0, <2>4 DEF PrimeReturns, Starts
  <2> QED BY <1>31, <2>3, <2>4 DEF PrimeReturns
<1>32. CASE StartRefused
  BY <1>32, <1>0 DEF StartRefused, Starts
<1>33. CASE StartFails
  BY <1>33, <1>0 DEF StartFails, Starts, Release
<1>34. CASE GrantCheck
  BY <1>34, <1>0 DEF GrantCheck, Starts
<1>35. CASE GrantAct
  BY <1>35, <1>0, AssignEffect DEF GrantAct, Starts, Writers, Modes
<1>36. ASSUME NEW l \in Loops, Activate(l)
      PROVE  EpochsAgree' /\ EpochInv'
  <2>1. starter.epoch <= auth.epoch
    BY <1>36 DEF Activate, PromotedInv
  <2> QED BY <1>36, <1>0, <2>1 DEF Activate, Goes, Starts
<1>37. CASE UNCHANGED vars
  BY <1>37 DEF vars
<1> QED BY <1>1, <1>2, <1>3, <1>4, <1>5, <1>6, <1>7, <1>8, <1>9, <1>10, <1>11, <1>12, <1>13,
           <1>14, <1>15, <1>16, <1>17, <1>18, <1>19, <1>20, <1>21, <1>22, <1>23, <1>24, <1>25,
           <1>26, <1>27, <1>28, <1>29, <1>30, <1>31, <1>32, <1>33, <1>34, <1>35, <1>36, <1>37
     DEF Next, Resuming, Marking, Servo, OpRuns, StartRuns

-----------------------------------------------------------------------------
\* The exclusive transition.

\* The thread that opened an exclusive transition stays its owner until it has
\* closed it.
LEMMA ExclusiveStep ==
  ASSUME Typed, HandInv, EpochInv, ExclusiveInv, [Next]_vars
  PROVE  ExclusiveInv'
<1> USE DEF ExclusiveInv, Exclusives, authVars, servoVars
<1>0. AuthType /\ ThreadType
  BY DEF Typed
<1>1. CASE Install
  BY <1>1, <1>0, InstallEffect DEF Install
<1>2. CASE ResumeCheck
  BY <1>2, <1>0 DEF ResumeCheck
<1>3. CASE ResumeAct
  BY <1>3, <1>0, AssignEffect DEF ResumeAct, Writers, Modes
<1>4. ASSUME NEW m \in Marks, MarkCheck(m)
      PROVE  ExclusiveInv'
  BY <1>4, <1>0 DEF MarkCheck
<1>5. ASSUME NEW m \in Marks, MarkAct(m)
      PROVE  ExclusiveInv'
  BY <1>5, <1>0, AssignEffect DEF MarkAct, Writers, Modes
<1>6. ASSUME NEW l \in Loops, LoopExit(l)
      PROVE  ExclusiveInv'
  BY <1>6, <1>0 DEF LoopExit, Goes
<1>7. ASSUME NEW l \in Loops, NEW expired \in BOOLEAN, LoopRead(l, expired)
      PROVE  ExclusiveInv'
  BY <1>7, <1>0 DEF LoopRead
<1>8. ASSUME NEW l \in Loops, LoopGate(l)
      PROVE  ExclusiveInv'
  BY <1>8, <1>0 DEF LoopGate, Goes
<1>9. ASSUME NEW l \in Loops, LoopPublish(l)
      PROVE  ExclusiveInv'
  BY <1>9, <1>0 DEF LoopPublish, Goes
<1>10. ASSUME NEW l \in Loops, NEW settled \in BOOLEAN, LoopFinal(l, settled)
      PROVE  ExclusiveInv'
  BY <1>10, <1>0, AssignEffect DEF LoopFinal, Goes, Writers, Modes
<1>11. ASSUME NEW l \in Loops, LoopFault(l)
      PROVE  ExclusiveInv'
  BY <1>11, <1>0 DEF LoopFault, Goes
<1>12. ASSUME NEW l \in Loops, FaultTakesOver(l)
      PROVE  ExclusiveInv'
  BY <1>12, <1>0, PromoteEffect DEF FaultTakesOver, Goes, Writers, Modes, Actors
<1>13. ASSUME NEW l \in Loops, FaultFreezes(l)
      PROVE  ExclusiveInv'
  BY <1>13, <1>0 DEF FaultFreezes, Goes
<1>14. ASSUME NEW l \in Loops, FaultEnds(l)
      PROVE  ExclusiveInv'
  <2>1. exclusive = None
    BY <1>14, ActorAssumption DEF FaultEnds, HandInv
  <2> QED BY <1>14, <2>1 DEF FaultEnds, Assign
<1>15. CASE Dispatch
  BY <1>15, <1>0 DEF Dispatch
<1>16. ASSUME NEW o \in Operators, NEW kind \in Kinds, OpBegin(o, kind)
      PROVE  ExclusiveInv'
  <2>1. exclusive # None => handoff # None /\ handoff # o
    BY <1>16, ActorAssumption DEF OpBegin, Actors
  <2>2. \A p \in Operators : p # o => op'[p] = op[p]
    BY <1>16, <1>0 DEF OpBegin, ThreadType
  <2> QED BY <1>16, <2>1, <2>2 DEF OpBegin
<1>17. ASSUME NEW o \in Operators, StopBrakes(o)
      PROVE  ExclusiveInv'
  BY <1>17, <1>0 DEF StopBrakes, Stage
<1>18. ASSUME NEW o \in Operators, StopSignals(o)
      PROVE  ExclusiveInv'
  BY <1>18, <1>0 DEF StopSignals, Stage
<1>19. ASSUME NEW o \in Operators, NEW timeout \in BOOLEAN, StopJoins(o, timeout)
      PROVE  ExclusiveInv'
  <2>1. exclusive # None => handoff # o
    BY <1>19 DEF StopJoins
  <2>2. \A p \in Operators : p # o => op'[p] = op[p]
    BY <1>19, <1>0, StageEffect DEF StopJoins, OpPlaces
  <2> QED BY <1>19, <2>1, <2>2 DEF StopJoins, Release
<1>20. ASSUME NEW o \in Operators, OpGivesUp(o)
      PROVE  ExclusiveInv'
  BY <1>20, <1>0 DEF OpGivesUp, Stage, Release
<1>21. ASSUME NEW o \in Operators, OpPromotes(o)
      PROVE  ExclusiveInv'
  <2>1. handoff = o
    BY <1>21, TransitHolds DEF OpPromotes
  <2>2. op'[o].kind = op[o].kind /\ op'[o].at = "transition"
    BY <1>21, <1>0 DEF OpPromotes, ThreadType
  <2>3. exclusive' = Category(op[o].kind)
    BY <1>21 DEF OpPromotes, Promote
  <2> QED BY <1>21, <2>1, <2>2, <2>3 DEF OpPromotes
<1>22. ASSUME NEW o \in Operators, OpAbandons(o)
      PROVE  ExclusiveInv'
  BY <1>22, <1>0 DEF OpAbandons, Stage
<1>23. ASSUME NEW o \in Operators, NEW timeout \in BOOLEAN, OpJoins(o, timeout)
      PROVE  ExclusiveInv'
  BY <1>23, <1>0 DEF OpJoins, Stage
<1>24. ASSUME NEW o \in Operators, NEW outcome \in {"ok", "failed", "raised"},
             OpCallReturns(o, outcome)
      PROVE  ExclusiveInv'
  <2>1. handoff = o /\ op[o].epoch = txEpoch
    BY <1>24, TransitHolds DEF OpCallReturns, EpochInv, Transit
  <2>2. exclusive' = None
    BY <1>24, <2>1, CompleteEffect DEF OpCallReturns
  <2> QED BY <2>2
<1>25. ASSUME NEW o \in Operators, OpAborts(o)
      PROVE  ExclusiveInv'
  <2>1. handoff = o /\ op[o].epoch = txEpoch
    BY <1>25, TransitHolds DEF OpAborts, EpochInv, Transit
  <2>2. exclusive' = None
    BY <1>25, <2>1, CompleteEffect DEF OpAborts
  <2> QED BY <2>2
<1>26. ASSUME NEW o \in Operators, OpEnds(o)
      PROVE  ExclusiveInv'
  <2>1. exclusive = None /\ exclusive' = None
    BY <1>26, <1>0, EndsEffect, TransitHolds DEF Transit, Assign
  <2> QED BY <2>1
<1>27. CASE StartBegin
  BY <1>27, <1>0 DEF StartBegin, Starts
<1>28. CASE PrepareBegins
  <2>1. exclusive = None
    BY <1>28, ActorAssumption DEF PrepareBegins, Actors
  <2>2. exclusive' = None
    BY <1>28, <2>1 DEF PrepareBegins, Promote
  <2> QED BY <2>2
<1>29. ASSUME NEW ok \in BOOLEAN, ExitReturns(ok)
      PROVE  ExclusiveInv'
  BY <1>29, <1>0, AssignEffect DEF ExitReturns, Starts, Writers, Modes
<1>30. CASE PreparePromotes
  BY <1>30, <1>0, PromoteEffect DEF PreparePromotes, Writers, Modes, Actors
<1>31. ASSUME NEW ok \in BOOLEAN, PrimeReturns(ok)
      PROVE  ExclusiveInv'
  BY <1>31, <1>0, PromoteEffect DEF PrimeReturns, Starts, Writers, Modes, Actors
<1>32. CASE StartRefused
  BY <1>32, <1>0 DEF StartRefused, Starts
<1>33. CASE StartFails
  <2>1. exclusive # None => handoff # "starter"
    BY ActorAssumption
  <2> QED BY <1>33, <2>1 DEF StartFails, Release
<1>34. CASE GrantCheck
  BY <1>34, <1>0 DEF GrantCheck, Starts
<1>35. CASE GrantAct
  BY <1>35, <1>0, AssignEffect DEF GrantAct, Starts, Writers, Modes
<1>36. ASSUME NEW l \in Loops, Activate(l)
      PROVE  ExclusiveInv'
  BY <1>36, <1>0 DEF Activate, Goes, Starts
<1>37. CASE UNCHANGED vars
  BY <1>37 DEF vars
<1> QED BY <1>1, <1>2, <1>3, <1>4, <1>5, <1>6, <1>7, <1>8, <1>9, <1>10, <1>11, <1>12, <1>13,
           <1>14, <1>15, <1>16, <1>17, <1>18, <1>19, <1>20, <1>21, <1>22, <1>23, <1>24, <1>25,
           <1>26, <1>27, <1>28, <1>29, <1>30, <1>31, <1>32, <1>33, <1>34, <1>35, <1>36, <1>37
     DEF Next, Resuming, Marking, Servo, OpRuns, StartRuns

-----------------------------------------------------------------------------
\* The fence.

\* An exclusive transition past its _set_authority.
LEMMA TransitInstalled ==
  ASSUME Typed, HandInv, PromotedInv, NEW o \in Operators,
         op[o].at \in Transit \ {"transition"}
  PROVE  promoted = None
<1>1. handoff = o
  BY TransitHolds
<1> QED BY <1>1, ActorAssumption DEF PromotedInv, Transit

\* Somebody with an old permission may only repeat what the writer is.
LEMMA PendingAssigns ==
  ASSUME Typed, PermitInv, LeaderInv, NEW mode \in Modes, Pending, Assign("SERVO", mode),
         UNCHANGED <<op, leader>>, Taken' => Taken
  PROVE  PermitInv' /\ LeaderInv'
<1>1. auth'.writer = "SERVO" /\ UNCHANGED <<promoted, fenced, straddled>>
  BY AssignEffect DEF Typed, Writers
<1>2. fenced /\ ~straddled => auth.writer = "SERVO"
  BY DEF PermitInv, Pending, Typed, AuthType
<1>3. PermitInv'
  BY <1>1, <1>2 DEF PermitInv
<1>4. LeaderInv'
  BY <1>1, <1>2 DEF LeaderInv
<1> QED BY <1>3, <1>4

LEMMA InitPermit == Init => PermitInv /\ LeaderInv
  BY DEF Init, PermitInv, LeaderInv, Taken, Transit

\* Old permissions and FREEDRIVE.
LEMMA PermitStep ==
  ASSUME Typed, HandInv, PromotedInv, EpochsAgree, PermitInv, LeaderInv, [Next]_vars
  PROVE  PermitInv' /\ LeaderInv'
<1> USE DEF PermitInv, LeaderInv, Pending, authVars, servoVars, Taken, Transit, AuthType,
            ThreadType
<1>0. AuthType /\ ThreadType
  BY DEF Typed
<1>1. CASE Install
  <2>1. auth'.writer = promoted.writer /\ straddled' = Pending /\ Pending' = Pending
        /\ promoted' = None /\ fenced' = (promoted.writer # "SERVO")
    BY <1>1, <1>0, InstallEffect DEF Install
  <2>2. promoted.writer = "SERVO" => ~Taken /\ ~leader
    BY <1>1, ActorAssumption DEF Install, PromotedInv, HandInv, Kinds
  <2>3. UNCHANGED <<op, loop, starter, leader>>
    BY <1>1 DEF Install
  <2> HIDE DEF Pending
  <2> QED BY <1>0, <2>1, <2>2, <2>3
<1>2. CASE ResumeCheck
  BY <1>2, <1>0 DEF ResumeCheck, AllowsServo
<1>3. CASE ResumeAct
  <2>1. Pending /\ Assign("SERVO", "TRACKING") /\ UNCHANGED <<op, leader, loop, starter>>
    BY <1>3 DEF ResumeAct, Unlocked
  <2> QED BY <2>1, PendingAssigns DEF Modes
<1>4. ASSUME NEW m \in Marks, MarkCheck(m)
      PROVE  PermitInv' /\ LeaderInv'
  <2>1. \A n \in Marks : mark'[n].at = "checked" =>
          mark[n].at = "checked" \/ auth.writer = "SERVO"
    BY <1>4, <1>0 DEF MarkCheck, MayAssign
  <2> QED BY <1>4, <2>1 DEF MarkCheck
<1>5. ASSUME NEW m \in Marks, MarkAct(m)
      PROVE  PermitInv' /\ LeaderInv'
  <2>1. Pending /\ Assign("SERVO", "STOPPING") /\ UNCHANGED <<op, leader, loop, starter>>
    BY <1>5 DEF MarkAct
  <2> QED BY <2>1, PendingAssigns DEF Modes
<1>6. ASSUME NEW l \in Loops, LoopExit(l)
      PROVE  PermitInv' /\ LeaderInv'
  BY <1>6, <1>0 DEF LoopExit, Goes
<1>7. ASSUME NEW l \in Loops, NEW expired \in BOOLEAN, LoopRead(l, expired)
      PROVE  PermitInv' /\ LeaderInv'
  BY <1>7, <1>0, SpawnEffect DEF LoopRead, Invalidate
<1>8. ASSUME NEW l \in Loops, LoopGate(l)
      PROVE  PermitInv' /\ LeaderInv'
  <2>1. loop'[l].at \in {"publish", "idle"} /\ \A k \in Loops : k # l => loop'[k] = loop[k]
    BY <1>8, <1>0, GoesEffect DEF LoopGate, LoopPlaces
  <2> QED BY <1>8, <2>1 DEF LoopGate
<1>9. ASSUME NEW l \in Loops, LoopPublish(l)
      PROVE  PermitInv' /\ LeaderInv'
  <2>1. loop'[l].at \in {"final", "idle"} /\ \A k \in Loops : k # l => loop'[k] = loop[k]
    BY <1>9, <1>0, GoesEffect DEF LoopPublish, LoopPlaces
  <2>2. loop'[l].at = "final" => auth.writer = "SERVO"
    BY <1>9, <1>0, GoesEffect DEF LoopPublish, LoopPlaces, AllowsServo
  <2> QED BY <1>9, <2>1, <2>2 DEF LoopPublish
<1>10. ASSUME NEW l \in Loops, NEW settled \in BOOLEAN, LoopFinal(l, settled)
      PROVE  PermitInv' /\ LeaderInv'
  <2>1. loop'[l].at = "idle" /\ \A k \in Loops : k # l => loop'[k] = loop[k]
    BY <1>10, <1>0, GoesEffect DEF LoopFinal, LoopPlaces
  <2>2. UNCHANGED <<op, leader, starter, mark, resume>> /\ loop[l].at = "final"
    BY <1>10 DEF LoopFinal
  <2>3. Taken' => Taken
    BY <2>1, <2>2
  <2>4. CASE Assign("SERVO", "HOLDING")
    BY <2>2, <2>3, <2>4, PendingAssigns DEF Modes
  <2>5. CASE UNCHANGED authVars
    BY <2>1, <2>2, <2>3, <2>5
  <2> QED BY <1>10, <2>4, <2>5 DEF LoopFinal
<1>11. ASSUME NEW l \in Loops, LoopFault(l)
      PROVE  PermitInv' /\ LeaderInv'
  BY <1>11, <1>0 DEF LoopFault, Goes
<1>12. ASSUME NEW l \in Loops, FaultTakesOver(l)
      PROVE  PermitInv' /\ LeaderInv'
  BY <1>12, <1>0, PromoteEffect DEF FaultTakesOver, Goes, Writers, Modes, Actors
<1>13. ASSUME NEW l \in Loops, FaultFreezes(l)
      PROVE  PermitInv' /\ LeaderInv'
  BY <1>13, <1>0 DEF FaultFreezes, Goes
<1>14. ASSUME NEW l \in Loops, FaultEnds(l)
      PROVE  PermitInv' /\ LeaderInv'
  BY <1>14, <1>0, AssignEffect DEF FaultEnds, Goes, Writers, Modes
<1>15. CASE Dispatch
  BY <1>15, <1>0 DEF Dispatch
<1>16. ASSUME NEW o \in Operators, NEW kind \in Kinds, OpBegin(o, kind)
      PROVE  PermitInv' /\ LeaderInv'
  BY <1>16, <1>0 DEF OpBegin
<1>17. ASSUME NEW o \in Operators, StopBrakes(o)
      PROVE  PermitInv' /\ LeaderInv'
  BY <1>17, <1>0, SpawnEffect DEF StopBrakes, Stage, Invalidate
<1>18. ASSUME NEW o \in Operators, StopSignals(o)
      PROVE  PermitInv' /\ LeaderInv'
  BY <1>18, <1>0 DEF StopSignals, Stage
<1>19. ASSUME NEW o \in Operators, NEW timeout \in BOOLEAN, StopJoins(o, timeout)
      PROVE  PermitInv' /\ LeaderInv'
  BY <1>19, <1>0 DEF StopJoins, Stage, Release
<1>20. ASSUME NEW o \in Operators, OpGivesUp(o)
      PROVE  PermitInv' /\ LeaderInv'
  BY <1>20, <1>0 DEF OpGivesUp, Stage, Release
<1>21. ASSUME NEW o \in Operators, OpPromotes(o)
      PROVE  PermitInv' /\ LeaderInv'
  <2>1. promoted' # None /\ UNCHANGED <<auth, fenced, straddled>>
    BY <1>21, <1>0, PromoteEffect DEF OpPromotes, Writers, Modes, Actors, Exclusives, Category
  <2>2. UNCHANGED <<leader, loop, starter, resume, mark>>
    BY <1>21 DEF OpPromotes
  <2>3. op'[o].at = "transition" /\ \A p \in Operators : p # o => op'[p] = op[p]
    BY <1>21, <1>0 DEF OpPromotes
  <2> QED BY <2>1, <2>2, <2>3
<1>22. ASSUME NEW o \in Operators, OpAbandons(o)
      PROVE  PermitInv' /\ LeaderInv'
  BY <1>22, <1>0 DEF OpAbandons, Stage
<1>23. ASSUME NEW o \in Operators, NEW timeout \in BOOLEAN, OpJoins(o, timeout)
      PROVE  PermitInv' /\ LeaderInv'
  BY <1>23, <1>0 DEF OpJoins, Stage
<1>24. ASSUME NEW o \in Operators, NEW outcome \in {"ok", "failed", "raised"},
             OpCallReturns(o, outcome)
      PROVE  PermitInv' /\ LeaderInv'
  <2>1. promoted = None /\ promoted' = None /\ UNCHANGED <<auth, fenced, straddled>>
    BY <1>24, TransitInstalled, CompleteEffect DEF OpCallReturns
  <2>2. fenced /\ (~straddled => auth.writer # "SERVO")
    BY <1>24, <2>1 DEF OpCallReturns
  <2>3. \A p \in Operators : p # o => op'[p] = op[p] /\ op[p].at \notin Transit
    BY <1>24, <1>0, TransitHolds, StageEffect DEF OpCallReturns, OpPlaces
  <2>4. op'[o].at = "ok" /\ op'[o].kind = "handoff" => ~leader'
    <3>1. op'[o].kind = op[o].kind /\ (op'[o].at = "ok" => outcome = "ok")
      BY <1>24, <1>0, StageEffect DEF OpCallReturns, OpPlaces
    <3>2. outcome = "ok" => leader' = (op[o].kind = "freedrive")
      BY <1>24 DEF OpCallReturns
    <3> QED BY <3>1, <3>2
  <2>5. UNCHANGED <<loop, starter, resume, mark>>
    BY <1>24 DEF OpCallReturns
  <2> QED BY <2>1, <2>2, <2>3, <2>4, <2>5
<1>25. ASSUME NEW o \in Operators, OpAborts(o)
      PROVE  PermitInv' /\ LeaderInv'
  BY <1>25, <1>0, CompleteEffect DEF OpAborts, Stage
<1>26. ASSUME NEW o \in Operators, OpEnds(o)
      PROVE  PermitInv' /\ LeaderInv'
  <2>1. promoted = None
    BY <1>26, EndsEffect, TransitInstalled
  <2>2. fenced /\ (~straddled => ~Pending)
    <3>1. op[o].at \in Transit
      BY <1>26, EndsEffect
    <3> HIDE DEF Pending
    <3> QED BY <2>1, <3>1
  <2>3. \A p \in Operators : op'[p].at \notin Transit
    BY <1>26, <1>0, EndsEffect, TransitHolds, StageEffect DEF OpEnds, OpPlaces
  <2>4. UNCHANGED <<loop, starter, resume, mark, leader>>
    BY <1>26 DEF OpEnds
  <2>5. ~Taken'
    <3>1. handoff = o
      BY <1>26, EndsEffect, TransitHolds
    <3> QED BY <2>3, <2>4, <3>1, ActorAssumption DEF HandInv
  <2>6. UNCHANGED <<fenced, straddled>> /\ (auth'.writer = "SERVO" => ~leader)
    BY <1>26, <1>0, EndsEffect, AssignEffect DEF Writers
  <2>7. Pending' = Pending
    BY <2>4
  <2> HIDE DEF Pending
  <2> QED BY <2>2, <2>3, <2>4, <2>5, <2>6, <2>7
<1>27. CASE StartBegin
  BY <1>27, <1>0 DEF StartBegin, Starts
<1>28. CASE PrepareBegins
  <2>1. CASE leader
    <3>1. Promote("starter", "MODE_TRANSITION", "SUSPENDED", None)
      BY <1>28, <2>1 DEF PrepareBegins
    <3>2. promoted' # None /\ UNCHANGED <<auth, fenced, straddled>>
      BY <1>0, <3>1, PromoteEffect DEF Writers, Modes, Actors
    <3> QED BY <1>28, <1>0, <2>1, <3>2 DEF PrepareBegins, Starts
  <2>2. CASE ~leader
    BY <1>28, <1>0, <2>2 DEF PrepareBegins, Starts
  <2> QED BY <2>1, <2>2
<1>29. ASSUME NEW ok \in BOOLEAN, ExitReturns(ok)
      PROVE  PermitInv' /\ LeaderInv'
  BY <1>29, <1>0, AssignEffect DEF ExitReturns, Starts, Writers, Modes
<1>30. CASE PreparePromotes
  BY <1>30, <1>0, PromoteEffect DEF PreparePromotes, Writers, Modes, Actors
<1>31. ASSUME NEW ok \in BOOLEAN, PrimeReturns(ok)
      PROVE  PermitInv' /\ LeaderInv'
  <2>1. starter.at = "priming" /\ starter'.at \in {"prepared", "failed"}
    BY <1>31, <1>0 DEF PrimeReturns, Starts
  <2>2. UNCHANGED <<op, loop, mark, resume, leader>>
    BY <1>31 DEF PrimeReturns
  <2>3. CASE Promote("starter", "NONE", "SUSPENDED", None)
    <3>1. promoted' # None /\ UNCHANGED <<auth, fenced, straddled>>
      BY <1>0, <2>3, PromoteEffect DEF Writers, Modes, Actors
    <3> QED BY <2>1, <2>2, <3>1
  <2>4. CASE UNCHANGED authVars
    BY <2>1, <2>2, <2>4
  <2> QED BY <1>31, <2>3, <2>4 DEF PrimeReturns
<1>32. CASE StartRefused
  BY <1>32, <1>0 DEF StartRefused, Starts
<1>33. CASE StartFails
  BY <1>33, <1>0 DEF StartFails, Starts, Release
<1>34. CASE GrantCheck
  BY <1>34, <1>0 DEF GrantCheck, Starts, MayAssign
<1>35. CASE GrantAct
  <2>1. Pending /\ Assign("SERVO", "TRACKING") /\ UNCHANGED <<op, leader, loop>>
    BY <1>35 DEF GrantAct
  <2>2. Taken' => Taken
    BY <1>35, <1>0 DEF GrantAct, Starts
  <2> QED BY <2>1, <2>2, PendingAssigns DEF Modes
<1>36. ASSUME NEW l \in Loops, Activate(l)
      PROVE  PermitInv' /\ LeaderInv'
  BY <1>36, <1>0 DEF Activate, Goes, Starts
<1>37. CASE UNCHANGED vars
  BY <1>37 DEF vars
<1> QED BY <1>1, <1>2, <1>3, <1>4, <1>5, <1>6, <1>7, <1>8, <1>9, <1>10, <1>11, <1>12, <1>13,
           <1>14, <1>15, <1>16, <1>17, <1>18, <1>19, <1>20, <1>21, <1>22, <1>23, <1>24, <1>25,
           <1>26, <1>27, <1>28, <1>29, <1>30, <1>31, <1>32, <1>33, <1>34, <1>35, <1>36, <1>37
     DEF Next, Resuming, Marking, Servo, OpRuns, StartRuns

LEMMA InitClean == Init => CleanInv
  BY DEF Init, CleanInv

\* A step that gives nobody the arm back and writes no epoch.
LEMMA CleanKept ==
  ASSUME Typed, CleanInv, UNCHANGED <<fenced, straddled>>, auth'.epoch = auth.epoch,
         fenced /\ ~straddled /\ Returned' => Returned,
         fenced /\ ~straddled /\ Returned' /\ Clean(auth.epoch) => Clean(auth.epoch)'
  PROVE  CleanInv'
  BY DEF CleanInv

LEMMA StageReturned ==
  ASSUME ThreadType, NEW o \in Operators, NEW place \in OpPlaces, Stage(o, place),
         place \in Transit => op[o].at \in Transit
  PROVE  HandingBack' => HandingBack
  BY StageEffect DEF HandingBack

\* Assigning on an old permission.
LEMMA PendingReturned ==
  ASSUME Typed, PermitInv, NEW mode \in Modes, Pending, Assign("SERVO", mode), UNCHANGED op
  PROVE  /\ UNCHANGED <<fenced, straddled>> /\ auth'.epoch = auth.epoch
         /\ fenced /\ ~straddled /\ Returned' => Returned
<1>1. /\ auth'.writer = "SERVO" /\ auth'.epoch = auth.epoch
      /\ UNCHANGED <<promoted, fenced, straddled>>
  BY AssignEffect DEF Typed, Writers
<1>2. fenced /\ ~straddled => auth.writer = "SERVO"
  BY DEF PermitInv
<1> QED BY <1>1, <1>2 DEF Returned

\* What a revoked servo left behind stays in its epoch.
LEMMA CleanStep ==
  ASSUME Typed, HandInv, PromotedInv, EpochsAgree, EpochInv, PermitInv, CleanInv, [Next]_vars
  PROVE  CleanInv'
<1> USE DEF AuthType, ThreadType, ServoType, authVars, servoVars
<1>0. AuthType /\ ThreadType /\ ServoType
  BY DEF Typed
<1>1. CASE Install
  <2>1. auth'.epoch = auth.epoch + 1 /\ fenced' = (promoted.writer # "SERVO")
    BY <1>1, <1>0, InstallEffect
  <2>2. starter.epoch <= auth.epoch \/ promoted.writer = "SERVO"
    BY <1>1 DEF EpochInv
  <2>3. UNCHANGED <<box, loop, session, motionEpoch, starter>>
    BY <1>1 DEF Install
  <2>4. ASSUME starter.epoch <= auth.epoch PROVE Clean(auth.epoch + 1)
    <3>1. /\ motionEpoch <= auth.epoch /\ auth.epoch \in Nat /\ motionEpoch \in Nat
          /\ starter.epoch \in Nat
      BY <1>0 DEF EpochInv
    <3>2. box # auth.epoch + 1
      BY <1>0, <3>1, ActorAssumption DEF EpochInv
    <3>3. \A l \in Loops : loop[l].epoch # auth.epoch + 1
      BY <1>0, <3>1 DEF EpochInv
    <3> QED BY <2>4, <3>1, <3>2, <3>3 DEF Clean
  <2> QED BY <2>1, <2>2, <2>3, <2>4 DEF CleanInv, Clean
<1>2. CASE ResumeCheck
  BY <1>2, <1>0 DEF ResumeCheck, CleanInv, Clean, Returned, HandingBack
<1>3. CASE ResumeAct
  <2>1. Pending /\ Assign("SERVO", "TRACKING") /\ UNCHANGED op
    BY <1>3 DEF ResumeAct, Unlocked, Pending
  <2>2. Clean(auth.epoch) => Clean(auth.epoch)'
    BY <1>3, <1>0, AssignEffect DEF ResumeAct, Clean, Writers, Modes
  <2> QED BY <2>1, <2>2, PendingReturned, CleanKept DEF Modes
<1>4. ASSUME NEW m \in Marks, MarkCheck(m)
      PROVE  CleanInv'
  BY <1>4, <1>0 DEF MarkCheck, CleanInv, Clean, Returned, HandingBack
<1>5. ASSUME NEW m \in Marks, MarkAct(m)
      PROVE  CleanInv'
  <2>1. Pending /\ Assign("SERVO", "STOPPING") /\ UNCHANGED op
    BY <1>5 DEF MarkAct, Pending
  <2>2. Clean(auth.epoch) => Clean(auth.epoch)'
    BY <1>5, <1>0, AssignEffect DEF MarkAct, Clean, Writers, Modes
  <2> QED BY <2>1, <2>2, PendingReturned, CleanKept DEF Modes
<1>6. ASSUME NEW l \in Loops, LoopExit(l)
      PROVE  CleanInv'
  BY <1>6, <1>0 DEF LoopExit, Goes, CleanInv, Clean, Returned, HandingBack
<1>7. ASSUME NEW l \in Loops, NEW expired \in BOOLEAN, LoopRead(l, expired)
      PROVE  CleanInv'
  BY <1>7, <1>0 DEF LoopRead, CleanInv, Clean, Returned, HandingBack
<1>8. ASSUME NEW l \in Loops, LoopGate(l)
      PROVE  CleanInv'
  BY <1>8, <1>0 DEF LoopGate, Goes, CleanInv, Clean, Returned, HandingBack
<1>9. ASSUME NEW l \in Loops, LoopPublish(l)
      PROVE  CleanInv'
  BY <1>9, <1>0 DEF LoopPublish, Goes, CleanInv, Clean, Returned, HandingBack
<1>10. ASSUME NEW l \in Loops, NEW settled \in BOOLEAN, LoopFinal(l, settled)
      PROVE  CleanInv'
  <2>1. /\ UNCHANGED <<op, box, starter, session, motionEpoch>>
        /\ Pending /\ \A k \in Loops : loop'[k].epoch = loop[k].epoch
    BY <1>10, <1>0 DEF LoopFinal, Goes, Pending
  <2>2. auth'.epoch = auth.epoch /\ (Clean(auth.epoch) => Clean(auth.epoch)')
    BY <1>10, <1>0, <2>1, AssignEffect DEF LoopFinal, Clean, Writers, Modes
  <2>3. CASE Assign("SERVO", "HOLDING")
    BY <2>1, <2>2, <2>3, PendingReturned, CleanKept DEF Modes
  <2>4. CASE UNCHANGED authVars
    BY <2>1, <2>2, <2>4, CleanKept DEF Returned, HandingBack
  <2> QED BY <1>10, <2>3, <2>4 DEF LoopFinal
<1>11. ASSUME NEW l \in Loops, LoopFault(l)
      PROVE  CleanInv'
  BY <1>11, <1>0 DEF LoopFault, Goes, CleanInv, Clean, Returned, HandingBack
<1>12. ASSUME NEW l \in Loops, FaultTakesOver(l)
      PROVE  CleanInv'
  <2>1. promoted' # None /\ UNCHANGED <<auth, fenced, straddled>>
    BY <1>12, <1>0, PromoteEffect DEF FaultTakesOver, Writers, Modes, Actors
  <2>2. Clean(auth.epoch) => Clean(auth.epoch)'
    BY <1>12, <1>0, <2>1 DEF FaultTakesOver, Goes, Clean
  <2> QED BY <2>1, <2>2, CleanKept DEF Returned
<1>13. ASSUME NEW l \in Loops, FaultFreezes(l)
      PROVE  CleanInv'
  <2>1. handoff = l /\ promoted = None
    BY <1>13, InstalledHolder, ActorAssumption DEF FaultFreezes, HandInv, Actors
  <2>2. fenced /\ ~straddled => auth.writer # "SERVO"
    BY <1>13, <2>1 DEF FaultFreezes, PermitInv, Taken
  <2>3. ~HandingBack
    BY <2>1, TransitHolds, ActorAssumption DEF HandingBack
  <2> QED BY <1>13, <2>2, <2>3, CleanKept DEF FaultFreezes, Returned, HandingBack
<1>14. ASSUME NEW l \in Loops, FaultEnds(l)
      PROVE  CleanInv'
  <2>1. handoff = l
    BY <1>14 DEF FaultEnds, HandInv
  <2>2. ~HandingBack /\ UNCHANGED op
    BY <1>14, <2>1, TransitHolds, ActorAssumption DEF FaultEnds, HandingBack
  <2>3. auth'.writer = "SAFETY" /\ auth'.epoch = auth.epoch /\ UNCHANGED <<fenced, straddled>>
    BY <1>14, <1>0, AssignEffect DEF FaultEnds, Writers, Modes
  <2> QED BY <2>2, <2>3, CleanKept DEF Returned, HandingBack
<1>15. CASE Dispatch
  BY <1>15, <1>0, ActorAssumption DEF Dispatch, CleanInv, Clean, Returned, HandingBack
<1>16. ASSUME NEW o \in Operators, NEW kind \in Kinds, OpBegin(o, kind)
      PROVE  CleanInv'
  <2>1. HandingBack' => HandingBack
    BY <1>16, <1>0 DEF OpBegin, HandingBack, Transit
  <2>2. Clean(auth.epoch) => Clean(auth.epoch)'
    BY <1>16 DEF OpBegin, Clean
  <2> QED BY <1>16, <2>1, <2>2, CleanKept DEF OpBegin, Returned
<1>17. ASSUME NEW o \in Operators, StopBrakes(o)
      PROVE  CleanInv'
  <2>1. HandingBack' => HandingBack
    BY <1>17, <1>0, StageReturned DEF StopBrakes, OpPlaces, Transit
  <2>2. UNCHANGED <<auth, promoted, fenced, straddled>>
    BY <1>17 DEF StopBrakes, Complete
  <2>3. Clean(auth.epoch) => Clean(auth.epoch)'
    BY <1>17, <2>2 DEF StopBrakes, Clean
  <2> QED BY <2>1, <2>2, <2>3, CleanKept DEF Returned
<1>18. ASSUME NEW o \in Operators, StopSignals(o)
      PROVE  CleanInv'
  <2>1. HandingBack' => HandingBack
    BY <1>18, <1>0, StageReturned DEF StopSignals, OpPlaces, Transit
  <2>2. UNCHANGED <<auth, promoted, fenced, straddled>>
    BY <1>18 DEF StopSignals, Complete
  <2>3. Clean(auth.epoch) => Clean(auth.epoch)'
    BY <1>18, <2>2 DEF StopSignals, Clean
  <2> QED BY <2>1, <2>2, <2>3, CleanKept DEF Returned
<1>19. ASSUME NEW o \in Operators, NEW timeout \in BOOLEAN, StopJoins(o, timeout)
      PROVE  CleanInv'
  <2>1. HandingBack' => HandingBack
    BY <1>19, <1>0, StageReturned DEF StopJoins, OpPlaces, Transit
  <2>2. UNCHANGED <<auth, promoted, fenced, straddled>>
    BY <1>19 DEF StopJoins, Complete
  <2>3. Clean(auth.epoch) => Clean(auth.epoch)'
    BY <1>19, <2>2 DEF StopJoins, Clean
  <2> QED BY <2>1, <2>2, <2>3, CleanKept DEF Returned
<1>20. ASSUME NEW o \in Operators, OpGivesUp(o)
      PROVE  CleanInv'
  <2>1. HandingBack' => HandingBack
    BY <1>20, <1>0, StageReturned DEF OpGivesUp, OpPlaces, Transit
  <2>2. UNCHANGED <<auth, promoted, fenced, straddled>>
    BY <1>20 DEF OpGivesUp, Complete
  <2>3. Clean(auth.epoch) => Clean(auth.epoch)'
    BY <1>20, <2>2 DEF OpGivesUp, Clean
  <2> QED BY <2>1, <2>2, <2>3, CleanKept DEF Returned
<1>21. ASSUME NEW o \in Operators, OpPromotes(o)
      PROVE  CleanInv'
  <2>1. promoted' # None /\ UNCHANGED <<auth, fenced, straddled>>
    BY <1>21, <1>0, PromoteEffect DEF OpPromotes, Writers, Modes, Actors, Exclusives, Category
  <2>2. Clean(auth.epoch) => Clean(auth.epoch)'
    BY <1>21, <2>1 DEF OpPromotes, Clean
  <2> QED BY <2>1, <2>2, CleanKept DEF Returned
<1>22. ASSUME NEW o \in Operators, OpAbandons(o)
      PROVE  CleanInv'
  <2>1. HandingBack' => HandingBack
    BY <1>22, <1>0, StageReturned DEF OpAbandons, OpPlaces, Transit
  <2>2. UNCHANGED <<auth, promoted, fenced, straddled>>
    BY <1>22 DEF OpAbandons, Complete
  <2>3. Clean(auth.epoch) => Clean(auth.epoch)'
    BY <1>22, <2>2 DEF OpAbandons, Clean
  <2> QED BY <2>1, <2>2, <2>3, CleanKept DEF Returned
<1>23. ASSUME NEW o \in Operators, NEW timeout \in BOOLEAN, OpJoins(o, timeout)
      PROVE  CleanInv'
  <2>1. HandingBack' => HandingBack
    BY <1>23, <1>0, StageReturned DEF OpJoins, OpPlaces, Transit
  <2>2. UNCHANGED <<auth, promoted, fenced, straddled>>
    BY <1>23 DEF OpJoins, Complete
  <2>3. Clean(auth.epoch) => Clean(auth.epoch)'
    BY <1>23, <2>2 DEF OpJoins, Clean
  <2> QED BY <2>1, <2>2, <2>3, CleanKept DEF Returned
<1>24. ASSUME NEW o \in Operators, NEW outcome \in {"ok", "failed", "raised"},
             OpCallReturns(o, outcome)
      PROVE  CleanInv'
  <2>1. HandingBack' => HandingBack
    BY <1>24, <1>0, StageReturned DEF OpCallReturns, OpPlaces, Transit
  <2>2. UNCHANGED <<auth, promoted, fenced, straddled>>
    BY <1>24 DEF OpCallReturns, Complete
  <2>3. Clean(auth.epoch) => Clean(auth.epoch)'
    BY <1>24, <2>2 DEF OpCallReturns, Clean
  <2> QED BY <2>1, <2>2, <2>3, CleanKept DEF Returned
<1>25. ASSUME NEW o \in Operators, OpAborts(o)
      PROVE  CleanInv'
  <2>1. HandingBack' => HandingBack
    BY <1>25, <1>0, StageReturned DEF OpAborts, OpPlaces, Transit
  <2>2. UNCHANGED <<auth, promoted, fenced, straddled>>
    BY <1>25 DEF OpAborts, Complete
  <2>3. Clean(auth.epoch) => Clean(auth.epoch)'
    BY <1>25, <2>2 DEF OpAborts, Clean
  <2> QED BY <2>1, <2>2, <2>3, CleanKept DEF Returned
<1>26. ASSUME NEW o \in Operators, OpEnds(o)
      PROVE  CleanInv'
  <2>1. promoted = None /\ op[o].at \in Transit
    BY <1>26, EndsEffect, TransitInstalled DEF Transit
  <2>2. auth'.epoch = auth.epoch /\ UNCHANGED <<promoted, fenced, straddled>>
    BY <1>26, <1>0, EndsEffect, AssignEffect DEF Writers
  <2>3. auth'.writer = "SERVO" => HandingBack
    BY <1>26, <1>0, <2>1, EndsEffect, AssignEffect DEF HandingBack, Writers
  <2>4. HandingBack' => HandingBack
    BY <1>26, <1>0, StageReturned DEF OpEnds, OpPlaces, Transit
  <2>5. Clean(auth.epoch) => Clean(auth.epoch)'
    BY <1>26, <2>2 DEF OpEnds, Clean
  <2> QED BY <2>1, <2>2, <2>3, <2>4, <2>5, CleanKept DEF Returned
<1>27. CASE StartBegin
  BY <1>27, <1>0 DEF StartBegin, Starts, CleanInv, Clean, Returned, HandingBack
<1>28. CASE PrepareBegins
  <2>1. Clean(auth.epoch) /\ UNCHANGED auth => Clean(auth.epoch)'
    BY <1>28, <1>0 DEF PrepareBegins, Starts, Clean
  <2>2. CASE leader
    <3>1. Promote("starter", "MODE_TRANSITION", "SUSPENDED", None)
      BY <1>28, <2>2 DEF PrepareBegins
    <3>2. promoted' # None /\ UNCHANGED <<auth, fenced, straddled>>
      BY <1>0, <3>1, PromoteEffect DEF Writers, Modes, Actors
    <3> QED BY <2>1, <3>2, CleanKept DEF Returned
  <2>3. CASE ~leader
    BY <1>28, <2>1, <2>3, CleanKept DEF PrepareBegins, Returned, HandingBack
  <2> QED BY <2>2, <2>3
<1>29. ASSUME NEW ok \in BOOLEAN, ExitReturns(ok)
      PROVE  CleanInv'
  <2>1. Clean(auth.epoch) /\ auth'.epoch = auth.epoch => Clean(auth.epoch)'
    BY <1>29, <1>0 DEF ExitReturns, Starts, Clean
  <2>2. CASE Assign("NONE", "SUSPENDED")
    <3>1. /\ auth'.writer = "NONE" /\ auth'.epoch = auth.epoch
          /\ UNCHANGED <<promoted, fenced, straddled>>
      BY <1>0, <2>2, AssignEffect DEF Writers, Modes
    <3> QED BY <1>29, <2>1, <3>1, CleanKept DEF ExitReturns, Returned, HandingBack
  <2>3. CASE UNCHANGED authVars
    BY <1>29, <2>1, <2>3, CleanKept DEF ExitReturns, Returned, HandingBack
  <2> QED BY <1>29, <2>2, <2>3 DEF ExitReturns
<1>30. CASE PreparePromotes
  <2>1. Promote("starter", "SERVO", "HOLDING", None)
    BY <1>30 DEF PreparePromotes
  <2>2. promoted' # None /\ UNCHANGED <<auth, fenced, straddled>>
    BY <1>0, <2>1, PromoteEffect DEF Writers, Modes, Actors
  <2>3. Clean(auth.epoch) => Clean(auth.epoch)'
    BY <1>30, <1>0, <2>2 DEF PreparePromotes, Clean
  <2> QED BY <2>2, <2>3, CleanKept DEF Returned
<1>31. ASSUME NEW ok \in BOOLEAN, PrimeReturns(ok)
      PROVE  CleanInv'
  <2>1. Clean(auth.epoch) /\ UNCHANGED auth => Clean(auth.epoch)'
    BY <1>31, <1>0 DEF PrimeReturns, Starts, Clean
  <2>2. CASE Promote("starter", "NONE", "SUSPENDED", None)
    <3>1. promoted' # None /\ UNCHANGED <<auth, fenced, straddled>>
      BY <1>0, <2>2, PromoteEffect DEF Writers, Modes, Actors
    <3> QED BY <2>1, <3>1, CleanKept DEF Returned
  <2>3. CASE UNCHANGED authVars
    BY <1>31, <2>1, <2>3, CleanKept DEF PrimeReturns, Returned, HandingBack
  <2> QED BY <1>31, <2>2, <2>3 DEF PrimeReturns
<1>32. CASE StartRefused
  BY <1>32, <1>0 DEF StartRefused, Starts, CleanInv, Clean, Returned, HandingBack
<1>33. CASE StartFails
  BY <1>33, <1>0 DEF StartFails, Starts, Release, CleanInv, Clean, Returned, HandingBack
<1>34. CASE GrantCheck
  BY <1>34, <1>0 DEF GrantCheck, Starts, CleanInv, Clean, Returned, HandingBack
<1>35. CASE GrantAct
  <2>1. Pending /\ Assign("SERVO", "TRACKING") /\ UNCHANGED op
    BY <1>35 DEF GrantAct, Pending
  <2>2. Clean(auth.epoch) => Clean(auth.epoch)'
    BY <1>35, <1>0, AssignEffect DEF GrantAct, Starts, Clean, Writers, Modes
  <2> QED BY <2>1, <2>2, PendingReturned, CleanKept DEF Modes
<1>36. ASSUME NEW l \in Loops, Activate(l)
      PROVE  CleanInv'
  <2>1. /\ motionEpoch' = starter.epoch /\ starter'.epoch = starter.epoch
        /\ \A k \in Loops : loop'[k].epoch = loop[k].epoch
    BY <1>36, <1>0 DEF Activate, Goes, Starts
  <2>2. Clean(auth.epoch) => Clean(auth.epoch)'
    BY <1>36, <2>1 DEF Activate, Clean
  <2> QED BY <1>36, <2>2, CleanKept DEF Activate, Returned, HandingBack
<1>37. CASE UNCHANGED vars
  BY <1>37 DEF vars, CleanInv, Clean, Returned, HandingBack
<1> QED BY <1>1, <1>2, <1>3, <1>4, <1>5, <1>6, <1>7, <1>8, <1>9, <1>10, <1>11, <1>12, <1>13,
           <1>14, <1>15, <1>16, <1>17, <1>18, <1>19, <1>20, <1>21, <1>22, <1>23, <1>24, <1>25,
           <1>26, <1>27, <1>28, <1>29, <1>30, <1>31, <1>32, <1>33, <1>34, <1>35, <1>36, <1>37
     DEF Next, Resuming, Marking, Servo, OpRuns, StartRuns

-----------------------------------------------------------------------------
\* The theorems.

LEMMA LockInvariant == Spec => []LockInv
<1>1. Init => LockInv
  BY InitTyped, InitHand, InitEpoch DEF LockInv
<1>2. LockInv /\ [Next]_vars => LockInv'
  BY TypedStep, HandStep, EpochStep DEF LockInv
<1> QED BY <1>1, <1>2, PTL DEF Spec

\* "Supervisor and Transport Owner epoch diverged" is never raised by
\* _set_authority, however many threads stop, hand off, start and fault.
THEOREM EpochsStayTogether == Spec => []EpochsAgree
<1>1. LockInv => EpochsAgree
  BY DEF LockInv
<1> QED BY <1>1, LockInvariant, PTL

\* An exclusive category of the transport always belongs to a handoff or
\* FREEDRIVE that is still running and will complete it in its own epoch.
THEOREM TransitionsAreOwned == Spec => []ExclusiveOwned
<1>1. Init => ExclusiveInv
  BY DEF Init, ExclusiveInv
<1>2. LockInv /\ ExclusiveInv /\ [Next]_vars => ExclusiveInv'
  BY ExclusiveStep DEF LockInv
<1>3. LockInv /\ ExclusiveInv => ExclusiveOwned
  BY DEF LockInv, ExclusiveInv, EpochInv, ExclusiveOwned, Transit
<1> QED BY <1>1, <1>2, <1>3, LockInvariant, PTL DEF Spec

\* After an ownership change that fell between nobody's check and assignment,
\* no target of the servo it revoked is dispatched, and the servo never writes
\* to an arm in FREEDRIVE.
THEOREM RevokedServoIsFenced == Spec => []FenceHolds
<1>1. Init => PermitInv /\ LeaderInv /\ CleanInv
  BY InitPermit, InitClean
<1>2. LockInv /\ PermitInv /\ LeaderInv /\ CleanInv /\ [Next]_vars
        => (PermitInv /\ LeaderInv /\ CleanInv)'
  BY PermitStep, CleanStep DEF LockInv
<1>3. LockInv /\ LeaderInv /\ CleanInv => FenceHolds
  BY DEF LeaderInv, CleanInv, Returned, Clean, FenceHolds, Admitted, AllowsServo
<1> QED BY <1>1, <1>2, <1>3, LockInvariant, PTL DEF Spec

==============================================================================
