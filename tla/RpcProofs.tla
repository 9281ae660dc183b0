----------------------------- MODULE RpcProofs -----------------------------
(***************************************************************************)
(* Proofs about the calls into the backend's process, for every set of     *)
(* channels and calls: types, and AnswersMatch; and about the smaller      *)
(* components beside it: the lock of the services (Restart), the profile   *)
(* of the motors (Profile), the files of an episode (Recorder), the log of *)
(* a run (RunCapture) and the plan of a real-time run (Timeline).          *)
(***************************************************************************)
EXTENDS Rpc, Integers, TLAPS

-----------------------------------------------------------------------------
\* The invariant.

Places    == {"idle", "lock", "wait", "done"}
Kinds     == {"none", "result", "error", "mismatch", "unavailable"}
Outcomes  == [kind : Kinds, of : Calls \cup {0}]
Requests  == [id : Nat \ {0}, call : Calls]
Responses == [kind : {"result", "error"}, id : Nat, call : Calls \cup {0}]

Types ==
  /\ call \in [Calls -> [pc : Places, on : Channels, id : Nat, out : Outcomes]]
  /\ numbers \in [Channels -> Nat] /\ holder \in [Channels -> Calls \cup {0}]
  /\ requests \in [Channels -> Seq(Requests)] /\ answers \in [Channels -> Seq(Responses)]
  /\ serving \in [Channels -> Requests \cup {NoRequest}]
  /\ process \in {"on", "closing", "dead"} /\ ran \in [Channels -> Seq(Calls)]
  /\ behind \in [Channels -> BOOLEAN]

\* No two calls of a channel have the same number, and none has one before it
\* holds the lock.
Numbered ==
  /\ \A c \in Calls : call[c].id <= numbers[call[c].on]
  /\ \A c, d \in Calls :
       call[c].id # 0 /\ call[c].on = call[d].on /\ call[c].id = call[d].id => c = d
  /\ \A c \in Calls : call[c].pc \in {"idle", "lock"} => call[c].id = 0

\* The lock of a channel is held by the call that waits for its answer there.
Holding ==
  /\ \A c \in Calls : call[c].pc = "wait" => holder[call[c].on] = c
  /\ \A ch \in Channels : holder[ch] # 0 =>
       call[holder[ch]].pc = "wait" /\ call[holder[ch]].on = ch

\* What is under way in a channel carries the number of the call it is of.
Token(ch, m) ==
  m.call \in Calls /\ m.id # 0 /\ call[m.call].on = ch /\ call[m.call].id = m.id

Executed(ch, c) == \E n \in DOMAIN ran[ch] : ran[ch][n] = c

Asked ==
  \A ch \in Channels :
    /\ \A n \in DOMAIN requests[ch] :
         Token(ch, requests[ch][n]) /\ ~Executed(ch, requests[ch][n].call)
    /\ \A m, n \in DOMAIN requests[ch] : requests[ch][m].call = requests[ch][n].call => m = n

Served ==
  \A ch \in Channels : serving[ch] # NoRequest =>
    Token(ch, serving[ch]) /\ Executed(ch, serving[ch].call)

Answered ==
  \A ch \in Channels :
    /\ \A n \in DOMAIN answers[ch] : answers[ch][n].call # 0 =>
         /\ Token(ch, answers[ch][n]) /\ Executed(ch, answers[ch][n].call)
         /\ serving[ch].call # answers[ch][n].call
    /\ \A m, n \in DOMAIN answers[ch] :
         answers[ch][m].call # 0 /\ answers[ch][m].call = answers[ch][n].call => m = n

\* The report of a failed start is the last thing the general channel says.
Farewell ==
  /\ \A ch \in Channels : \A n \in DOMAIN answers[ch] : answers[ch][n].call = 0 =>
       /\ answers[ch][n].kind = "error" /\ ch = "general" /\ process # "on"
       /\ n = Len(answers[ch])
  /\ process # "on" => serving["general"] = NoRequest

\* No request is executed twice.
Once ==
  \A ch \in Channels :
    /\ \A n \in DOMAIN ran[ch] : call[ran[ch][n]].on = ch /\ call[ran[ch][n]].id # 0
    /\ \A m, n \in DOMAIN ran[ch] : ran[ch][m] = ran[ch][n] => m = n

\* While nobody has given up on a channel, all that is under way there is its
\* holder's, but for requests that nobody will read any more.
Orderly ==
  \A ch \in Channels : ~behind[ch] =>
    /\ \A n \in DOMAIN requests[ch] :
         requests[ch][n].call = holder[ch] \/ (ch = "general" /\ process # "on")
    /\ serving[ch] # NoRequest => serving[ch].call = holder[ch]
    /\ \A n \in DOMAIN answers[ch] : answers[ch][n].call \in {0, holder[ch]}

\* What AnswersMatch says of the calls that have ended.
Told ==
  /\ \A c \in Calls : call[c].out.kind = "result" =>
       call[c].out.of = c /\ Executed(call[c].on, c)
  /\ \A c \in Calls : ~behind[call[c].on] =>
       call[c].out.kind # "mismatch" /\ (call[c].out.kind = "error" => call[c].out.of \in {c, 0})
  /\ \A c \in Calls : call[c].pc # "done" => call[c].out = NoOutcome

IInv ==
  /\ Types /\ Numbered /\ Holding /\ Asked /\ Served /\ Answered /\ Farewell /\ Once /\ Orderly
  /\ Told

-----------------------------------------------------------------------------
\* The types, value by value.

Values ==
  /\ \A d \in Calls :
       /\ call[d].pc \in Places /\ call[d].on \in Channels /\ call[d].id \in Nat
       /\ call[d].out.kind \in Kinds /\ call[d].out.of \in Calls \cup {0}
  /\ \A k \in Channels :
       /\ numbers[k] \in Nat /\ holder[k] \in Calls \cup {0}
       /\ requests[k] \in Seq(Requests) /\ answers[k] \in Seq(Responses)
       /\ serving[k] \in Requests \cup {NoRequest} /\ ran[k] \in Seq(Calls)
       /\ behind[k] \in BOOLEAN
  /\ process \in {"on", "closing", "dead"}

LEMMA TypeFacts == Types => Values
BY DEF Types, Values, Outcomes

-----------------------------------------------------------------------------
\* Sequences.

\* What Append does.
LEMMA AppendFacts ==
  ASSUME NEW S, NEW s \in Seq(S), NEW e \in S
  PROVE  /\ Append(s, e) \in Seq(S) /\ Len(Append(s, e)) = Len(s) + 1
         /\ Len(s) \in Nat /\ DOMAIN s = 1..Len(s) /\ DOMAIN Append(s, e) = 1..(Len(s) + 1)
         /\ \A n \in DOMAIN s : Append(s, e)[n] = s[n] /\ n # Len(s) + 1
         /\ Append(s, e)[Len(s) + 1] = e
OBVIOUS

\* A sequence without elements.
LEMMA EmptyFacts ==
  ASSUME NEW S, NEW s \in Seq(S), Len(s) = 0 PROVE s = <<>>
OBVIOUS

\* What Tail does.
LEMMA TailFacts ==
  ASSUME NEW S, NEW s \in Seq(S), s # <<>>
  PROVE  /\ Tail(s) \in Seq(S) /\ Len(Tail(s)) = Len(s) - 1 /\ Len(s) \in Nat
         /\ 1 \in DOMAIN s /\ Head(s) = s[1] /\ Head(s) \in S
         /\ DOMAIN s = 1..Len(s) /\ DOMAIN Tail(s) = 1..(Len(s) - 1)
         /\ \A n \in DOMAIN Tail(s) :
              n \in Nat /\ n + 1 \in DOMAIN s /\ n + 1 # 1 /\ Tail(s)[n] = s[n + 1]
<1>1. Len(s) \in Nat /\ DOMAIN s = 1..Len(s) /\ Len(s) # 0
  OBVIOUS
<1>2. Tail(s) \in Seq(S) /\ Len(Tail(s)) = Len(s) - 1 /\ Head(s) = s[1] /\ s[1] \in S
  BY <1>1
<1>3. DOMAIN Tail(s) = 1..(Len(s) - 1) /\ \A n \in 1..(Len(s) - 1) : Tail(s)[n] = s[n + 1]
  BY <1>1, <1>2
<1> QED
  BY <1>1, <1>2, <1>3

-----------------------------------------------------------------------------
\* Initial states.

LEMMA InitInv == ASSUME RpcAssumption, Init PROVE IInv
<1>1. NoRequest \in Requests \cup {NoRequest} /\ NoOutcome \in Outcomes
  BY DEF NoOutcome, Outcomes, Kinds
<1>2. Types
  BY <1>1 DEF RpcAssumption, Init, Types, Places
<1>3. Numbered /\ Holding
  BY DEF RpcAssumption, Init, Numbered, Holding
<1>4. Asked /\ Served /\ Answered /\ Farewell /\ Once /\ Orderly
  BY DEF RpcAssumption, Init, Asked, Served, Answered, Farewell, Once, Orderly
<1>5. Told
  BY DEF Init, Told, NoOutcome
<1> QED
  BY <1>2, <1>3, <1>4, <1>5 DEF IInv

-----------------------------------------------------------------------------
\* The caller's steps. A call that changes keeps its number, or has none yet,
\* so that what is under way stays what it was.

Kept ==
  \A d \in Calls :
    /\ call'[d].id = call[d].id /\ call'[d].on \in Channels
    /\ call[d].id # 0 => call'[d].on = call[d].on
    /\ call'[d].pc \in {"idle", "lock"} => call[d].id = 0

LEMMA NumbersKept ==
  ASSUME Values, Numbered, Kept,
         \A k \in Channels : numbers'[k] \in Nat /\ numbers'[k] >= numbers[k]
  PROVE  Numbered'
<1>1. ASSUME NEW d \in Calls PROVE call'[d].id <= numbers'[call'[d].on]
  <2>1. CASE call[d].id = 0
    BY <2>1 DEF Kept
  <2>2. CASE call[d].id # 0
    <3>1. call[d].id <= numbers[call[d].on] /\ call[d].on \in Channels /\ call[d].id \in Nat
      BY DEF Values, Numbered
    <3>2. numbers[call[d].on] \in Nat /\ numbers'[call[d].on] \in Nat
          /\ numbers'[call[d].on] >= numbers[call[d].on]
      BY <3>1 DEF Values
    <3> QED
      BY <2>2, <3>1, <3>2 DEF Kept
  <2> QED
    BY <2>1, <2>2
<1>2. ASSUME NEW d \in Calls, NEW e \in Calls,
             call'[d].id # 0, call'[d].on = call'[e].on, call'[d].id = call'[e].id
      PROVE  d = e
  BY <1>2 DEF Numbered, Kept
<1>3. \A d \in Calls : call'[d].pc \in {"idle", "lock"} => call'[d].id = 0
  BY DEF Kept
<1> QED
  BY <1>1, <1>2, <1>3 DEF Numbered

LEMMA RequestsKept ==
  ASSUME Values, Kept, Asked, Served, Once, UNCHANGED <<requests, serving, ran>>
  PROVE  Asked' /\ Served' /\ Once'
<1>1. \A k : \A m : Token(k, m) =>
        m.call \in Calls /\ m.id # 0 /\ call'[m.call].on = k /\ call'[m.call].id = m.id
  BY DEF Token, Kept
<1>2. Asked'
  BY <1>1 DEF Asked, Token, Executed
<1>3. Served'
  BY <1>1 DEF Served, Token, Executed
<1>4. \A k \in Channels : \A n \in DOMAIN ran[k] : ran[k][n] \in Calls
  BY DEF Values
<1>5. Once'
  BY <1>4 DEF Once, Kept
<1> QED
  BY <1>2, <1>3, <1>5

LEMMA PipesKept ==
  ASSUME Values, Kept, Asked, Served, Answered, Once, UNCHANGED <<requests, serving, answers, ran>>
  PROVE  Asked' /\ Served' /\ Answered' /\ Once'
<1>1. \A k : \A m : Token(k, m) =>
        m.call \in Calls /\ m.id # 0 /\ call'[m.call].on = k /\ call'[m.call].id = m.id
  BY DEF Token, Kept
<1>2. Answered'
  BY <1>1 DEF Answered, Token, Executed
<1> QED
  BY <1>2, RequestsKept

LEMMA BeginInv == ASSUME RpcAssumption, IInv, NEW c \in Calls, Begin(c) PROVE IInv'
<1>1. PICK ch \in Channels : call' = [call EXCEPT ![c].pc = "lock", ![c].on = ch]
  BY DEF Begin
<1>2. UNCHANGED <<numbers, holder, requests, answers, serving, process, ran, behind>>
  BY DEF Begin
<1>3. Values
  BY TypeFacts DEF IInv
<1>4. call[c].pc = "idle" /\ call[c].id = 0 /\ call[c].out = NoOutcome
  BY DEF Begin, IInv, Numbered, Told
<1>5. call' \in [Calls -> [pc : Places, on : Channels, id : Nat, out : Outcomes]]
  <2> DEFINE r == [call[c] EXCEPT !.pc = "lock", !.on = ch]
  <2>1. call \in [Calls -> [pc : Places, on : Channels, id : Nat, out : Outcomes]]
    BY DEF IInv, Types
  <2>2. r \in [pc : Places, on : Channels, id : Nat, out : Outcomes]
    BY <2>1 DEF Places
  <2>3. call' = [call EXCEPT ![c] = r]
    BY <1>1, <2>1
  <2> QED
    BY <2>1, <2>2, <2>3
<1>6. /\ \A d \in Calls : d # c => call'[d] = call[d]
      /\ call'[c].id = 0 /\ call'[c].pc = "lock" /\ call'[c].out = NoOutcome /\ call'[c].on = ch
  BY <1>1, <1>4 DEF IInv, Types
<1>13. Kept
  BY <1>3, <1>4, <1>6 DEF Kept, IInv, Numbered, Values
<1>7. Types'
  BY <1>2, <1>5 DEF IInv, Types
<1>8. Numbered'
  BY <1>2, <1>3, <1>13, NumbersKept DEF IInv, Values
<1>9. Holding'
  BY <1>2, <1>3, <1>4, <1>6 DEF IInv, Values, Holding
<1>10. Asked' /\ Served' /\ Answered' /\ Once'
  BY <1>2, <1>3, <1>13, PipesKept DEF IInv
<1>11. Farewell' /\ Orderly'
  BY <1>2 DEF IInv, Farewell, Orderly
<1>12. Told'
  BY <1>2, <1>6 DEF IInv, Told, Executed, NoOutcome
<1> QED
  BY <1>7, <1>8, <1>9, <1>10, <1>11, <1>12 DEF IInv

\* The two ways in which Lock ends.
LockFails(c, ch) ==
  /\ call[c].pc = "lock" /\ ch = call[c].on
  /\ call' = [call EXCEPT ![c].pc = "done", ![c].out = Unavailable]
  /\ numbers' = numbers \/ numbers' = [numbers EXCEPT ![ch] = @ + 1]
  /\ UNCHANGED <<holder, requests, answers, serving, process, ran, behind>>

LockTaken(c, ch, m) ==
  /\ call[c].pc = "lock" /\ ch = call[c].on /\ holder[ch] = 0
  /\ m = [id |-> numbers[ch] + 1, call |-> c]
  /\ numbers' = [numbers EXCEPT ![ch] = @ + 1] /\ holder' = [holder EXCEPT ![ch] = c]
  /\ call' = [call EXCEPT ![c].pc = "wait", ![c].id = numbers[ch] + 1]
  /\ requests' = [requests EXCEPT ![ch] = Append(@, m)]
  /\ UNCHANGED <<answers, serving, process, ran, behind>>

LEMMA LockFailsInv ==
  ASSUME RpcAssumption, IInv, NEW c \in Calls, NEW ch, LockFails(c, ch)
  PROVE  IInv'
<1>0. UNCHANGED <<holder, requests, answers, serving, process, ran, behind>>
  BY DEF LockFails
<1>1. Values
  BY TypeFacts DEF IInv
<1>2. ch \in Channels /\ call[c].id = 0 /\ call[c].pc = "lock"
  BY <1>1 DEF Values, IInv, Numbered, LockFails
<1>3. Unavailable \in Outcomes
  BY DEF Unavailable, Outcomes, Kinds
<1>4. call' \in [Calls -> [pc : Places, on : Channels, id : Nat, out : Outcomes]]
  <2> DEFINE r == [call[c] EXCEPT !.pc = "done", !.out = Unavailable]
  <2>1. r \in [pc : Places, on : Channels, id : Nat, out : Outcomes]
    BY <1>3 DEF IInv, Types, Places
  <2>2. call' = [call EXCEPT ![c] = r]
    BY DEF LockFails
  <2> QED
    BY <2>1, <2>2 DEF IInv, Types
<1>5. /\ \A d \in Calls : d # c => call'[d] = call[d]
      /\ call'[c].id = call[c].id /\ call'[c].pc = "done" /\ call'[c].out = Unavailable
      /\ call'[c].on = call[c].on
  BY DEF IInv, Types, LockFails
<1>6. numbers' \in [Channels -> Nat]
      /\ \A k \in Channels : numbers'[k] \in Nat /\ numbers'[k] >= numbers[k]
  <2>1. CASE numbers' = numbers
    BY <1>1, <2>1 DEF IInv, Types, Values
  <2>2. CASE numbers' = [numbers EXCEPT ![ch] = @ + 1]
    BY <1>1, <1>2, <2>2 DEF IInv, Types, Values
  <2> QED
    BY <2>1, <2>2 DEF LockFails
<1>7. Kept
  BY <1>1, <1>2, <1>5 DEF Kept, IInv, Numbered, Values
<1>8. Types'
  BY <1>0, <1>4, <1>6 DEF IInv, Types
<1>9. Numbered'
  BY <1>1, <1>6, <1>7, NumbersKept DEF IInv
<1>10. Holding'
  <2>1. \A d \in Calls : call'[d].pc = "wait" => holder'[call'[d].on] = d
    BY <1>0, <1>5 DEF IInv, Holding
  <2>2. ASSUME NEW k \in Channels, holder'[k] # 0
        PROVE  call'[holder'[k]].pc = "wait" /\ call'[holder'[k]].on = k
    <3>1. holder'[k] = holder[k] /\ holder[k] \in Calls
      BY <1>0, <1>1, <2>2 DEF Values
    <3>2. call[holder[k]].pc = "wait" /\ call[holder[k]].on = k
      BY <2>2, <3>1 DEF IInv, Holding
    <3> QED
      BY <1>2, <1>5, <3>1, <3>2
  <2> QED
    BY <2>1, <2>2 DEF Holding
<1>11. Asked' /\ Served' /\ Answered' /\ Once'
  BY <1>0, <1>1, <1>7, PipesKept DEF IInv
<1>12. Farewell' /\ Orderly'
  BY <1>0 DEF IInv, Farewell, Orderly
<1>13. Told'
  BY <1>0, <1>5 DEF IInv, Told, Executed, Unavailable
<1> QED
  BY <1>8, <1>9, <1>10, <1>11, <1>12, <1>13 DEF IInv

\* The call takes its number and the lock, and its request is the last one.
LEMMA LockTakenInv ==
  ASSUME RpcAssumption, IInv, NEW c \in Calls, NEW ch, NEW m, LockTaken(c, ch, m)
  PROVE  IInv'
<1>0. UNCHANGED <<answers, serving, process, ran, behind>>
  BY DEF LockTaken
<1>1. Values
  BY TypeFacts DEF IInv
<1>2. /\ ch \in Channels /\ call[c].id = 0 /\ call[c].out = NoOutcome /\ c # 0
      /\ numbers[ch] \in Nat /\ call[c].pc = "lock" /\ holder[ch] = 0 /\ ch = call[c].on
  BY <1>1 DEF LockTaken, Values, IInv, Numbered, Told, RpcAssumption
<1>3. call' \in [Calls -> [pc : Places, on : Channels, id : Nat, out : Outcomes]]
  <2> DEFINE r == [call[c] EXCEPT !.pc = "wait", !.id = numbers[ch] + 1]
  <2>1. r \in [pc : Places, on : Channels, id : Nat, out : Outcomes]
    <3>1. call[c] \in [pc : Places, on : Channels, id : Nat, out : Outcomes]
      BY DEF IInv, Types
    <3>2. numbers[ch] + 1 \in Nat /\ "wait" \in Places
      BY <1>2 DEF Places
    <3> QED
      BY <3>1, <3>2
  <2>2. call' = [call EXCEPT ![c] = r]
    BY DEF LockTaken
  <2> QED
    BY <2>1, <2>2 DEF IInv, Types
<1>4. /\ \A d \in Calls : d # c => call'[d] = call[d]
      /\ call'[c].id = numbers[ch] + 1 /\ call'[c].pc = "wait" /\ call'[c].out = NoOutcome
      /\ call'[c].on = ch
  <2>1. call \in [Calls -> [pc : Places, on : Channels, id : Nat, out : Outcomes]]
    BY DEF IInv, Types
  <2>2. call' = [call EXCEPT ![c].pc = "wait", ![c].id = numbers[ch] + 1]
    BY DEF LockTaken
  <2> QED
    BY <1>2, <2>1, <2>2
<1>5. /\ numbers' \in [Channels -> Nat] /\ numbers'[ch] = numbers[ch] + 1
      /\ \A k \in Channels : k # ch => numbers'[k] = numbers[k]
  <2>1. numbers \in [Channels -> Nat] /\ numbers' = [numbers EXCEPT ![ch] = @ + 1]
    BY DEF IInv, Types, LockTaken
  <2> QED
    BY <1>2, <2>1
<1>6. /\ holder' \in [Channels -> Calls \cup {0}] /\ holder'[ch] = c
      /\ \A k \in Channels : k # ch => holder'[k] = holder[k]
  BY <1>2 DEF IInv, Types, LockTaken
<1>7. m \in Requests /\ m.call = c /\ m.id = numbers[ch] + 1 /\ m.id # 0
  BY <1>2 DEF Requests, LockTaken
<1>8. requests[ch] \in Seq(Requests)
  BY <1>1, <1>2 DEF Values
<1>9. Append(requests[ch], m) \in Seq(Requests)
  BY <1>7, <1>8, AppendFacts
<1>10. requests' \in [Channels -> Seq(Requests)] /\ requests'[ch] = Append(requests[ch], m)
       /\ \A k \in Channels : k # ch => requests'[k] = requests[k]
  BY <1>2, <1>9 DEF IInv, Types, LockTaken
<1>11. /\ \A n \in DOMAIN requests[ch] : requests'[ch][n] = requests[ch][n]
       /\ requests'[ch][Len(requests[ch]) + 1] = m
       /\ \A n \in DOMAIN requests'[ch] : n \in DOMAIN requests[ch] \/ n = Len(requests[ch]) + 1
  <2>1. /\ Len(requests[ch]) \in Nat /\ DOMAIN requests[ch] = 1..Len(requests[ch])
        /\ DOMAIN requests'[ch] = 1..(Len(requests[ch]) + 1)
        /\ \A n \in DOMAIN requests[ch] : requests'[ch][n] = requests[ch][n]
        /\ requests'[ch][Len(requests[ch]) + 1] = m
    BY <1>7, <1>8, <1>10, AppendFacts
  <2> QED
    BY <2>1
<1>12. ~Executed(ch, c) /\ \A n \in DOMAIN requests[ch] : requests[ch][n].call # c
  BY <1>2 DEF IInv, Once, Asked, Token, Executed
<1>13. Types'
  BY <1>0, <1>3, <1>5, <1>6, <1>10 DEF IInv, Types
<1>14. Numbered'
  <2>1. \A d \in Calls : call[d].on = ch => call[d].id < numbers[ch] + 1 /\ call[d].id \in Nat
    BY <1>1, <1>2 DEF IInv, Values, Numbered
  <2>2. \A d \in Calls : call'[d].id <= numbers'[call'[d].on]
    <3>1. ASSUME NEW d \in Calls, d # c PROVE call'[d].id <= numbers'[call'[d].on]
      <4>1. call'[d] = call[d] /\ call[d].on \in Channels /\ call[d].id \in Nat
        BY <1>1, <1>4, <3>1 DEF Values
      <4>2. call[d].id <= numbers[call[d].on]
        BY DEF IInv, Numbered
      <4> QED
        BY <1>5, <2>1, <4>1, <4>2
    <3>2. call'[c].id <= numbers'[call'[c].on]
      BY <1>2, <1>4, <1>5
    <3> QED
      BY <3>1, <3>2
  <2>3. ASSUME NEW d \in Calls, NEW e \in Calls,
               call'[d].id # 0, call'[d].on = call'[e].on, call'[d].id = call'[e].id
        PROVE  d = e
    <3>1. CASE d = c
      BY <1>2, <1>4, <2>1, <2>3, <3>1
    <3>2. CASE e = c
      BY <1>2, <1>4, <2>1, <2>3, <3>2
    <3>3. CASE d # c /\ e # c
      BY <1>4, <2>3, <3>3 DEF IInv, Numbered
    <3> QED
      BY <3>1, <3>2, <3>3
  <2>4. \A d \in Calls : call'[d].pc \in {"idle", "lock"} => call'[d].id = 0
    BY <1>4 DEF IInv, Numbered
  <2> QED
    BY <2>2, <2>3, <2>4 DEF Numbered
<1>15. Holding'
  <2>1. \A d \in Calls : call[d].pc = "wait" => call[d].on # ch
    BY <1>2 DEF IInv, Holding, RpcAssumption
  <2> QED
    <3>1. \A d \in Calls : call'[d].pc = "wait" => holder'[call'[d].on] = d
      BY <1>1, <1>2, <1>4, <1>6, <2>1 DEF IInv, Values, Holding
    <3>2. ASSUME NEW k \in Channels, holder'[k] # 0, k # ch
          PROVE  call'[holder'[k]].pc = "wait" /\ call'[holder'[k]].on = k
      <4>1. holder'[k] = holder[k] /\ holder[k] \in Calls
        BY <1>1, <1>6, <3>2 DEF Values
      <4>2. call[holder[k]].pc = "wait" /\ call[holder[k]].on = k
        BY <3>2, <4>1 DEF IInv, Holding
      <4> QED
        BY <1>2, <1>4, <4>1, <4>2
    <3> QED
      BY <1>4, <1>6, <3>1, <3>2 DEF Holding
<1>16. \A d \in Calls : call[d].id # 0 =>
         d # c /\ call'[d].on = call[d].on /\ call'[d].id = call[d].id
  BY <1>2, <1>4
<1>17. Asked'
  <2> SUFFICES ASSUME NEW k \in Channels
               PROVE  /\ \A n \in DOMAIN requests'[k] :
                           Token(k, requests[k][n])' /\ ~Executed(k, requests[k][n].call)'
                      /\ \A a, n \in DOMAIN requests'[k] :
                           requests'[k][a].call = requests'[k][n].call => a = n
    BY DEF Asked
  <2>1. CASE k # ch
    <3>1. \A n \in DOMAIN requests[k] :
            /\ requests[k][n].call \in Calls /\ requests[k][n].id # 0
            /\ call'[requests[k][n].call].on = k
            /\ call'[requests[k][n].call].id = requests[k][n].id
            /\ ~Executed(k, requests[k][n].call)
      BY <1>16 DEF IInv, Asked, Token
    <3>2. requests'[k] = requests[k]
      BY <1>10, <2>1
    <3>3. \A a, n \in DOMAIN requests[k] :
            requests[k][a].call = requests[k][n].call => a = n
      BY DEF IInv, Asked
    <3> QED
      BY <1>0, <3>1, <3>2, <3>3 DEF Token, Executed
  <2>2. CASE k = ch
    <3>1. \A n \in DOMAIN requests[ch] :
            /\ requests[ch][n].call \in Calls /\ requests[ch][n].id # 0
            /\ call'[requests[ch][n].call].on = ch
            /\ call'[requests[ch][n].call].id = requests[ch][n].id
            /\ ~Executed(ch, requests[ch][n].call)
      BY <1>2, <1>16 DEF IInv, Asked, Token
    <3>2. \A n \in DOMAIN requests'[ch] :
            Token(ch, requests[ch][n])' /\ ~Executed(ch, requests[ch][n].call)'
      <4> SUFFICES ASSUME NEW n \in DOMAIN requests'[ch]
                   PROVE  Token(ch, requests[ch][n])' /\ ~Executed(ch, requests[ch][n].call)'
        OBVIOUS
      <4>1. CASE n \in DOMAIN requests[ch]
        BY <1>0, <1>11, <3>1, <4>1 DEF Token, Executed
      <4>2. CASE n = Len(requests[ch]) + 1
        <5>1. requests'[ch][n] = m
          BY <1>11, <4>2
        <5> QED
          BY <1>0, <1>2, <1>4, <1>7, <1>12, <5>1 DEF Token, Executed
      <4> QED
        BY <1>11, <4>1, <4>2
    <3>3. \A a, n \in DOMAIN requests'[ch] :
            requests'[ch][a].call = requests'[ch][n].call => a = n
      BY <1>2, <1>7, <1>11, <1>12 DEF IInv, Asked
    <3> QED
      BY <2>2, <3>2, <3>3
  <2> QED
    BY <2>1, <2>2
<1>18. Served' /\ Answered'
  BY <1>0, <1>16 DEF IInv, Served, Answered, Token, Executed
<1>19. Once'
  BY <1>0, <1>1, <1>16 DEF IInv, Values, Once
<1>20. Farewell'
  BY <1>0 DEF IInv, Farewell
<1>21. Orderly'
  <2> SUFFICES ASSUME NEW k \in Channels, ~behind[k]
               PROVE  /\ \A n \in DOMAIN requests'[k] :
                           \/ requests'[k][n].call = holder'[k]
                           \/ (k = "general" /\ process # "on")
                      /\ serving[k] # NoRequest => serving[k].call = holder'[k]
                      /\ \A n \in DOMAIN answers[k] : answers[k][n].call \in {0, holder'[k]}
    BY <1>0 DEF Orderly
  <2>1. CASE k # ch
    BY <1>6, <1>10, <2>1 DEF IInv, Orderly
  <2>2. CASE k = ch
    <3>1. /\ \A n \in DOMAIN requests[ch] : ch = "general" /\ process # "on"
          /\ serving[ch] = NoRequest
          /\ \A n \in DOMAIN answers[ch] : answers[ch][n].call = 0
      BY <1>2, <2>2 DEF IInv, Orderly, Asked, Served, Token, RpcAssumption
    <3> QED
      BY <1>6, <1>7, <1>11, <2>2, <3>1
  <2> QED
    BY <2>1, <2>2
<1>22. Told'
  BY <1>0, <1>4 DEF IInv, Told, Executed, NoOutcome
<1> QED
  BY <1>13, <1>14, <1>15, <1>17, <1>18, <1>19, <1>20, <1>21, <1>22 DEF IInv

LEMMA LockInv == ASSUME RpcAssumption, IInv, NEW c \in Calls, Lock(c) PROVE IInv'
<1> DEFINE ch == call[c].on
<1>1. CASE /\ call' = [call EXCEPT ![c].pc = "done", ![c].out = Unavailable]
           /\ numbers' = numbers \/ numbers' = [numbers EXCEPT ![ch] = @ + 1]
           /\ UNCHANGED <<holder, requests>>
  BY <1>1, LockFailsInv DEF Lock, LockFails
<1>2. CASE /\ numbers' = [numbers EXCEPT ![ch] = @ + 1] /\ holder' = [holder EXCEPT ![ch] = c]
           /\ call' = [call EXCEPT ![c].pc = "wait", ![c].id = numbers[ch] + 1]
           /\ requests' = [requests EXCEPT ![ch] =
                             Append(@, [id |-> numbers[ch] + 1, call |-> c])]
  BY <1>2, LockTakenInv DEF Lock, LockTaken
<1> QED
  BY <1>1, <1>2 DEF Lock

LEMMA ReceiveInv == ASSUME RpcAssumption, IInv, NEW c \in Calls, Receive(c) PROVE IInv'
<1> DEFINE ch == call[c].on
           a  == Head(answers[ch])
<1>0. UNCHANGED <<numbers, requests, serving, process, ran, behind>>
  BY DEF Receive
<1>1. Values
  BY TypeFacts DEF IInv
<1>2. ch \in Channels /\ call[c].pc = "wait" /\ holder[ch] = c /\ c # 0 /\ answers[ch] # <<>>
  BY <1>1 DEF Values, IInv, Holding, Receive, RpcAssumption
<1>3. answers[ch] \in Seq(Responses)
  BY <1>1, <1>2 DEF Values
<1>4. /\ Tail(answers[ch]) \in Seq(Responses) /\ a \in Responses
      /\ 1 \in DOMAIN answers[ch] /\ a = answers[ch][1]
      /\ Len(Tail(answers[ch])) = Len(answers[ch]) - 1 /\ Len(answers[ch]) \in Nat
      /\ \A n \in DOMAIN Tail(answers[ch]) :
           /\ n \in Nat /\ n + 1 \in DOMAIN answers[ch] /\ n + 1 # 1
           /\ Tail(answers[ch])[n] = answers[ch][n + 1]
  BY <1>2, <1>3, TailFacts
<1>5. /\ answers' = [answers EXCEPT ![ch] = Tail(answers[ch])]
      /\ holder' = [holder EXCEPT ![ch] = 0]
      /\ call' = [call EXCEPT ![c] = [call[c] EXCEPT !.pc = "done", !.out = Outcome(c, a)]]
  BY DEF Receive, Free
<1>6. a.kind \in {"result", "error"} /\ a.id \in Nat /\ a.call \in Calls \cup {0}
  BY <1>4 DEF Responses
<1>7. /\ a.kind = "result" /\ a.id # call[c].id => Outcome(c, a) = [kind |-> "mismatch", of |-> c]
      /\ ~(a.kind = "result" /\ a.id # call[c].id) =>
           Outcome(c, a) = [kind |-> a.kind, of |-> a.call]
      /\ Outcome(c, a) \in Outcomes
  BY <1>6 DEF Outcome, Outcomes, Kinds
<1> HIDE DEF ch, a
<1>8. /\ call' \in [Calls -> [pc : Places, on : Channels, id : Nat, out : Outcomes]]
      /\ \A d \in Calls : d # c => call'[d] = call[d]
      /\ call'[c].id = call[c].id /\ call'[c].pc = "done" /\ call'[c].out = Outcome(c, a)
      /\ call'[c].on = ch
  <2> DEFINE r == [call[c] EXCEPT !.pc = "done", !.out = Outcome(c, a)]
  <2>1. r \in [pc : Places, on : Channels, id : Nat, out : Outcomes]
        /\ r.id = call[c].id /\ r.pc = "done" /\ r.out = Outcome(c, a) /\ r.on = call[c].on
    <3>1. call[c] \in [pc : Places, on : Channels, id : Nat, out : Outcomes]
      BY DEF IInv, Types
    <3>2. "done" \in Places
      BY DEF Places
    <3> QED
      BY <1>7, <3>1, <3>2
  <2>2. call' = [call EXCEPT ![c] = r]
    BY <1>5
  <2> HIDE DEF r
  <2> QED
    BY <2>1, <2>2 DEF IInv, Types, ch
<1>9. holder' \in [Channels -> Calls \cup {0}] /\ holder'[ch] = 0
      /\ \A k \in Channels : k # ch => holder'[k] = holder[k]
  BY <1>2, <1>5 DEF IInv, Types
<1>10. answers' \in [Channels -> Seq(Responses)] /\ answers'[ch] = Tail(answers[ch])
       /\ \A k \in Channels : k # ch => answers'[k] = answers[k]
  BY <1>2, <1>4, <1>5 DEF IInv, Types
<1>11. Kept
  BY <1>1, <1>2, <1>8 DEF Kept, IInv, Numbered, Values, ch
<1>12. Types'
  BY <1>0, <1>8, <1>9, <1>10 DEF IInv, Types
<1>13. Numbered'
  BY <1>0, <1>1, <1>11, NumbersKept DEF IInv, Values
<1>14. Holding'
  <2>1. ASSUME NEW d \in Calls, call'[d].pc = "wait" PROVE holder'[call'[d].on] = d
    BY <1>1, <1>2, <1>8, <1>9, <2>1 DEF IInv, Values, Holding
  <2>2. ASSUME NEW k \in Channels, holder'[k] # 0
        PROVE  call'[holder'[k]].pc = "wait" /\ call'[holder'[k]].on = k
    <3>1. k # ch /\ holder'[k] = holder[k] /\ holder[k] \in Calls
      BY <1>1, <1>9, <2>2 DEF Values
    <3>2. call[holder[k]].pc = "wait" /\ call[holder[k]].on = k
      BY <2>2, <3>1 DEF IInv, Holding
    <3>3. holder[k] # c
      BY <3>1, <3>2 DEF ch
    <3> QED
      BY <1>8, <3>1, <3>2, <3>3
  <2> QED
    BY <2>1, <2>2 DEF Holding
<1>15. \A d \in Calls : call[d].id # 0 => call'[d].on = call[d].on /\ call'[d].id = call[d].id
  BY <1>11 DEF Kept
<1>16. Asked' /\ Served' /\ Once'
  BY <1>0, <1>1, <1>11, RequestsKept DEF IInv
\* What is left in a pipe was there before.
<1>17. ASSUME NEW k \in Channels, NEW n \in DOMAIN answers'[k]
       PROVE  \E i \in DOMAIN answers[k] :
                /\ answers'[k][n] = answers[k][i] /\ (k = ch => i = n + 1 /\ i # 1)
                /\ (k # ch => i = n)
  <2>1. CASE k = ch
    <3>1. /\ n \in Nat /\ n + 1 \in DOMAIN answers[ch] /\ n + 1 # 1
          /\ answers'[ch][n] = answers[ch][n + 1]
      BY <1>4, <1>10, <1>17, <2>1
    <3> QED
      BY <2>1, <3>1
  <2>2. CASE k # ch
    BY <1>10, <1>17, <2>2
  <2> QED
    BY <2>1, <2>2
<1>18. Answered'
  <2>1. ASSUME NEW k \in Channels, NEW n \in DOMAIN answers'[k], answers'[k][n].call # 0
        PROVE  /\ Token(k, answers[k][n])' /\ Executed(k, answers[k][n].call)'
               /\ serving'[k].call # answers'[k][n].call
    <3>1. PICK i \in DOMAIN answers[k] : answers'[k][n] = answers[k][i]
      BY <1>17
    <3>2. Token(k, answers[k][i]) /\ Executed(k, answers[k][i].call)
          /\ serving[k].call # answers[k][i].call
      BY <2>1, <3>1 DEF IInv, Answered
    <3> QED
      BY <1>0, <1>15, <3>1, <3>2 DEF Token, Executed
  <2>2. ASSUME NEW k \in Channels, NEW m \in DOMAIN answers'[k], NEW n \in DOMAIN answers'[k],
               answers'[k][m].call # 0, answers'[k][m].call = answers'[k][n].call
        PROVE  m = n
    <3>1. CASE k # ch
      BY <1>10, <2>2, <3>1 DEF IInv, Answered
    <3>2. CASE k = ch
      <4>1. m \in Nat /\ n \in Nat /\ m + 1 \in DOMAIN answers[ch] /\ n + 1 \in DOMAIN answers[ch]
            /\ answers'[k][m] = answers[ch][m + 1] /\ answers'[k][n] = answers[ch][n + 1]
        BY <1>4, <1>10, <3>2
      <4>2. m + 1 = n + 1
        BY <1>2, <2>2, <4>1 DEF IInv, Answered
      <4> QED
        BY <4>1, <4>2
    <3> QED
      BY <3>1, <3>2
  <2> QED
    BY <2>1, <2>2 DEF Answered
<1>19. Farewell'
  <2> SUFFICES ASSUME NEW k \in Channels, NEW n \in DOMAIN answers'[k], answers'[k][n].call = 0
               PROVE  /\ answers'[k][n].kind = "error" /\ k = "general" /\ process # "on"
                      /\ n = Len(answers'[k])
    BY <1>0 DEF IInv, Farewell
  <2>1. CASE k # ch
    BY <1>10, <2>1 DEF IInv, Farewell
  <2>2. CASE k = ch
    <3>1. n \in Nat /\ n + 1 \in DOMAIN answers[ch] /\ answers'[k][n] = answers[ch][n + 1]
      BY <1>4, <1>10, <2>2
    <3>2. answers[ch][n + 1].kind = "error" /\ ch = "general" /\ process # "on"
          /\ n + 1 = Len(answers[ch])
      BY <1>2, <3>1 DEF IInv, Farewell
    <3>3. Len(answers'[k]) = Len(answers[ch]) - 1
      BY <1>4, <1>10, <2>2
    <3> QED
      BY <1>4, <2>2, <3>1, <3>2, <3>3
  <2> QED
    BY <2>1, <2>2
<1>20. Orderly'
  <2> SUFFICES ASSUME NEW k \in Channels, ~behind[k]
               PROVE  /\ \A n \in DOMAIN requests[k] :
                           \/ requests[k][n].call = holder'[k]
                           \/ (k = "general" /\ process # "on")
                      /\ serving[k] # NoRequest => serving[k].call = holder'[k]
                      /\ \A n \in DOMAIN answers'[k] : answers'[k][n].call \in {0, holder'[k]}
    BY <1>0 DEF Orderly
  <2>1. CASE k # ch
    BY <1>9, <1>10, <2>1 DEF IInv, Orderly
  <2>2. CASE k = ch /\ a.call = 0
    \* The process has left its loop; nobody serves the channel any more.
    <3>1. ch = "general" /\ process # "on" /\ 1 = Len(answers[ch])
      BY <1>2, <1>4, <2>2 DEF IInv, Farewell
    <3>2. serving[ch] = NoRequest
      BY <3>1 DEF IInv, Farewell
    <3>3. \A n \in DOMAIN answers'[ch] : FALSE
      BY <1>3, <1>4, <1>10, <3>1, TailFacts, <1>2
    <3> QED
      BY <2>2, <3>1, <3>2, <3>3
  <2>3. CASE k = ch /\ a.call # 0
    <3>1. a.call = c
      BY <1>2, <1>4, <2>3 DEF IInv, Orderly
    <3>2. Executed(ch, c) /\ serving[ch].call # c
      BY <1>2, <1>4, <2>3, <3>1 DEF IInv, Answered
    <3>3. \A n \in DOMAIN requests[ch] : ch = "general" /\ process # "on"
      BY <1>2, <2>3, <3>2 DEF IInv, Orderly, Asked
    <3>4. serving[ch] = NoRequest
      BY <1>2, <2>3, <3>2 DEF IInv, Orderly
    <3>5. ASSUME NEW n \in DOMAIN answers'[ch] PROVE answers'[ch][n].call = 0
      <4>1. n + 1 \in DOMAIN answers[ch] /\ n + 1 # 1 /\ answers'[ch][n] = answers[ch][n + 1]
        BY <1>4, <1>10
      <4>2. answers[ch][n + 1].call \in {0, c}
        BY <1>2, <2>3, <4>1 DEF IInv, Orderly
      <4>3. answers[ch][n + 1].call # c
        BY <1>2, <1>4, <2>3, <3>1, <4>1 DEF IInv, Answered
      <4> QED
        BY <4>1, <4>2, <4>3
    <3> QED
      BY <2>3, <3>3, <3>4, <3>5
  <2> QED
    BY <2>1, <2>2, <2>3
<1>21. Told'
  <2>1. ASSUME Outcome(c, a).kind = "result"
        PROVE  Outcome(c, a).of = c /\ Executed(ch, c)
    <3>1. a.kind = "result" /\ a.id = call[c].id /\ Outcome(c, a).of = a.call
      BY <1>6, <1>7, <2>1
    <3>2. a.call # 0
      BY <1>2, <1>4, <3>1 DEF IInv, Farewell
    <3>3. Token(ch, a) /\ Executed(ch, a.call)
      BY <1>2, <1>4, <3>2 DEF IInv, Answered
    <3>4. a.call = c
      BY <3>1, <3>3 DEF IInv, Numbered, Token, ch
    <3> QED
      BY <3>1, <3>3, <3>4
  <2>2. ASSUME ~behind[ch]
        PROVE  /\ Outcome(c, a).kind # "mismatch"
               /\ Outcome(c, a).kind = "error" => Outcome(c, a).of \in {c, 0}
    <3>1. a.call \in {0, c}
      BY <1>2, <1>4, <2>2 DEF IInv, Orderly
    <3>2. CASE a.call = 0
      <4>1. a.kind = "error"
        BY <1>2, <1>4, <3>2 DEF IInv, Farewell
      <4> QED
        BY <1>7, <3>2, <4>1
    <3>3. CASE a.call = c
      <4>1. a.id = call[c].id
        BY <1>2, <1>4, <3>3 DEF IInv, Answered, Token
      <4> QED
        BY <1>6, <1>7, <3>3, <4>1
    <3> QED
      BY <3>1, <3>2, <3>3
  <2>3. ASSUME NEW d \in Calls
        PROVE  /\ call'[d].out.kind = "result" =>
                    call'[d].out.of = d /\ Executed(call'[d].on, d)
               /\ ~behind[call'[d].on] =>
                    /\ call'[d].out.kind # "mismatch"
                    /\ call'[d].out.kind = "error" => call'[d].out.of \in {d, 0}
               /\ call'[d].pc # "done" => call'[d].out = NoOutcome
    <3>1. CASE d = c
      BY <1>8, <2>1, <2>2, <3>1
    <3>2. CASE d # c
      BY <1>8, <3>2 DEF IInv, Told
    <3> QED
      BY <3>1, <3>2
  <2> QED
    BY <1>0, <2>3 DEF Told, Executed
<1> QED
  BY <1>12, <1>13, <1>14, <1>16, <1>18, <1>19, <1>20, <1>21 DEF IInv

LEMMA GiveUpInv == ASSUME RpcAssumption, IInv, NEW c \in Calls, GiveUp(c) PROVE IInv'
<1> DEFINE ch == call[c].on
<1>0. UNCHANGED <<numbers, requests, answers, serving, process, ran>>
  BY DEF GiveUp
<1>1. Values
  BY TypeFacts DEF IInv
<1>2. ch \in Channels /\ call[c].pc = "wait" /\ holder[ch] = c /\ c # 0
  BY <1>1 DEF Values, IInv, Holding, GiveUp, RpcAssumption
<1>3. /\ behind' = [behind EXCEPT ![ch] = TRUE] /\ holder' = [holder EXCEPT ![ch] = 0]
      /\ call' = [call EXCEPT ![c] = [call[c] EXCEPT !.pc = "done", !.out = Unavailable]]
  BY DEF GiveUp, Free
<1> HIDE DEF ch
<1>4. /\ call' \in [Calls -> [pc : Places, on : Channels, id : Nat, out : Outcomes]]
      /\ \A d \in Calls : d # c => call'[d] = call[d]
      /\ call'[c].id = call[c].id /\ call'[c].pc = "done" /\ call'[c].out = Unavailable
      /\ call'[c].on = ch
  <2> DEFINE r == [call[c] EXCEPT !.pc = "done", !.out = Unavailable]
  <2>1. r \in [pc : Places, on : Channels, id : Nat, out : Outcomes]
        /\ r.id = call[c].id /\ r.pc = "done" /\ r.out = Unavailable /\ r.on = call[c].on
    <3>1. call[c] \in [pc : Places, on : Channels, id : Nat, out : Outcomes]
      BY DEF IInv, Types
    <3>2. "done" \in Places /\ Unavailable \in Outcomes
      BY DEF Places, Outcomes, Kinds, Unavailable
    <3> QED
      BY <3>1, <3>2
  <2>2. call' = [call EXCEPT ![c] = r]
    BY <1>3
  <2> HIDE DEF r
  <2> QED
    BY <2>1, <2>2 DEF IInv, Types, ch
<1>5. holder' \in [Channels -> Calls \cup {0}] /\ holder'[ch] = 0
      /\ \A k \in Channels : k # ch => holder'[k] = holder[k]
  BY <1>2, <1>3 DEF IInv, Types
<1>6. behind' \in [Channels -> BOOLEAN] /\ behind'[ch]
      /\ \A k \in Channels : k # ch => behind'[k] = behind[k]
  BY <1>2, <1>3 DEF IInv, Types
<1>7. Kept
  BY <1>1, <1>2, <1>4 DEF Kept, IInv, Numbered, Values, ch
<1>8. Types'
  BY <1>0, <1>4, <1>5, <1>6 DEF IInv, Types
<1>9. Numbered'
  BY <1>0, <1>1, <1>7, NumbersKept DEF IInv, Values
<1>10. Holding'
  <2>1. ASSUME NEW d \in Calls, call'[d].pc = "wait" PROVE holder'[call'[d].on] = d
    BY <1>1, <1>2, <1>4, <1>5, <2>1 DEF IInv, Values, Holding
  <2>2. ASSUME NEW k \in Channels, holder'[k] # 0
        PROVE  call'[holder'[k]].pc = "wait" /\ call'[holder'[k]].on = k
    <3>1. k # ch /\ holder'[k] = holder[k] /\ holder[k] \in Calls
      BY <1>1, <1>5, <2>2 DEF Values
    <3>2. call[holder[k]].pc = "wait" /\ call[holder[k]].on = k
      BY <2>2, <3>1 DEF IInv, Holding
    <3>3. holder[k] # c
      BY <3>1, <3>2 DEF ch
    <3> QED
      BY <1>4, <3>1, <3>2, <3>3
  <2> QED
    BY <2>1, <2>2 DEF Holding
<1>11. Asked' /\ Served' /\ Answered' /\ Once'
  BY <1>0, <1>1, <1>7, PipesKept DEF IInv
<1>12. Farewell'
  BY <1>0 DEF IInv, Farewell
<1>13. Orderly'
  <2>1. \A k \in Channels : ~behind'[k] => ~behind[k] /\ holder'[k] = holder[k]
    BY <1>5, <1>6
  <2> QED
    BY <1>0, <2>1 DEF IInv, Orderly
<1>14. Told'
  <2>1. \A k \in Channels : ~behind'[k] => ~behind[k]
    BY <1>6
  <2>2. ASSUME NEW d \in Calls
        PROVE  /\ call'[d].out.kind = "result" =>
                    call'[d].out.of = d /\ Executed(call'[d].on, d)
               /\ ~behind'[call'[d].on] =>
                    /\ call'[d].out.kind # "mismatch"
                    /\ call'[d].out.kind = "error" => call'[d].out.of \in {d, 0}
               /\ call'[d].pc # "done" => call'[d].out = NoOutcome
    <3>1. CASE d = c
      BY <1>4, <3>1 DEF Unavailable
    <3>2. CASE d # c
      BY <1>1, <1>4, <2>1, <3>2 DEF IInv, Told, Values
    <3> QED
      BY <3>1, <3>2
  <2> QED
    BY <1>0, <2>2 DEF Told, Executed
<1> QED
  BY <1>8, <1>9, <1>10, <1>11, <1>12, <1>13, <1>14 DEF IInv

-----------------------------------------------------------------------------
\* The process's steps.

\* The request is taken out of the pipe and executed: it was not before.
LEMMA ServeInv == ASSUME RpcAssumption, IInv, NEW ch \in Channels, Serve(ch) PROVE IInv'
<1> PICK m : m = Head(requests[ch])
  OBVIOUS
<1>0. UNCHANGED <<call, numbers, holder, answers, process, behind>>
  BY DEF Serve
<1>1. Values
  BY TypeFacts DEF IInv
<1>2. requests[ch] \in Seq(Requests) /\ requests[ch] # <<>> /\ ran[ch] \in Seq(Calls)
  BY <1>1 DEF Values, Serve
<1>3. /\ Tail(requests[ch]) \in Seq(Requests) /\ m \in Requests
      /\ 1 \in DOMAIN requests[ch] /\ m = requests[ch][1]
      /\ \A n \in DOMAIN Tail(requests[ch]) :
           /\ n \in Nat /\ n + 1 \in DOMAIN requests[ch] /\ n + 1 # 1
           /\ Tail(requests[ch])[n] = requests[ch][n + 1]
  BY <1>2, TailFacts
<1>4. /\ serving[ch] = NoRequest /\ serving' = [serving EXCEPT ![ch] = m]
      /\ requests' = [requests EXCEPT ![ch] = Tail(requests[ch])]
      /\ ran' = [ran EXCEPT ![ch] = Append(ran[ch], m.call)]
      /\ ch = "general" => process = "on"
  BY DEF Serve
<1>5. m.call \in Calls /\ m.id \in Nat /\ m.id # 0
  BY <1>3 DEF Requests
<1>6. /\ Append(ran[ch], m.call) \in Seq(Calls) /\ Len(ran[ch]) \in Nat
      /\ DOMAIN ran[ch] = 1..Len(ran[ch])
      /\ DOMAIN Append(ran[ch], m.call) = 1..(Len(ran[ch]) + 1)
      /\ \A n \in DOMAIN ran[ch] : Append(ran[ch], m.call)[n] = ran[ch][n]
      /\ Append(ran[ch], m.call)[Len(ran[ch]) + 1] = m.call
  BY <1>2, <1>5, AppendFacts
<1>7. /\ requests' \in [Channels -> Seq(Requests)] /\ requests'[ch] = Tail(requests[ch])
      /\ \A k \in Channels : k # ch => requests'[k] = requests[k]
  BY <1>3, <1>4 DEF IInv, Types
<1>8. /\ serving' \in [Channels -> Requests \cup {NoRequest}] /\ serving'[ch] = m
      /\ \A k \in Channels : k # ch => serving'[k] = serving[k]
  BY <1>3, <1>4 DEF IInv, Types
<1>9. /\ ran' \in [Channels -> Seq(Calls)] /\ ran'[ch] = Append(ran[ch], m.call)
      /\ \A k \in Channels : k # ch => ran'[k] = ran[k]
  BY <1>4, <1>6 DEF IInv, Types
<1>10. Token(ch, m) /\ ~Executed(ch, m.call)
  BY <1>3 DEF IInv, Asked
<1>11. /\ \A n \in DOMAIN ran[ch] : n \in DOMAIN ran'[ch] /\ ran'[ch][n] = ran[ch][n]
       /\ \A n \in DOMAIN ran'[ch] :
            n \in DOMAIN ran[ch] \/ (n = Len(ran[ch]) + 1 /\ ran'[ch][n] = m.call)
       /\ Len(ran[ch]) + 1 \in DOMAIN ran'[ch] /\ ran'[ch][Len(ran[ch]) + 1] = m.call
  BY <1>6, <1>9
<1>12. /\ \A k \in Channels : \A c : Executed(k, c) => Executed(k, c)'
       /\ \A k \in Channels : \A c : Executed(k, c)' => Executed(k, c) \/ (k = ch /\ c = m.call)
       /\ Executed(ch, m.call)'
  <2>1. ASSUME NEW k \in Channels, NEW c, Executed(k, c) PROVE Executed(k, c)'
    BY <1>9, <1>11, <2>1 DEF Executed
  <2>2. ASSUME NEW k \in Channels, NEW c, Executed(k, c)'
        PROVE  Executed(k, c) \/ (k = ch /\ c = m.call)
    BY <1>9, <1>11, <2>2 DEF Executed
  <2>3. Executed(ch, m.call)'
    BY <1>11 DEF Executed
  <2> QED
    BY <2>1, <2>2, <2>3
<1>13. Types'
  BY <1>0, <1>7, <1>8, <1>9 DEF IInv, Types
<1>14. Numbered' /\ Holding'
  BY <1>0 DEF IInv, Numbered, Holding
\* What is left in the pipe was there before.
<1>15. ASSUME NEW k \in Channels, NEW n \in DOMAIN requests'[k]
       PROVE  \E i \in DOMAIN requests[k] :
                requests'[k][n] = requests[k][i] /\ (k = ch => i # 1)
  <2>1. CASE k = ch
    <3>1. /\ n \in Nat /\ n + 1 \in DOMAIN requests[ch] /\ n + 1 # 1
          /\ requests'[ch][n] = requests[ch][n + 1]
      BY <1>3, <1>7, <1>15, <2>1
    <3> QED
      BY <2>1, <3>1
  <2>2. CASE k # ch
    BY <1>7, <1>15, <2>2
  <2> QED
    BY <2>1, <2>2
<1>16. Asked'
  <2>1. ASSUME NEW k \in Channels, NEW n \in DOMAIN requests'[k]
        PROVE  Token(k, requests[k][n])' /\ ~Executed(k, requests[k][n].call)'
    <3>1. PICK i \in DOMAIN requests[k] :
            requests'[k][n] = requests[k][i] /\ (k = ch => i # 1)
      BY <1>15
    <3>2. Token(k, requests[k][i]) /\ ~Executed(k, requests[k][i].call)
      BY DEF IInv, Asked
    <3>3. k = ch => requests[k][i].call # m.call
      BY <1>3, <3>1 DEF IInv, Asked
    <3>4. \A c : c = requests[k][i].call => ~Executed(k, c)'
      BY <1>12, <3>2, <3>3
    <3>5. ~Executed(k, requests[k][n].call)'
      BY <3>1, <3>4 DEF Executed
    <3> QED
      BY <1>0, <3>1, <3>2, <3>5 DEF Token
  <2>2. ASSUME NEW k \in Channels, NEW i \in DOMAIN requests'[k], NEW n \in DOMAIN requests'[k],
               requests'[k][i].call = requests'[k][n].call
        PROVE  i = n
    <3>1. CASE k # ch
      BY <1>7, <2>2, <3>1 DEF IInv, Asked
    <3>2. CASE k = ch
      <4>1. /\ i \in Nat /\ n \in Nat
            /\ i + 1 \in DOMAIN requests[ch] /\ n + 1 \in DOMAIN requests[ch]
            /\ requests'[k][i] = requests[ch][i + 1] /\ requests'[k][n] = requests[ch][n + 1]
        BY <1>3, <1>7, <3>2
      <4>2. i + 1 = n + 1
        BY <2>2, <4>1 DEF IInv, Asked
      <4> QED
        BY <4>1, <4>2
    <3> QED
      BY <3>1, <3>2
  <2> QED
    BY <2>1, <2>2 DEF Asked
<1>17. Served'
  <2>1. ASSUME NEW k \in Channels, serving'[k] # NoRequest
        PROVE  Token(k, serving[k])' /\ Executed(k, serving[k].call)'
    <3>1. CASE k = ch
      BY <1>0, <1>8, <1>10, <1>12, <3>1 DEF Token, Executed
    <3>2. CASE k # ch
      <4>1. Token(k, serving[k]) /\ Executed(k, serving[k].call) /\ serving'[k] = serving[k]
        BY <1>8, <2>1, <3>2 DEF IInv, Served
      <4> QED
        BY <1>0, <1>9, <3>2, <4>1 DEF Token, Executed
    <3> QED
      BY <3>1, <3>2
  <2> QED
    BY <2>1 DEF Served
<1>18. Answered'
  <2>1. ASSUME NEW k \in Channels, NEW n \in DOMAIN answers[k], answers[k][n].call # 0
        PROVE  /\ Token(k, answers[k][n])' /\ Executed(k, answers[k][n].call)'
               /\ serving'[k].call # answers[k][n].call
    <3>1. Token(k, answers[k][n]) /\ Executed(k, answers[k][n].call)
          /\ serving[k].call # answers[k][n].call
      BY <2>1 DEF IInv, Answered
    <3>2. Token(k, answers[k][n])'
      BY <1>0, <3>1 DEF Token
    <3>3. \A c : Executed(k, c) => Executed(k, c)'
      BY <1>12
    <3>4. Executed(k, answers[k][n].call)'
      BY <1>0, <3>1, <3>3 DEF Executed
    <3>5. serving'[k].call # answers[k][n].call
      BY <1>8, <1>10, <3>1
    <3> QED
      BY <3>2, <3>4, <3>5
  <2> QED
    BY <1>0, <2>1 DEF IInv, Answered
<1>19. Farewell'
  <2>1. process # "on" => ch # "general"
    BY <1>4
  <2> QED
    BY <1>0, <1>8, <2>1 DEF IInv, Farewell, RpcAssumption
<1>20. Once'
  <2>1. ASSUME NEW k \in Channels, NEW n \in DOMAIN ran'[k]
        PROVE  call[ran'[k][n]].on = k /\ call[ran'[k][n]].id # 0
    <3>1. CASE k # ch
      BY <1>9, <2>1, <3>1 DEF IInv, Once
    <3>2. CASE k = ch
      BY <1>5, <1>10, <1>11, <2>1, <3>2 DEF IInv, Once, Token
    <3> QED
      BY <3>1, <3>2
  <2>2. ASSUME NEW k \in Channels, NEW i \in DOMAIN ran'[k], NEW n \in DOMAIN ran'[k],
               ran'[k][i] = ran'[k][n]
        PROVE  i = n
    <3>1. CASE k # ch
      BY <1>9, <2>2, <3>1 DEF IInv, Once
    <3>2. CASE k = ch
      <4>1. \A j \in DOMAIN ran[ch] : ran[ch][j] # m.call
        BY <1>10 DEF Executed
      <4> QED
        BY <1>11, <2>2, <3>2, <4>1 DEF IInv, Once
    <3> QED
      BY <3>1, <3>2
  <2> QED
    BY <1>0, <2>1, <2>2 DEF Once
<1>21. Orderly'
  <2> SUFFICES ASSUME NEW k \in Channels, ~behind[k]
               PROVE  /\ \A n \in DOMAIN requests'[k] :
                           \/ requests'[k][n].call = holder[k]
                           \/ (k = "general" /\ process # "on")
                      /\ serving'[k] # NoRequest => serving'[k].call = holder[k]
                      /\ \A n \in DOMAIN answers[k] : answers[k][n].call \in {0, holder[k]}
    BY <1>0 DEF Orderly
  <2>1. \A n \in DOMAIN requests'[k] :
          requests'[k][n].call = holder[k] \/ (k = "general" /\ process # "on")
    BY <1>15 DEF IInv, Orderly
  <2>2. ASSUME serving'[k] # NoRequest PROVE serving'[k].call = holder[k]
    <3>1. CASE k = ch
      BY <1>3, <1>4, <1>8, <3>1 DEF IInv, Orderly
    <3>2. CASE k # ch
      BY <1>8, <2>2, <3>2 DEF IInv, Orderly
    <3> QED
      BY <3>1, <3>2
  <2>3. \A n \in DOMAIN answers[k] : answers[k][n].call \in {0, holder[k]}
    BY DEF IInv, Orderly
  <2> QED
    BY <2>1, <2>2, <2>3
<1>22. Told'
  <2>1. \A c \in Calls : Executed(call[c].on, c) => Executed(call[c].on, c)'
    <3> TAKE c \in Calls
    <3>1. call[c].on \in Channels
      BY <1>1 DEF Values
    <3>2. \A k \in Channels : Executed(k, c) => Executed(k, c)'
      BY <1>12
    <3> QED
      BY <1>0, <3>1, <3>2 DEF Executed
  <2> QED
    BY <1>0, <2>1 DEF IInv, Told
<1> QED
  BY <1>13, <1>14, <1>16, <1>17, <1>18, <1>19, <1>20, <1>21, <1>22 DEF IInv

\* The answer carries the number of the request and is the only one to it.
LEMMA AnswerInv == ASSUME RpcAssumption, IInv, NEW ch \in Channels, Answer(ch) PROVE IInv'
<1>0. UNCHANGED <<call, numbers, holder, requests, process, ran, behind>>
  BY DEF Answer
<1>1. Values
  BY TypeFacts DEF IInv
<1>2. PICK kind \in {"result", "error"} :
        answers' = [answers EXCEPT ![ch] = Append(@, [kind |-> kind, id |-> serving[ch].id,
                                                     call |-> serving[ch].call])]
  BY DEF Answer
<1>3. /\ serving[ch] \in Requests /\ serving[ch] # NoRequest
      /\ serving' = [serving EXCEPT ![ch] = NoRequest]
  BY <1>1 DEF Answer, Values
<1> PICK a : a = [kind |-> kind, id |-> serving[ch].id, call |-> serving[ch].call]
  OBVIOUS
<1>4. /\ a \in Responses /\ a.call = serving[ch].call /\ a.id = serving[ch].id /\ a.call # 0
  BY <1>3 DEF Requests, Responses, RpcAssumption
<1>5. answers[ch] \in Seq(Responses)
  BY <1>1 DEF Values
<1>6. /\ Append(answers[ch], a) \in Seq(Responses) /\ Len(answers[ch]) \in Nat
      /\ DOMAIN answers[ch] = 1..Len(answers[ch])
      /\ DOMAIN Append(answers[ch], a) = 1..(Len(answers[ch]) + 1)
      /\ \A n \in DOMAIN answers[ch] : Append(answers[ch], a)[n] = answers[ch][n]
      /\ Append(answers[ch], a)[Len(answers[ch]) + 1] = a
  BY <1>4, <1>5, AppendFacts
<1>7. /\ answers' \in [Channels -> Seq(Responses)] /\ answers'[ch] = Append(answers[ch], a)
      /\ \A k \in Channels : k # ch => answers'[k] = answers[k]
  BY <1>2, <1>6 DEF IInv, Types
<1>8. \A n \in DOMAIN answers'[ch] :
        \/ n \in DOMAIN answers[ch] /\ answers'[ch][n] = answers[ch][n]
        \/ n = Len(answers[ch]) + 1 /\ answers'[ch][n] = a
  BY <1>6, <1>7
<1>9. /\ serving' \in [Channels -> Requests \cup {NoRequest}] /\ serving'[ch] = NoRequest
      /\ \A k \in Channels : k # ch => serving'[k] = serving[k]
  BY <1>3 DEF IInv, Types
<1>10. Token(ch, a) /\ Executed(ch, a.call)
  BY <1>3, <1>4 DEF IInv, Served, Token
<1>11. \A n \in DOMAIN answers[ch] : answers[ch][n].call # a.call /\ answers[ch][n].call # 0
  <2>1. \A n \in DOMAIN answers[ch] : answers[ch][n].call # a.call
    BY <1>3, <1>4 DEF IInv, Answered
  <2>2. \A n \in DOMAIN answers[ch] : answers[ch][n].call # 0
    BY <1>3 DEF IInv, Farewell
  <2> QED
    BY <2>1, <2>2
<1>12. Types'
  BY <1>0, <1>7, <1>9 DEF IInv, Types
<1>13. Numbered' /\ Holding' /\ Asked' /\ Once'
  BY <1>0 DEF IInv, Numbered, Holding, Asked, Once, Token, Executed
<1>14. Served'
  BY <1>0, <1>9 DEF IInv, Served, Token, Executed
<1>15. Answered'
  <2>1. ASSUME NEW k \in Channels, NEW n \in DOMAIN answers'[k], answers'[k][n].call # 0
        PROVE  /\ Token(k, answers[k][n])' /\ Executed(k, answers[k][n].call)'
               /\ serving'[k].call # answers'[k][n].call
    <3>1. CASE k # ch
      <4>1. /\ Token(k, answers[k][n]) /\ Executed(k, answers[k][n].call)
            /\ serving[k].call # answers[k][n].call
            /\ answers'[k] = answers[k] /\ serving'[k] = serving[k]
        BY <1>7, <1>9, <2>1, <3>1 DEF IInv, Answered
      <4> QED
        BY <1>0, <4>1 DEF Token, Executed
    <3>2. CASE k = ch
      <4>1. /\ answers'[ch][n].call \in Calls /\ answers'[ch][n].id # 0
            /\ call[answers'[ch][n].call].on = ch
            /\ call[answers'[ch][n].call].id = answers'[ch][n].id
            /\ Executed(ch, answers'[ch][n].call)
        <5>1. CASE n \in DOMAIN answers[ch] /\ answers'[ch][n] = answers[ch][n]
          BY <1>11, <5>1 DEF IInv, Answered, Token
        <5>2. CASE answers'[ch][n] = a
          BY <1>10, <5>2 DEF Token
        <5> QED
          BY <1>8, <2>1, <3>2, <5>1, <5>2
      <4>2. serving'[ch].call = 0
        BY <1>9 DEF NoRequest
      <4> QED
        BY <1>0, <2>1, <3>2, <4>1, <4>2 DEF Token, Executed
    <3> QED
      BY <3>1, <3>2
  <2>2. ASSUME NEW k \in Channels, NEW m \in DOMAIN answers'[k], NEW n \in DOMAIN answers'[k],
               answers'[k][m].call # 0, answers'[k][m].call = answers'[k][n].call
        PROVE  m = n
    <3>1. CASE k # ch
      BY <1>7, <2>2, <3>1 DEF IInv, Answered
    <3>2. CASE k = ch
      BY <1>8, <1>11, <2>2, <3>2 DEF IInv, Answered
    <3> QED
      BY <3>1, <3>2
  <2> QED
    BY <2>1, <2>2 DEF Answered
<1>16. Farewell'
  <2>1. ASSUME NEW k \in Channels, NEW n \in DOMAIN answers'[k], answers'[k][n].call = 0
        PROVE  /\ answers'[k][n].kind = "error" /\ k = "general" /\ process # "on"
               /\ n = Len(answers'[k])
    <3>1. k # ch
      BY <1>4, <1>8, <1>11, <2>1
    <3> QED
      BY <1>7, <2>1, <3>1 DEF IInv, Farewell
  <2>2. process # "on" => serving'["general"] = NoRequest
    BY <1>9 DEF IInv, Farewell, RpcAssumption
  <2> QED
    BY <1>0, <2>1, <2>2 DEF Farewell
<1>17. Orderly'
  <2> SUFFICES ASSUME NEW k \in Channels, ~behind[k]
               PROVE  /\ \A n \in DOMAIN requests[k] :
                           \/ requests[k][n].call = holder[k]
                           \/ (k = "general" /\ process # "on")
                      /\ serving'[k] # NoRequest => serving'[k].call = holder[k]
                      /\ \A n \in DOMAIN answers'[k] : answers'[k][n].call \in {0, holder[k]}
    BY <1>0 DEF Orderly
  <2>1. CASE k # ch
    BY <1>7, <1>9, <2>1 DEF IInv, Orderly
  <2>2. CASE k = ch
    <3>1. a.call = holder[ch]
      BY <1>3, <1>4, <2>2 DEF IInv, Orderly
    <3> QED
      BY <1>8, <1>9, <2>2, <3>1 DEF IInv, Orderly
  <2> QED
    BY <2>1, <2>2
<1>18. Told'
  BY <1>0 DEF IInv, Told, Executed
<1> QED
  BY <1>12, <1>13, <1>14, <1>15, <1>16, <1>17, <1>18 DEF IInv

LEMMA LeaveInv == ASSUME RpcAssumption, IInv, Leave PROVE IInv'
<1> DEFINE ch == "general"
           a  == [kind |-> "error", id |-> 0, call |-> 0]
<1>0. UNCHANGED <<call, numbers, holder, requests, serving, ran, behind>>
  BY DEF Leave
<1>1. Values
  BY TypeFacts DEF IInv
<1>2. ch \in Channels /\ a \in Responses
  BY DEF RpcAssumption, Responses
<1>3. /\ process = "on" /\ process' = "closing" /\ serving[ch] = NoRequest
      /\ answers' = [answers EXCEPT ![ch] = Append(answers[ch], a)]
  BY DEF Leave
<1>4. answers[ch] \in Seq(Responses)
  BY <1>1, <1>2 DEF Values
<1>5. a.call = 0 /\ a.kind = "error"
  OBVIOUS
<1> HIDE DEF ch, a
<1>6. /\ Append(answers[ch], a) \in Seq(Responses) /\ Len(answers[ch]) \in Nat
      /\ Len(Append(answers[ch], a)) = Len(answers[ch]) + 1
      /\ DOMAIN answers[ch] = 1..Len(answers[ch])
      /\ DOMAIN Append(answers[ch], a) = 1..(Len(answers[ch]) + 1)
      /\ \A n \in DOMAIN answers[ch] : Append(answers[ch], a)[n] = answers[ch][n]
      /\ Append(answers[ch], a)[Len(answers[ch]) + 1] = a
  BY <1>2, <1>4, AppendFacts
<1>7. /\ answers' \in [Channels -> Seq(Responses)] /\ answers'[ch] = Append(answers[ch], a)
      /\ \A k \in Channels : k # ch => answers'[k] = answers[k]
  BY <1>2, <1>3, <1>6 DEF IInv, Types
<1>8. \A k \in Channels : \A n \in DOMAIN answers'[k] :
        \/ n \in DOMAIN answers[k] /\ answers'[k][n] = answers[k][n]
        \/ k = ch /\ n = Len(answers'[k]) /\ answers'[k][n].call = 0
           /\ answers'[k][n].kind = "error"
  BY <1>5, <1>6, <1>7
\* Nobody has said farewell yet.
<1>9. \A k \in Channels : \A n \in DOMAIN answers[k] : answers[k][n].call # 0
  BY <1>3 DEF IInv, Farewell
<1>10. Types'
  BY <1>0, <1>3, <1>7 DEF IInv, Types
<1>11. Numbered' /\ Holding' /\ Asked' /\ Served' /\ Once'
  BY <1>0 DEF IInv, Numbered, Holding, Asked, Served, Once, Token, Executed
<1>12. Answered'
  <2>1. ASSUME NEW k \in Channels, NEW n \in DOMAIN answers'[k], answers'[k][n].call # 0
        PROVE  /\ Token(k, answers[k][n])' /\ Executed(k, answers[k][n].call)'
               /\ serving'[k].call # answers'[k][n].call
    <3>1. n \in DOMAIN answers[k] /\ answers'[k][n] = answers[k][n]
      BY <1>8, <2>1
    <3>2. /\ Token(k, answers[k][n]) /\ Executed(k, answers[k][n].call)
          /\ serving[k].call # answers[k][n].call
      BY <2>1, <3>1 DEF IInv, Answered
    <3> QED
      BY <1>0, <3>1, <3>2 DEF Token, Executed
  <2>2. ASSUME NEW k \in Channels, NEW m \in DOMAIN answers'[k], NEW n \in DOMAIN answers'[k],
               answers'[k][m].call # 0, answers'[k][m].call = answers'[k][n].call
        PROVE  m = n
    <3>1. /\ m \in DOMAIN answers[k] /\ answers'[k][m] = answers[k][m]
          /\ n \in DOMAIN answers[k] /\ answers'[k][n] = answers[k][n]
      BY <1>8, <2>2
    <3> QED
      BY <2>2, <3>1 DEF IInv, Answered
  <2> QED
    BY <2>1, <2>2 DEF Answered
<1>13. Farewell'
  BY <1>0, <1>3, <1>8, <1>9 DEF Farewell, ch
<1>14. Orderly'
  <2>1. ASSUME NEW k \in Channels, ~behind[k]
        PROVE  /\ \A n \in DOMAIN requests[k] :
                    requests[k][n].call = holder[k] \/ (k = "general" /\ process' # "on")
               /\ serving[k] # NoRequest => serving[k].call = holder[k]
               /\ \A n \in DOMAIN answers'[k] : answers'[k][n].call \in {0, holder[k]}
    BY <1>3, <1>8, <2>1 DEF IInv, Orderly
  <2> QED
    BY <1>0, <2>1 DEF Orderly
<1>15. Told'
  BY <1>0 DEF IInv, Told, Executed
<1> QED
  BY <1>10, <1>11, <1>12, <1>13, <1>14, <1>15 DEF IInv

LEMMA DieInv == ASSUME RpcAssumption, IInv, Die PROVE IInv'
<1>0. UNCHANGED <<call, numbers, holder, answers, ran, behind>>
  BY DEF Die
<1>1. /\ process # "dead" /\ process' = "dead"
      /\ requests' = [k \in Channels |-> <<>>] /\ serving' = [k \in Channels |-> NoRequest]
  BY DEF Die
<1>2. \A k \in Channels : DOMAIN requests'[k] = {} /\ serving'[k] = NoRequest
  BY <1>1
<1>3. Types'
  BY <1>0, <1>1 DEF IInv, Types
<1>4. Numbered' /\ Holding' /\ Once'
  BY <1>0 DEF IInv, Numbered, Holding, Once
<1>5. Asked' /\ Served'
  BY <1>2 DEF Asked, Served
<1>6. Answered'
  BY <1>0, <1>2 DEF IInv, Answered, Token, Executed, NoRequest
<1>7. Farewell'
  BY <1>0, <1>1, <1>2 DEF IInv, Farewell, RpcAssumption
<1>8. Orderly'
  BY <1>0, <1>2 DEF IInv, Orderly
<1>9. Told'
  BY <1>0 DEF IInv, Told, Executed
<1> QED
  BY <1>3, <1>4, <1>5, <1>6, <1>7, <1>8, <1>9 DEF IInv

-----------------------------------------------------------------------------
\* Theorems.

LEMMA StepInv == ASSUME RpcAssumption, IInv, [Next]_vars PROVE IInv'
<1>1. CASE Next
  <2>1. ASSUME NEW c \in Calls, Begin(c) \/ Lock(c) \/ Receive(c) \/ GiveUp(c) PROVE IInv'
    BY <2>1, BeginInv, LockInv, ReceiveInv, GiveUpInv
  <2>2. ASSUME NEW ch \in Channels, Serve(ch) \/ Answer(ch) PROVE IInv'
    BY <2>2, ServeInv, AnswerInv
  <2>3. CASE Leave
    BY <2>3, LeaveInv
  <2>4. CASE Die
    BY <2>4, DieInv
  <2> QED
    BY <1>1, <2>1, <2>2, <2>3, <2>4 DEF Next
<1>2. CASE UNCHANGED vars
  BY <1>2 DEF vars, IInv, Types, Numbered, Holding, Asked, Served, Answered, Farewell, Once,
              Orderly, Told, Token, Executed
<1> QED
  BY <1>1, <1>2

LEMMA Invariant == RpcAssumption => (Spec => []IInv)
<1> SUFFICES ASSUME RpcAssumption PROVE Spec => []IInv
  OBVIOUS
<1>1. Init => IInv
  BY InitInv
<1>2. IInv /\ [Next]_vars => IInv'
  BY StepInv
<1> QED
  BY <1>1, <1>2, PTL DEF Spec

LEMMA InvTypeOK == ASSUME IInv PROVE TypeOK
<1>1. Types /\ Values
  BY TypeFacts DEF IInv
<1>2. \A c \in Calls :
        /\ call[c].pc \in {"idle", "lock", "wait", "done"} /\ call[c].on \in Channels
        /\ call[c].id \in Nat
        /\ call[c].out.kind \in {"none", "result", "error", "mismatch", "unavailable"}
  BY <1>1 DEF Values, Places, Kinds
<1>3. serving \in [Channels -> [id : Nat, call : Calls \cup {0}]]
  <2>1. Requests \cup {NoRequest} \subseteq [id : Nat, call : Calls \cup {0}]
    BY DEF Requests, NoRequest
  <2> QED
    BY <1>1, <2>1 DEF Types
<1> QED
  BY <1>1, <1>2, <1>3 DEF Types, TypeOK

LEMMA InvAnswers == ASSUME IInv PROVE AnswersMatch
<1>1. ASSUME NEW c \in Calls, call[c].out.kind = "result"
      PROVE  \E n \in DOMAIN ran[call[c].on] :
               \A m \in DOMAIN ran[call[c].on] : ran[call[c].on][m] = c <=> m = n
  <2>1. call[c].on \in Channels
    BY TypeFacts DEF IInv, Values
  <2>2. PICK i \in DOMAIN ran[call[c].on] : ran[call[c].on][i] = c
    BY <1>1 DEF IInv, Told, Executed
  <2> QED
    BY <2>1, <2>2 DEF IInv, Once
<1> QED
  BY <1>1 DEF IInv, Told, AnswersMatch

\* The types of the calls, the pipes and the process
\* (nero_control_server.py:99-181, 195-272).
THEOREM TypeCorrect == RpcAssumption => (Spec => []TypeOK)
BY Invariant, InvTypeOK, PTL

\* However many calls give up and whenever the process ends: a result is that
\* of the caller's own request, which was executed once, and a channel on which
\* nobody has given up has neither mismatches nor errors of somebody else
\* (nero_control_server.py:99-181, 206-272).
THEOREM AnswersAreOwn == RpcAssumption => (Spec => []AnswersMatch)
BY Invariant, InvAnswers, PTL

-----------------------------------------------------------------------------
\* The services of the operating system and their lock.

CONSTANTS Windows, MaxService, MaxHelper, Starts
VARIABLES svc, hw, lock, ports, helpers, dog, starts, robbed, late

L == INSTANCE Restart

Steps == {"none", "create", "write", "read", "stale", "bind", "serve", "closing", "unlock", "exit",
          "ended", "dead"}
Service == [pc : Steps, tries : Nat, pending : BOOLEAN]

ServiceTypes ==
  /\ svc \in [L!Services -> Service]
  /\ hw \in [L!Services -> {"none", "on", "known", "gone"}]
  /\ lock \in [owner : Nat, done : BOOLEAN]
  /\ robbed \in BOOLEAN /\ late \in BOOLEAN

\* A service starts no backend before it listens.
NotYet == {"none", "create", "write", "read", "stale", "bind"}
Starting == \A p \in L!Services : svc[p].pc \in NotYet => hw[p] = "none"

\* Whoever has gone past the lock, and whoever lives with a backend, owns the lock.
Past == {"write", "bind", "serve", "closing", "unlock"}
Holds(p) == svc[p].pc \in Past \/ (L!Lives(p) /\ L!Runs(p))
Locked == ~robbed /\ ~late => \A p \in L!Services : Holds(p) => lock.owner = p

\* A service gives its lock back when its backend is gone.
Emptied == ~late => \A p \in L!Services : svc[p].pc = "unlock" => ~L!Runs(p)

OwnerInv == ServiceTypes /\ Starting /\ Locked /\ Emptied

LEMMA OwnerInit == ASSUME L!RestartAssumption, L!Init PROVE OwnerInv
<1>1. 1 \in L!Services
  BY SMT DEF L!RestartAssumption, L!Services
<1>2. ServiceTypes
  <2>1. \A p \in L!Services : svc[p] \in Service /\ hw[p] \in {"none", "known"}
    <3>1. L!Fresh \in Service
      BY DEF L!Fresh, Service, Steps
    <3>2. [L!Fresh EXCEPT !.pc = "serve"] \in Service /\ L!Unborn \in Service
      BY <3>1 DEF Service, Steps, L!Unborn
    <3> QED
      BY <3>2 DEF L!Init
  <2>2. lock = [owner |-> 1, done |-> TRUE]
    BY DEF L!Init
  <2>3. lock \in [owner : Nat, done : BOOLEAN]
    BY <2>2
  <2>4. /\ svc \in [L!Services -> Service]
        /\ hw \in [L!Services -> {"none", "on", "known", "gone"}]
    BY <2>1 DEF L!Init
  <2> QED
    BY <2>3, <2>4 DEF L!Init, ServiceTypes
<1>3. ASSUME NEW p \in L!Services, p # 1 PROVE svc[p].pc = "none" /\ hw[p] = "none"
  BY <1>3 DEF L!Init, L!Unborn, L!Fresh
<1>4. svc[1].pc = "serve" /\ hw[1] = "known" /\ lock.owner = 1
  BY <1>1 DEF L!Init, L!Fresh
<1> QED
  BY <1>1, <1>2, <1>3, <1>4 DEF OwnerInv, Starting, Locked, Emptied, Holds, Past, NotYet, L!Lives,
    L!Runs

\* A service that goes on, and nothing else.
LEMMA PlaceFacts ==
  ASSUME ServiceTypes, NEW p \in L!Services, NEW pc \in Steps, L!Place(p, pc)
  PROVE  /\ svc' \in [L!Services -> Service] /\ svc'[p].pc = pc
         /\ \A q \in L!Services : q # p => svc'[q] = svc[q]
  BY DEF ServiceTypes, L!Place, Service

\* A killed process is dead, and a backend that ends was on.
LEMMA GoneFacts ==
  ASSUME ServiceTypes, NEW S
  PROVE  /\ L!Gone(S) \in [L!Services -> {"none", "on", "known", "gone"}]
         /\ \A q \in L!Services : L!Gone(S)[q] = hw[q] \/ (hw[q] # "none" /\ L!Gone(S)[q] = "gone")
         /\ \A q \in L!Services \cap S : L!Gone(S)[q] \in {"none", "gone"}
  BY DEF ServiceTypes, L!Gone

LEMMA KilledKept ==
  ASSUME OwnerInv, NEW S, L!Killed(S), UNCHANGED <<lock, robbed, late>>
  PROVE  OwnerInv'
<1>1. ServiceTypes
  BY DEF OwnerInv
<1>2. /\ svc' \in [L!Services -> Service]
      /\ \A q \in L!Services : svc'[q] = svc[q] \/ svc'[q].pc = "dead"
  BY <1>1 DEF L!Killed, ServiceTypes, Service, Steps
<1>3. /\ hw' \in [L!Services -> {"none", "on", "known", "gone"}]
      /\ \A q \in L!Services : hw'[q] = hw[q] \/ (hw[q] # "none" /\ hw'[q] = "gone")
  BY <1>1, GoneFacts DEF L!Killed, ServiceTypes
<1>4. ServiceTypes'
  BY <1>1, <1>2, <1>3 DEF ServiceTypes
<1> QED
  BY <1>2, <1>3, <1>4 DEF OwnerInv, Starting, Locked, Emptied, Holds, Past, NotYet, L!Lives,
    L!Runs

\* A step of one service that leaves the lock alone.
LEMMA StepKept ==
  ASSUME OwnerInv, NEW p \in L!Services, svc' \in [L!Services -> Service],
         hw' \in [L!Services -> {"none", "on", "known", "gone"}],
         \A q \in L!Services : q # p => svc'[q].pc = svc[q].pc /\ hw'[q] = hw[q],
         UNCHANGED <<lock, robbed>>, late' \in BOOLEAN, late => late',
         svc'[p].pc \in NotYet => hw'[p] = "none",
         ~late' => (svc'[p].pc = "unlock" => ~(hw'[p] \in {"on", "known"})),
         ~robbed /\ ~late' /\ Holds(p)' => Holds(p)
  PROVE  OwnerInv'
<1>1. ServiceTypes'
  BY DEF OwnerInv, ServiceTypes
<1>2. Starting'
  BY DEF OwnerInv, Starting
<1>3. \A q \in L!Services : q # p => Holds(q)' = Holds(q)
  BY DEF Holds, L!Lives, L!Runs
<1>4. Locked'
  BY <1>3 DEF OwnerInv, Locked
<1>5. Emptied'
  BY DEF OwnerInv, Emptied, L!Runs
<1> QED
  BY <1>1, <1>2, <1>4, <1>5 DEF OwnerInv

\* A step that changes no service.
LEMMA SameServices ==
  ASSUME OwnerInv, UNCHANGED <<svc, hw, lock, robbed, late>>
  PROVE  OwnerInv'
  BY DEF OwnerInv, ServiceTypes, Starting, Locked, Emptied, Holds, L!Lives, L!Runs

LEMMA BeginsKept ==
  ASSUME OwnerInv, L!Begins, UNCHANGED <<hw, lock, robbed, late>>
  PROVE  OwnerInv'
<1>1. PICK p \in L!Services : ~L!Born(p) /\ svc' = [svc EXCEPT ![p] = L!Fresh]
  BY DEF L!Begins
<1>2. /\ svc' \in [L!Services -> Service] /\ svc'[p].pc = "create"
      /\ \A q \in L!Services : q # p => svc'[q] = svc[q]
  BY <1>1 DEF OwnerInv, ServiceTypes, L!Fresh, Service, Steps
<1>3. hw[p] = "none"
  BY <1>1 DEF OwnerInv, Starting, NotYet, L!Born
<1>4. ~Holds(p)'
  BY <1>2, <1>3 DEF Holds, Past, L!Runs
<1> QED
  BY <1>2, <1>3, <1>4, StepKept DEF OwnerInv, ServiceTypes

LEMMA LockCreateKept ==
  ASSUME OwnerInv, NEW p \in L!Services, L!LockCreate(p)
  PROVE  OwnerInv'
<1>0. /\ svc[p].pc = "create" /\ hw[p] = "none" /\ UNCHANGED <<hw, robbed, late>>
      /\ hw \in [L!Services -> {"none", "on", "known", "gone"}] /\ late \in BOOLEAN
  BY DEF OwnerInv, ServiceTypes, Starting, NotYet, L!LockCreate
<1>1. CASE lock.owner # 0
  <2>1. L!Place(p, "read") /\ UNCHANGED lock
    BY <1>1 DEF L!LockCreate
  <2>2. /\ svc' \in [L!Services -> Service] /\ svc'[p].pc = "read"
        /\ \A q \in L!Services : q # p => svc'[q] = svc[q]
    BY <2>1, PlaceFacts DEF OwnerInv, Steps
  <2>3. ~Holds(p)'
    BY <2>2, <1>0 DEF Holds, Past, L!Runs
  <2> QED
    BY <1>0, <2>1, <2>2, <2>3, StepKept
<1>2. CASE lock.owner = 0
  <2>1. L!Place(p, "write") /\ lock' = [owner |-> p, done |-> FALSE]
    BY <1>2 DEF L!LockCreate
  <2>2. /\ svc' \in [L!Services -> Service] /\ svc'[p].pc = "write"
        /\ \A q \in L!Services : q # p => svc'[q] = svc[q]
    BY <2>1, PlaceFacts DEF OwnerInv, Steps
  <2>3. ServiceTypes'
    BY <1>0, <2>1, <2>2 DEF OwnerInv, ServiceTypes, L!Services
  <2>4. Starting' /\ Emptied'
    BY <1>0, <2>2 DEF OwnerInv, Starting, Emptied, L!Runs
  <2>5. ASSUME ~robbed, ~late, NEW q \in L!Services, q # p PROVE ~Holds(q)'
    <3>1. Holds(q)' <=> Holds(q)
      BY <2>2, <2>5, <1>0 DEF Holds, L!Lives, L!Runs
    <3>2. ~Holds(q)
      BY <2>5, <1>2 DEF OwnerInv, Locked, L!Services
    <3> QED
      BY <3>1, <3>2
  <2>6. Locked'
    BY <2>1, <2>5, <1>0 DEF Locked
  <2> QED
    BY <2>3, <2>4, <2>6 DEF OwnerInv
<1> QED
  BY <1>1, <1>2

LEMMA LockWriteKept ==
  ASSUME OwnerInv, NEW p \in L!Services, L!LockWrite(p)
  PROVE  OwnerInv'
<1>1. /\ svc[p].pc = "write" /\ hw[p] = "none" /\ UNCHANGED <<hw, robbed, late>>
      /\ L!Place(p, "bind")
  BY DEF OwnerInv, ServiceTypes, Starting, NotYet, L!LockWrite
<1>2. /\ svc' \in [L!Services -> Service] /\ svc'[p].pc = "bind"
      /\ \A q \in L!Services : q # p => svc'[q] = svc[q]
  BY <1>1, PlaceFacts DEF OwnerInv, Steps
<1>3. lock' \in [owner : Nat, done : BOOLEAN] /\ lock'.owner = lock.owner
  BY DEF OwnerInv, ServiceTypes, L!LockWrite
<1>4. ServiceTypes'
  BY <1>1, <1>2, <1>3 DEF OwnerInv, ServiceTypes
<1>5. Starting' /\ Emptied'
  BY <1>1, <1>2 DEF OwnerInv, Starting, Emptied, L!Runs
<1>6. \A q \in L!Services : Holds(q)' => Holds(q)
  BY <1>1, <1>2 DEF Holds, Past, L!Lives, L!Runs
<1> QED
  BY <1>1, <1>3, <1>4, <1>5, <1>6 DEF OwnerInv, Locked

LEMMA LockReadKept ==
  ASSUME OwnerInv, NEW p \in L!Services, L!LockRead(p)
  PROVE  OwnerInv'
<1>1. /\ svc[p].pc = "read" /\ hw[p] = "none" /\ UNCHANGED <<hw, lock, robbed, late>>
      /\ hw \in [L!Services -> {"none", "on", "known", "gone"}] /\ late \in BOOLEAN
  BY DEF OwnerInv, ServiceTypes, Starting, NotYet, L!LockRead
<1>2. PICK pc \in {"dead", "stale"} : L!Place(p, pc)
  BY DEF L!LockRead
<1>3. /\ svc' \in [L!Services -> Service] /\ svc'[p].pc = pc
      /\ \A q \in L!Services : q # p => svc'[q] = svc[q]
  BY <1>2, PlaceFacts DEF OwnerInv, Steps
<1>4. ~Holds(p)'
  BY <1>1, <1>3 DEF Holds, Past, L!Runs
<1> QED
  BY <1>1, <1>3, <1>4, StepKept

\* One attempt more is made, or the start is given up.
LEMMA Removed ==
  ASSUME ServiceTypes, NEW p \in L!Services,
         svc' = [svc EXCEPT ![p].pc = IF svc[p].tries = 0 THEN "create" ELSE "dead",
                            ![p].tries = svc[p].tries + 1]
  PROVE  /\ svc' \in [L!Services -> Service] /\ svc'[p].tries = svc[p].tries + 1
         /\ svc'[p].pc = IF svc[p].tries = 0 THEN "create" ELSE "dead"
         /\ svc'[p].pending = svc[p].pending
         /\ \A q \in L!Services : q # p => svc'[q] = svc[q]
<1> DEFINE pc == IF svc[p].tries = 0 THEN "create" ELSE "dead"
           n == svc[p].tries + 1
<1>1. svc[p] \in Service /\ pc \in Steps
  BY DEF ServiceTypes, Steps
<1>2. n \in Nat
  BY <1>1, SMT DEF Service
<1>3. svc' = [svc EXCEPT ![p].pc = pc, ![p].tries = n]
  OBVIOUS
<1> HIDE DEF pc, n
<1> DEFINE r == [svc[p] EXCEPT !.pc = pc, !.tries = n]
<1>4. r \in Service /\ r.pc = pc /\ r.tries = n /\ r.pending = svc[p].pending
  BY <1>1, <1>2 DEF Service
<1>5. svc' = [svc EXCEPT ![p] = r] /\ svc \in [L!Services -> Service]
  BY <1>3 DEF ServiceTypes
<1> HIDE DEF r
<1>6. /\ svc' \in [L!Services -> Service] /\ svc'[p] = r
      /\ \A q \in L!Services : q # p => svc'[q] = svc[q]
  BY <1>4, <1>5
<1> QED
  BY <1>4, <1>6 DEF pc, n

LEMMA LockRemoveKept ==
  ASSUME OwnerInv, NEW p \in L!Services, L!LockRemove(p)
  PROVE  OwnerInv'
<1>1. /\ svc[p].pc = "stale" /\ hw[p] = "none" /\ UNCHANGED <<hw, late>>
      /\ hw \in [L!Services -> {"none", "on", "known", "gone"}] /\ late \in BOOLEAN
  BY DEF OwnerInv, ServiceTypes, Starting, NotYet, L!LockRemove
<1>2. CASE L!Refused
  <2>1. L!Place(p, "dead") /\ UNCHANGED <<lock, robbed>>
    BY <1>2 DEF L!LockRemove
  <2>2. /\ svc' \in [L!Services -> Service] /\ svc'[p].pc = "dead"
        /\ \A q \in L!Services : q # p => svc'[q] = svc[q]
    BY <2>1, PlaceFacts DEF OwnerInv, Steps
  <2>3. ~Holds(p)'
    BY <2>2, <1>1 DEF Holds, Past, L!Runs
  <2> QED
    BY <1>1, <2>1, <2>2, <2>3, StepKept, Zenon DEF NotYet
<1>3. CASE ~L!Refused
  <2>1. /\ lock' = L!NoLock /\ robbed' = (robbed \/ (lock.owner # 0 /\ L!Lives(lock.owner)))
        /\ svc' = [svc EXCEPT ![p].pc = IF svc[p].tries = 0 THEN "create" ELSE "dead",
                              ![p].tries = svc[p].tries + 1]
    BY <1>3 DEF L!LockRemove
  <2>2. /\ svc' \in [L!Services -> Service] /\ svc'[p].pc \in {"create", "dead"}
        /\ \A q \in L!Services : q # p => svc'[q] = svc[q]
    BY <2>1, Removed DEF OwnerInv
  <2>3. ServiceTypes'
    <3>1. lock' \in [owner : Nat, done : BOOLEAN]
      BY <2>1 DEF OwnerInv, ServiceTypes, L!NoLock
    <3>2. robbed' \in BOOLEAN
      BY <2>1
    <3> QED
      BY <1>1, <2>2, <3>1, <3>2 DEF ServiceTypes
  <2>4. Starting' /\ Emptied'
    BY <1>1, <2>2 DEF OwnerInv, Starting, Emptied, L!Runs
  <2>5. ASSUME ~robbed', ~late, NEW q \in L!Services PROVE ~Holds(q)'
    <3>1. Holds(q)' => Holds(q)
      BY <2>2, <1>1 DEF Holds, Past, L!Lives, L!Runs
    <3>2. Holds(q) => lock.owner = q
      BY <2>5, <2>1 DEF OwnerInv, Locked
    <3>3. Holds(q) => L!Lives(q)
      BY DEF Holds, Past, L!Lives
    <3>4. q # 0
      BY SMT DEF L!Services
    <3> QED
      BY <3>1, <3>2, <3>3, <3>4, <2>5, <2>1
  <2>6. Locked'
    BY <2>5, <1>1 DEF Locked
  <2> QED
    BY <2>3, <2>4, <2>6 DEF OwnerInv
<1> QED
  BY <1>2, <1>3

\* release() takes the lock of no other.
LEMMA ReleasedFacts ==
  ASSUME OwnerInv, NEW p \in L!Services, lock' = L!Released(p), UNCHANGED <<hw, robbed, late>>,
         svc' \in [L!Services -> Service], svc'[p].pc \in {"dead", "exit"},
         svc'[p].pc = "exit" /\ ~late => ~L!Runs(p),
         \A q \in L!Services : q # p => svc'[q] = svc[q]
  PROVE  OwnerInv'
<1>1. lock' \in [owner : Nat, done : BOOLEAN]
  BY SMT DEF OwnerInv, ServiceTypes, L!Released, L!NoLock
<1>2. \A q \in L!Services : q # p /\ lock.owner = q => lock'.owner = q
  BY DEF L!Released
<1>3. ServiceTypes'
  BY <1>1 DEF OwnerInv, ServiceTypes
<1>4. Starting' /\ Emptied'
  BY DEF OwnerInv, Starting, Emptied, NotYet, L!Runs
<1>5. ~late => ~Holds(p)'
  BY DEF Holds, Past, L!Lives, L!Runs
<1>6. \A q \in L!Services : q # p => (Holds(q)' <=> Holds(q))
  BY DEF Holds, L!Lives, L!Runs
<1>7. Locked'
  BY <1>2, <1>5, <1>6 DEF OwnerInv, Locked
<1> QED
  BY <1>3, <1>4, <1>7 DEF OwnerInv

LEMMA BindKept ==
  ASSUME OwnerInv, NEW p \in L!Services, L!Bind(p)
  PROVE  OwnerInv'
<1>1. /\ svc[p].pc = "bind" /\ hw[p] = "none" /\ UNCHANGED <<hw, robbed, late>>
      /\ hw \in [L!Services -> {"none", "on", "known", "gone"}] /\ late \in BOOLEAN
  BY DEF OwnerInv, ServiceTypes, Starting, NotYet, L!Bind
<1>2. CASE ports # {} /\ ~Windows
  <2>1. L!Place(p, "dead") /\ lock' = L!Released(p)
    BY <1>2 DEF L!Bind
  <2>2. /\ svc' \in [L!Services -> Service] /\ svc'[p].pc = "dead"
        /\ \A q \in L!Services : q # p => svc'[q] = svc[q]
    BY <2>1, PlaceFacts DEF OwnerInv, Steps
  <2> QED
    BY <1>1, <2>1, <2>2, ReleasedFacts
<1>3. CASE ~(ports # {} /\ ~Windows)
  <2>1. L!Place(p, "serve") /\ UNCHANGED lock
    BY <1>3 DEF L!Bind
  <2>2. /\ svc' \in [L!Services -> Service] /\ svc'[p].pc = "serve"
        /\ \A q \in L!Services : q # p => svc'[q] = svc[q]
    BY <2>1, PlaceFacts DEF OwnerInv, Steps
  <2>3. Holds(p)
    BY <1>1 DEF Holds, Past
  <2> QED
    BY <1>1, <2>1, <2>2, <2>3, StepKept DEF NotYet
<1> QED
  BY <1>2, <1>3

LEMMA SpawnKept ==
  ASSUME OwnerInv, NEW p \in L!Services, L!Spawn(p)
  PROVE  OwnerInv'
<1>1. /\ svc[p].pc \in {"serve", "closing", "unlock"} /\ hw' = [hw EXCEPT ![p] = "on"]
      /\ late' = (late \/ svc[p].pc # "serve") /\ UNCHANGED <<svc, lock, robbed>>
  BY DEF L!Spawn
<1>2. /\ hw' \in [L!Services -> {"none", "on", "known", "gone"}]
      /\ \A q \in L!Services : q # p => hw'[q] = hw[q]
  BY <1>1 DEF OwnerInv, ServiceTypes
<1>3. Holds(p) /\ svc[p].pc \notin NotYet
  BY <1>1 DEF Holds, Past, NotYet
<1>4. /\ late' \in BOOLEAN /\ (late => late') /\ (~late' => svc'[p].pc # "unlock")
      /\ svc' \in [L!Services -> Service]
  BY <1>1 DEF OwnerInv, ServiceTypes
<1> QED
  BY <1>1, <1>2, <1>3, <1>4, StepKept

\* A service whose place stays has as much of a backend as before.
LEMMA KnownKept ==
  ASSUME OwnerInv, NEW p \in L!Services, L!Known(p)
  PROVE  OwnerInv'
<1>1. /\ hw[p] = "on" /\ hw' = [hw EXCEPT ![p] = "known"] /\ L!Lives(p)
      /\ UNCHANGED <<svc, lock, robbed, late>>
  BY DEF L!Known
<1>2. /\ hw' \in [L!Services -> {"none", "on", "known", "gone"}]
      /\ \A q \in L!Services : q # p => hw'[q] = hw[q]
  BY <1>1 DEF OwnerInv, ServiceTypes
<1>3. Holds(p) /\ svc[p].pc \notin NotYet /\ (~late => svc[p].pc # "unlock")
  BY <1>1 DEF OwnerInv, Starting, Emptied, Holds, L!Runs
<1>4. svc' \in [L!Services -> Service] /\ late' \in BOOLEAN
  BY <1>1 DEF OwnerInv, ServiceTypes
<1> QED
  BY <1>1, <1>2, <1>3, <1>4, StepKept

LEMMA OrphanKept ==
  ASSUME OwnerInv, NEW p \in L!Services, L!Orphan(p)
  PROVE  OwnerInv'
<1>1. /\ svc[p].pc = "dead" /\ hw' = L!Gone({p}) /\ UNCHANGED <<svc, lock, robbed, late>>
  BY DEF L!Orphan
<1>2. /\ hw' \in [L!Services -> {"none", "on", "known", "gone"}]
      /\ \A q \in L!Services : q # p => hw'[q] = hw[q]
  BY <1>1 DEF OwnerInv, ServiceTypes, L!Gone
<1>3. ~Holds(p)' /\ svc[p].pc \notin NotYet
  BY <1>1 DEF Holds, Past, L!Lives, NotYet
<1>4. svc' \in [L!Services -> Service] /\ late' \in BOOLEAN
  BY <1>1 DEF OwnerInv, ServiceTypes
<1> QED
  BY <1>1, <1>2, <1>3, <1>4, StepKept

LEMMA CloseServerKept ==
  ASSUME OwnerInv, NEW p \in L!Services, L!CloseServer(p)
  PROVE  OwnerInv'
<1>1. /\ svc[p].pc = "serve" /\ L!Place(p, "closing") /\ UNCHANGED <<hw, lock, robbed, late>>
      /\ hw \in [L!Services -> {"none", "on", "known", "gone"}] /\ late \in BOOLEAN
  BY DEF L!CloseServer, OwnerInv, ServiceTypes
<1>2. /\ svc' \in [L!Services -> Service] /\ svc'[p].pc = "closing"
      /\ \A q \in L!Services : q # p => svc'[q] = svc[q]
  BY <1>1, PlaceFacts DEF OwnerInv, Steps
<1>3. Holds(p)
  BY <1>1 DEF Holds, Past
<1> QED
  BY <1>1, <1>2, <1>3, StepKept DEF NotYet

LEMMA CloseBackendKept ==
  ASSUME OwnerInv, NEW p \in L!Services, L!CloseBackend(p)
  PROVE  OwnerInv'
<1>1. /\ svc[p].pc = "closing" /\ UNCHANGED <<lock, robbed>> /\ Holds(p)
      /\ hw \in [L!Services -> {"none", "on", "known", "gone"}] /\ late \in BOOLEAN
  BY DEF L!CloseBackend, OwnerInv, ServiceTypes, Holds, Past
<1>2. CASE L!Place(p, "exit") /\ UNCHANGED <<hw, late>>
  <2>1. /\ svc' \in [L!Services -> Service] /\ svc'[p].pc = "exit"
        /\ \A q \in L!Services : q # p => svc'[q] = svc[q]
    BY <1>2, PlaceFacts DEF OwnerInv, Steps
  <2> QED
    BY <1>1, <1>2, <2>1, StepKept DEF NotYet
<1>3. CASE /\ L!Place(p, "unlock")
           /\ IF hw[p] = "on" THEN late' = TRUE /\ UNCHANGED hw
                              ELSE hw' = L!Gone({p}) /\ UNCHANGED late
  <2>1. /\ svc' \in [L!Services -> Service] /\ svc'[p].pc = "unlock"
        /\ \A q \in L!Services : q # p => svc'[q] = svc[q]
    BY <1>3, PlaceFacts DEF OwnerInv, Steps
  <2>2. /\ hw' \in [L!Services -> {"none", "on", "known", "gone"}]
        /\ \A q \in L!Services : q # p => hw'[q] = hw[q]
        /\ ~late' => hw'[p] \in {"none", "gone"}
    BY <1>1, <1>3 DEF L!Gone
  <2>3. late' \in BOOLEAN /\ (late => late')
    BY <1>1, <1>3
  <2> QED
    BY <1>1, <2>1, <2>2, <2>3, StepKept DEF NotYet
<1> QED
  BY <1>2, <1>3 DEF L!CloseBackend

LEMMA CloseUnlockKept ==
  ASSUME OwnerInv, NEW p \in L!Services, L!CloseUnlock(p)
  PROVE  OwnerInv'
<1>1. /\ svc[p].pc = "unlock" /\ L!Place(p, "exit") /\ lock' = L!Released(p)
      /\ UNCHANGED <<hw, robbed, late>>
  BY DEF L!CloseUnlock
<1>2. /\ svc' \in [L!Services -> Service] /\ svc'[p].pc = "exit"
      /\ \A q \in L!Services : q # p => svc'[q] = svc[q]
  BY <1>1, PlaceFacts DEF OwnerInv, Steps
<1>3. ~late => ~L!Runs(p)
  BY <1>1 DEF OwnerInv, Emptied
<1> QED
  BY <1>1, <1>2, <1>3, ReleasedFacts

LEMMA ExitKept ==
  ASSUME OwnerInv, NEW p \in L!Services, L!Exit(p)
  PROVE  OwnerInv'
<1>1. /\ L!Place(p, "ended") /\ UNCHANGED <<hw, lock, robbed, late>>
      /\ hw \in [L!Services -> {"none", "on", "known", "gone"}] /\ late \in BOOLEAN
  BY DEF L!Exit, OwnerInv, ServiceTypes
<1>2. /\ svc' \in [L!Services -> Service] /\ svc'[p].pc = "ended"
      /\ \A q \in L!Services : q # p => svc'[q] = svc[q]
  BY <1>1, PlaceFacts DEF OwnerInv, Steps
<1>3. ~Holds(p)'
  BY <1>2 DEF Holds, Past, L!Lives
<1> QED
  BY <1>1, <1>2, <1>3, StepKept DEF NotYet

LEMMA ServiceResetKept ==
  ASSUME OwnerInv, NEW p \in L!Services, L!ServiceReset(p)
  PROVE  OwnerInv'
<1>1. /\ svc' = [svc EXCEPT ![p].pending = TRUE] /\ UNCHANGED <<hw, lock, robbed, late>>
  BY DEF L!ServiceReset
<1>2. svc' \in [L!Services -> Service] /\ \A q \in L!Services : svc'[q].pc = svc[q].pc
  BY <1>1 DEF OwnerInv, ServiceTypes, Service
<1> QED
  BY <1>1, <1>2 DEF OwnerInv, ServiceTypes, Starting, Locked, Emptied, Holds, L!Lives, L!Runs

LEMMA ServiceExitKept ==
  ASSUME OwnerInv, NEW p \in L!Services, L!ServiceExit(p)
  PROVE  OwnerInv'
<1>1. /\ L!Place(p, "dead") /\ UNCHANGED <<hw, lock, robbed, late>>
      /\ hw \in [L!Services -> {"none", "on", "known", "gone"}] /\ late \in BOOLEAN
  BY DEF L!ServiceExit, OwnerInv, ServiceTypes
<1>2. /\ svc' \in [L!Services -> Service] /\ svc'[p].pc = "dead"
      /\ \A q \in L!Services : q # p => svc'[q] = svc[q]
  BY <1>1, PlaceFacts DEF OwnerInv, Steps
<1>3. ~Holds(p)'
  BY <1>2 DEF Holds, Past, L!Lives
<1> QED
  BY <1>1, <1>2, <1>3, StepKept DEF NotYet

LEMMA HelperWorkersKept ==
  ASSUME OwnerInv, NEW h \in L!Helpers, L!HelperWorkers(h)
  PROVE  OwnerInv'
<1>1. UNCHANGED <<svc, lock, robbed, late>> /\ (hw' = hw \/ hw' = L!Gone(L!Services))
  BY DEF L!HelperWorkers
<1>2. /\ hw' \in [L!Services -> {"none", "on", "known", "gone"}]
      /\ \A q \in L!Services : hw'[q] = hw[q] \/ (hw[q] # "none" /\ hw'[q] = "gone")
  BY <1>1, GoneFacts DEF OwnerInv, ServiceTypes
<1> QED
  BY <1>1, <1>2 DEF OwnerInv, ServiceTypes, Starting, Locked, Emptied, Holds, L!Lives, L!Runs

\* The reset removes a lock under its owner, and says so.
LEMMA HelperUnlinkKept ==
  ASSUME OwnerInv, NEW h \in L!Helpers, L!HelperUnlink(h)
  PROVE  OwnerInv'
<1>1. /\ UNCHANGED <<svc, hw, late>> /\ lock' \in {lock, L!NoLock}
      /\ robbed' = (robbed \/ (lock' # lock /\ L!Lives(lock.owner)))
  BY DEF L!HelperUnlink
<1>2. lock' \in [owner : Nat, done : BOOLEAN] /\ robbed' \in BOOLEAN
  <2>1. robbed' \in BOOLEAN
    BY <1>1 DEF OwnerInv, ServiceTypes
  <2>2. L!NoLock \in [owner : Nat, done : BOOLEAN]
    BY DEF L!NoLock
  <2> QED
    BY <1>1, <2>1, <2>2 DEF OwnerInv, ServiceTypes
<1>3. ServiceTypes' /\ Starting' /\ Emptied'
  BY <1>1, <1>2 DEF OwnerInv, ServiceTypes, Starting, Emptied, L!Runs
<1>4. ASSUME ~robbed', ~late, NEW q \in L!Services, Holds(q) PROVE lock'.owner = q
  <2>1. lock.owner = q /\ L!Lives(q)
    BY <1>1, <1>4 DEF OwnerInv, Locked, Holds, Past, L!Lives
  <2> QED
    BY <1>1, <1>4, <2>1
<1>5. Locked'
  BY <1>1, <1>4 DEF Locked, Holds, L!Lives, L!Runs
<1> QED
  BY <1>3, <1>5 DEF OwnerInv

LEMMA OwnerKept == ASSUME OwnerInv, [L!Next]_(L!vars) PROVE OwnerInv'
<1>1. CASE UNCHANGED L!vars
  BY <1>1, SameServices DEF L!vars
<1>2. CASE L!UserStart
  BY <1>2, BeginsKept DEF L!UserStart
<1>3. ASSUME NEW p \in L!Services,
             \/ L!Orphan(p) \/ L!LockCreate(p) \/ L!LockWrite(p) \/ L!LockRead(p)
             \/ L!LockRemove(p) \/ L!Bind(p) \/ L!Spawn(p) \/ L!Known(p) \/ L!CloseServer(p)
             \/ L!CloseBackend(p) \/ L!CloseUnlock(p) \/ L!Exit(p) \/ L!ServiceReset(p)
             \/ L!ServiceExit(p)
      PROVE  OwnerInv'
  BY <1>3, OrphanKept, LockCreateKept, LockWriteKept, LockReadKept, LockRemoveKept, BindKept,
    SpawnKept, KnownKept, CloseServerKept, CloseBackendKept, CloseUnlockKept, ExitKept,
    ServiceResetKept, ServiceExitKept
<1>4. CASE L!DogReset \/ L!DogClear
  BY <1>4, SameServices DEF L!DogReset, L!DogClear
<1>5. CASE L!DogKill
  BY <1>5, KilledKept DEF L!DogKill
<1>6. ASSUME NEW h \in L!Helpers, L!HelperOld(h) \/ L!HelperServices(h) \/ L!HelperClean(h)
      PROVE  OwnerInv'
  BY <1>6, KilledKept DEF L!HelperOld, L!HelperServices, L!HelperClean
<1>7. ASSUME NEW h \in L!Helpers, L!HelperCheck(h) PROVE OwnerInv'
  BY <1>7, SameServices DEF L!HelperCheck
<1>8. ASSUME NEW h \in L!Helpers, L!HelperStart(h) PROVE OwnerInv'
  BY <1>8, BeginsKept DEF L!HelperStart
<1> QED
  BY <1>1, <1>2, <1>3, <1>4, <1>5, <1>6, <1>7, <1>8, HelperWorkersKept, HelperUnlinkKept DEF L!Next

\* At most one living service has a backend: it owns the lock, and the lock has one owner.
LEMMA OwnerIsOne == ASSUME OwnerInv PROVE L!OneOwner
<1>1. ~robbed /\ ~late => \A p \in L!Owners : p = lock.owner
  BY DEF OwnerInv, Locked, Holds, L!Owners
<1> QED
  BY <1>1 DEF L!OneOwner

\* One living service at most has a backend, on either platform, however many services and helpers
\* there are and however resets overlap, unless a lock was removed under its owner or a service was
\* closed before its backend was known (instance_lock.py:22-110, nero_control_server.py:1554-1637).
THEOREM ServiceIsAlone == L!RestartAssumption => (L!Spec => []L!OneOwner)
<1>1. L!RestartAssumption /\ L!Init => OwnerInv
  BY OwnerInit
<1>2. OwnerInv /\ [L!Next]_(L!vars) => OwnerInv'
  BY OwnerKept
<1>3. OwnerInv => L!OneOwner
  BY OwnerIsOne
<1> QED
  BY <1>1, <1>2, <1>3, PTL DEF L!Spec

\* Resets that overlap: what is left when they are over.

HelperPlaces == {"none", "old", "services", "workers", "clean", "unlink", "start", "done", "failed"}

ResetTypes ==
  /\ helpers \in [L!Helpers -> [pc : HelperPlaces, old : Nat]]
  /\ dog \in [pending : BOOLEAN, kill : SUBSET L!Services, clear : BOOLEAN]

Toils(h) == helpers[h].pc \in {"old", "services", "workers", "clean", "unlink", "start"}
Working  == \E h \in L!Helpers : Toils(h)

\* A start is on its way, or done, unless one has met two stale locks.
Hopeful ==
  Working \/ \E p \in L!Services : svc[p].tries = 2 \/ svc[p].pc \notin {"none", "dead"}

\* What the watchdog kills, it kills before its helper looks at what is left.
Killing ==
  dog.kill # {} => \E h \in L!Helpers : helpers[h].pc \in {"old", "services", "workers", "clean"}

\* A service that is to end is replaced.
Leaving ==
  \A p \in L!Services : L!Lives(p) /\ svc[p].pending =>
    \E h \in L!Helpers : helpers[h].pc = "old" /\ helpers[h].old = p

\* No service that has yet to take the lock has left one behind.
Owned ==
  /\ lock.owner \in {0} \cup L!Services /\ (lock.owner = 0 => lock.done)
  /\ \A p \in L!Services :
       lock.owner = p => svc[p].pc \notin {"none", "create", "read", "stale"}

Listening == \A p \in ports : p \in L!Services /\ svc[p].pc = "serve"

GaveUp == \A p \in L!Services : svc[p].tries \in 0..2 /\ (svc[p].tries = 2 => svc[p].pc = "dead")

HopeInv == ResetTypes /\ Hopeful /\ Killing /\ Leaving /\ Owned /\ Listening /\ GaveUp

LEMMA HopeInit == ASSUME L!RestartAssumption, L!Init PROVE HopeInv
<1>1. 1 \in L!Services
  BY SMT DEF L!RestartAssumption, L!Services
<1>2. /\ svc[1].pc = "serve" /\ svc[1].tries = 0 /\ ~svc[1].pending
      /\ \A p \in L!Services : p # 1 => svc[p].pc = "none" /\ svc[p].tries = 0
  BY <1>1 DEF L!Init, L!Unborn, L!Fresh
<1>3. ResetTypes
  BY SMT DEF L!Init, ResetTypes, HelperPlaces
<1>4. Hopeful
  BY <1>1, <1>2 DEF Hopeful
<1>5. Killing
  BY DEF L!Init, Killing
<1>6. Leaving
  BY <1>2 DEF Leaving, L!Lives
<1>7. Owned
  BY <1>1, <1>2, SMT DEF Owned, L!Init, L!Services
<1>8. Listening
  BY <1>1, <1>2 DEF Listening, L!Init
<1>9. GaveUp
  BY <1>2, SMT DEF GaveUp
<1> QED
  BY <1>3, <1>4, <1>5, <1>6, <1>7, <1>8, <1>9 DEF HopeInv

LEMMA PlaceRest ==
  ASSUME ServiceTypes, NEW p \in L!Services, NEW pc \in Steps, L!Place(p, pc)
  PROVE  svc'[p].tries = svc[p].tries /\ svc'[p].pending = svc[p].pending
  BY DEF ServiceTypes, L!Place, Service

\* A living service goes on, or ends where somebody else goes on.
LEMMA HopePlace ==
  ASSUME ServiceTypes, HopeInv, NEW p \in L!Services, NEW pc \in Steps \ {"none"},
         L!Place(p, pc), L!Lives(p), UNCHANGED <<helpers, dog>>, pc = "dead" => Hopeful',
         Owned', Listening'
  PROVE  HopeInv'
<1>1. /\ svc'[p].pc = pc /\ svc'[p].tries = svc[p].tries /\ svc'[p].pending = svc[p].pending
      /\ \A q \in L!Services : q # p => svc'[q] = svc[q]
  BY PlaceFacts, PlaceRest
<1>2. Hopeful'
  BY <1>1 DEF Hopeful
<1>3. Leaving'
  BY <1>1 DEF HopeInv, Leaving, L!Lives
<1>4. GaveUp'
  BY <1>1 DEF HopeInv, GaveUp, L!Lives
<1>5. ResetTypes' /\ Killing'
  BY DEF HopeInv, ResetTypes, Killing
<1> QED
  BY <1>2, <1>3, <1>4, <1>5 DEF HopeInv

\* The lock stays where it is, or is given back.
LEMMA OwnedKept ==
  ASSUME ServiceTypes, Owned, NEW p \in L!Services, NEW pc \in Steps \ {"none", "create"},
         L!Place(p, pc), lock' \in {lock, L!NoLock}, pc \in {"read", "stale"} => lock.owner # p
  PROVE  Owned'
<1>1. svc'[p].pc = pc /\ \A q \in L!Services : q # p => svc'[q] = svc[q]
  BY PlaceFacts
<1>2. 0 \notin L!Services /\ L!NoLock.owner = 0 /\ L!NoLock.done
  BY SMT DEF L!Services, L!NoLock
<1> QED
  BY <1>1, <1>2 DEF Owned

LEMMA ListeningKept ==
  ASSUME ServiceTypes, Listening, NEW p \in L!Services, NEW pc \in Steps, L!Place(p, pc),
         ports' \in {ports, ports \ {p}}, svc[p].pc = "serve" => ports' = ports \ {p}
  PROVE  Listening'
<1>1. \A q \in L!Services : q # p => svc'[q] = svc[q]
  BY PlaceFacts
<1>2. p \notin ports'
  BY DEF Listening
<1> QED
  BY <1>1, <1>2 DEF Listening

\* What the services did is done by none.
LEMMA HopeSame ==
  ASSUME HopeInv, UNCHANGED <<svc, lock, ports, helpers>>,
         dog' \in [pending : BOOLEAN, kill : SUBSET L!Services, clear : BOOLEAN],
         dog'.kill = dog.kill
  PROVE  HopeInv'
<1>1. ResetTypes' /\ Killing'
  BY DEF HopeInv, ResetTypes, Killing
<1>2. Hopeful' /\ Leaving' /\ Owned' /\ Listening' /\ GaveUp'
  BY DEF HopeInv, Hopeful, Working, Toils, Leaving, Owned, Listening, GaveUp, L!Lives
<1> QED
  BY <1>1, <1>2 DEF HopeInv

LEMMA HopeLockCreate ==
  ASSUME ServiceTypes, HopeInv, NEW p \in L!Services, L!LockCreate(p)
  PROVE  HopeInv'
<1>1. svc[p].pc = "create" /\ L!Lives(p) /\ UNCHANGED <<ports, helpers, dog>>
  BY DEF L!LockCreate, L!Lives
<1>2. CASE lock.owner # 0
  <2>1. L!Place(p, "read") /\ UNCHANGED lock
    BY <1>2 DEF L!LockCreate
  <2>2. Owned'
    BY <1>1, <2>1, OwnedKept DEF HopeInv, Owned, Steps
  <2>3. Listening'
    BY <1>1, <2>1, ListeningKept DEF HopeInv, Steps
  <2> QED
    BY <1>1, <2>1, <2>2, <2>3, HopePlace DEF Steps
<1>3. CASE lock.owner = 0
  <2>1. L!Place(p, "write") /\ lock' = [owner |-> p, done |-> FALSE]
    BY <1>3 DEF L!LockCreate
  <2>2. svc'[p].pc = "write"
    BY <2>1, PlaceFacts DEF Steps
  <2>3. Owned'
    BY <2>1, <2>2, SMT DEF Owned, L!Services
  <2>4. Listening'
    BY <1>1, <2>1, ListeningKept DEF HopeInv, Steps
  <2> QED
    BY <1>1, <2>1, <2>3, <2>4, HopePlace DEF Steps
<1> QED
  BY <1>2, <1>3

LEMMA HopeLockWrite ==
  ASSUME ServiceTypes, HopeInv, NEW p \in L!Services, L!LockWrite(p)
  PROVE  HopeInv'
<1>1. /\ svc[p].pc = "write" /\ L!Lives(p) /\ UNCHANGED <<ports, helpers, dog>>
      /\ L!Place(p, "bind")
  BY DEF L!LockWrite, L!Lives
<1>2. lock'.owner = lock.owner /\ (lock.done => lock'.done)
  BY DEF L!LockWrite, ServiceTypes
<1>3. svc'[p].pc = "bind" /\ \A q \in L!Services : q # p => svc'[q] = svc[q]
  BY <1>1, PlaceFacts DEF Steps
<1>4. Owned'
  BY <1>2, <1>3 DEF HopeInv, Owned
<1>5. Listening'
  BY <1>1, ListeningKept DEF HopeInv, Steps
<1> QED
  BY <1>1, <1>4, <1>5, HopePlace DEF Steps

\* A start that gives way to a lock gives way to its owner.
LEMMA HopeLockRead ==
  ASSUME ServiceTypes, HopeInv, NEW p \in L!Services, L!LockRead(p)
  PROVE  HopeInv'
<1>1. svc[p].pc = "read" /\ L!Lives(p) /\ UNCHANGED <<lock, ports, helpers, dog>>
  BY DEF L!LockRead, L!Lives
<1>2. PICK pc \in {"dead", "stale"} :
        /\ L!Place(p, pc)
        /\ pc = "dead" => lock.owner # 0 /\ lock.done /\ L!Lives(lock.owner)
  BY DEF L!LockRead
<1>3. lock.owner # p
  BY <1>1 DEF HopeInv, Owned
<1>4. ASSUME pc = "dead" PROVE Hopeful'
  <2>1. PICK q \in L!Services : q = lock.owner /\ q # p /\ L!Lives(q)
    BY <1>2, <1>3, <1>4 DEF HopeInv, Owned
  <2>2. svc'[q] = svc[q]
    BY <1>2, <2>1, PlaceFacts DEF Steps
  <2> QED
    BY <2>1, <2>2 DEF Hopeful, L!Lives
<1>5. Owned'
  BY <1>1, <1>2, <1>3, OwnedKept DEF HopeInv, Steps
<1>6. Listening'
  BY <1>1, <1>2, ListeningKept DEF HopeInv, Steps
<1> QED
  BY <1>1, <1>2, <1>4, <1>5, <1>6, HopePlace DEF Steps

\* One that may not remove a lock gives way to its owner, and one that has removed two gives up.
LEMMA HopeLockRemove ==
  ASSUME ServiceTypes, HopeInv, NEW p \in L!Services, L!LockRemove(p)
  PROVE  HopeInv'
<1>1. svc[p].pc = "stale" /\ L!Lives(p) /\ UNCHANGED <<ports, helpers, dog>> /\ lock.owner # p
  BY DEF L!LockRemove, L!Lives, HopeInv, Owned
<1>2. CASE L!Refused
  <2>1. L!Place(p, "dead") /\ UNCHANGED lock
    BY <1>2 DEF L!LockRemove
  <2>2. PICK q \in L!Services : q = lock.owner /\ q # p /\ L!Lives(q)
    BY <1>1, <1>2 DEF HopeInv, Owned, L!Refused
  <2>3. svc'[q] = svc[q]
    BY <2>1, <2>2, PlaceFacts DEF Steps
  <2>4. Hopeful'
    BY <2>2, <2>3 DEF Hopeful, L!Lives
  <2>5. Owned'
    BY <1>1, <2>1, OwnedKept DEF HopeInv, Steps
  <2>6. Listening'
    BY <1>1, <2>1, ListeningKept DEF HopeInv, Steps
  <2> QED
    BY <1>1, <2>1, <2>4, <2>5, <2>6, HopePlace DEF Steps
<1>3. CASE ~L!Refused
  <2>1. lock' = L!NoLock /\ svc[p].tries \in {0, 1}
    <3>1. svc[p].tries \in 0..2 /\ svc[p].tries # 2
      BY <1>1 DEF HopeInv, GaveUp
    <3> QED
      BY <1>3, <3>1, SMT DEF L!LockRemove
  <2>2. /\ svc'[p].pc \in {"create", "dead"} /\ svc'[p].tries \in {1, 2}
        /\ svc'[p].tries = 2 <=> svc'[p].pc = "dead"
        /\ svc'[p].pending = svc[p].pending
        /\ \A q \in L!Services : q # p => svc'[q] = svc[q]
    <3>1. svc' = [svc EXCEPT ![p].pc = IF svc[p].tries = 0 THEN "create" ELSE "dead",
                             ![p].tries = svc[p].tries + 1]
      BY <1>3 DEF L!LockRemove
    <3>2. /\ svc'[p].pc = IF svc[p].tries = 0 THEN "create" ELSE "dead"
          /\ svc'[p].tries = svc[p].tries + 1 /\ svc'[p].pending = svc[p].pending
          /\ \A q \in L!Services : q # p => svc'[q] = svc[q]
      BY <3>1, Removed
    <3> QED
      BY <2>1, <3>2, SMT
  <2>3. Hopeful'
    BY <2>2 DEF Hopeful
  <2>4. Leaving'
    BY <1>1, <2>2 DEF HopeInv, Leaving, L!Lives
  <2>5. Owned'
    BY <2>1, SMT DEF Owned, L!NoLock, L!Services
  <2>6. Listening'
    BY <1>1, <2>2 DEF HopeInv, Listening
  <2>7. GaveUp'
    <3>1. svc'[p].tries \in 0..2
      BY <2>2, SMT
    <3> QED
      BY <2>2, <3>1 DEF HopeInv, GaveUp
  <2>8. ResetTypes' /\ Killing'
    BY <1>1 DEF HopeInv, ResetTypes, Killing
  <2> QED
    BY <2>3, <2>4, <2>5, <2>6, <2>7, <2>8 DEF HopeInv
<1> QED
  BY <1>2, <1>3

\* One that may not listen gives way to the service that does.
LEMMA HopeBind ==
  ASSUME ServiceTypes, HopeInv, NEW p \in L!Services, L!Bind(p)
  PROVE  HopeInv'
<1>1. svc[p].pc = "bind" /\ L!Lives(p) /\ UNCHANGED <<helpers, dog>>
  BY DEF L!Bind, L!Lives
<1>2. CASE ports # {} /\ ~Windows
  <2>1. L!Place(p, "dead") /\ lock' \in {lock, L!NoLock} /\ UNCHANGED ports
    BY <1>2 DEF L!Bind, L!Released
  <2>2. PICK q \in L!Services : q # p /\ svc[q].pc = "serve"
    BY <1>1, <1>2 DEF HopeInv, Listening
  <2>3. svc'[q] = svc[q]
    BY <2>1, <2>2, PlaceFacts DEF Steps
  <2>4. Hopeful'
    BY <2>2, <2>3 DEF Hopeful
  <2>5. Owned'
    BY <2>1, OwnedKept DEF HopeInv, Steps
  <2>6. Listening'
    BY <1>1, <2>1, ListeningKept DEF HopeInv, Steps
  <2> QED
    BY <1>1, <2>1, <2>4, <2>5, <2>6, HopePlace DEF Steps
<1>3. CASE ~(ports # {} /\ ~Windows)
  <2>1. L!Place(p, "serve") /\ UNCHANGED lock /\ ports' = ports \cup {p}
    BY <1>3 DEF L!Bind
  <2>2. svc'[p].pc = "serve" /\ \A q \in L!Services : q # p => svc'[q] = svc[q]
    BY <2>1, PlaceFacts DEF Steps
  <2>3. Owned'
    BY <2>1, OwnedKept DEF HopeInv, Steps
  <2>4. Listening'
    BY <2>1, <2>2 DEF HopeInv, Listening
  <2> QED
    BY <1>1, <2>1, <2>3, <2>4, HopePlace DEF Steps
<1> QED
  BY <1>2, <1>3

\* A service that is closed has not died.
LEMMA HopeClose ==
  ASSUME ServiceTypes, HopeInv, NEW p \in L!Services,
         L!CloseServer(p) \/ L!CloseBackend(p) \/ L!CloseUnlock(p) \/ L!Exit(p)
  PROVE  HopeInv'
<1>1. PICK pc \in {"closing", "unlock", "exit", "ended"} : L!Place(p, pc)
  BY DEF L!CloseServer, L!CloseBackend, L!CloseUnlock, L!Exit
<1>2. /\ L!Lives(p) /\ UNCHANGED <<helpers, dog>> /\ lock' \in {lock, L!NoLock}
      /\ ports' \in {ports, ports \ {p}} /\ (svc[p].pc = "serve" => ports' = ports \ {p})
  BY DEF L!CloseServer, L!CloseBackend, L!CloseUnlock, L!Exit, L!Lives, L!Released
<1>3. pc \in Steps \ {"none", "create", "dead", "read", "stale"}
  BY DEF Steps
<1>4. Owned'
  BY <1>1, <1>2, <1>3, OwnedKept DEF HopeInv
<1>5. Listening'
  BY <1>1, <1>2, <1>3, ListeningKept DEF HopeInv
<1> QED
  BY <1>1, <1>2, <1>3, <1>4, <1>5, HopePlace

LEMMA HopeServiceExit ==
  ASSUME ServiceTypes, HopeInv, NEW p \in L!Services, L!ServiceExit(p)
  PROVE  HopeInv'
<1>1. /\ L!Lives(p) /\ svc[p].pending /\ UNCHANGED <<lock, helpers, dog>>
      /\ L!Place(p, "dead") /\ ports' = ports \ {p}
  BY DEF L!ServiceExit
<1>2. Working
  BY <1>1 DEF HopeInv, Leaving, Working, Toils
<1>3. Hopeful'
  BY <1>1, <1>2 DEF Hopeful, Working, Toils
<1>4. Owned'
  BY <1>1, OwnedKept DEF HopeInv, Steps
<1>5. Listening'
  BY <1>1, ListeningKept DEF HopeInv, Steps
<1> QED
  BY <1>1, <1>3, <1>4, <1>5, HopePlace DEF Steps

LEMMA HopeBegins ==
  ASSUME ServiceTypes, HopeInv, L!Begins, UNCHANGED <<lock, ports, dog>>, ResetTypes', Killing',
         \A h \in L!Helpers : helpers[h].pc = "old" => helpers'[h] = helpers[h]
  PROVE  HopeInv'
<1>1. PICK p \in L!Services : svc[p].pc = "none" /\ svc' = [svc EXCEPT ![p] = L!Fresh]
  BY DEF L!Begins, L!Born
<1>2. /\ svc'[p].pc = "create" /\ svc'[p].tries = 0 /\ ~svc'[p].pending
      /\ \A q \in L!Services : q # p => svc'[q] = svc[q]
  BY <1>1 DEF ServiceTypes, L!Fresh
<1>3. Hopeful'
  BY <1>2 DEF Hopeful
<1>4. Leaving'
  BY <1>2 DEF HopeInv, Leaving, L!Lives
<1>5. Owned'
  BY <1>1, <1>2 DEF HopeInv, Owned
<1>6. Listening'
  BY <1>1, <1>2 DEF HopeInv, Listening
<1>7. GaveUp'
  <2>1. svc'[p].tries \in 0..2 /\ svc'[p].tries # 2
    BY <1>2, SMT
  <2> QED
    BY <1>2, <2>1 DEF HopeInv, GaveUp
<1> QED
  BY <1>3, <1>4, <1>5, <1>6, <1>7 DEF HopeInv

\* Somebody who kills goes on to start.
LEMMA HopeKilled ==
  ASSUME ServiceTypes, HopeInv, NEW S, L!Killed(S), UNCHANGED lock, ResetTypes', Working',
         Killing',
         \A h \in L!Helpers, p \in L!Services \ S :
           L!Lives(p) /\ helpers[h].pc = "old" /\ helpers[h].old = p => helpers'[h] = helpers[h]
  PROVE  HopeInv'
<1>1. \A q \in L!Services :
        /\ svc'[q] = svc[q] \/ (/\ svc'[q].pc = "dead" /\ svc'[q].tries = svc[q].tries
                                /\ svc[q].pc # "none")
        /\ q \notin S => svc'[q] = svc[q]
        /\ q \in S => svc'[q].pc \in {"none", "dead"}
  BY DEF L!Killed, L!Born, ServiceTypes, Service
<1>2. ports' = ports \ S
  BY DEF L!Killed
<1>3. Hopeful'
  BY DEF Hopeful
<1>4. ASSUME NEW p \in L!Services, L!Lives(p)', svc'[p].pending
      PROVE  \E h \in L!Helpers : helpers'[h].pc = "old" /\ helpers'[h].old = p
  <2>1. p \notin S /\ L!Lives(p) /\ svc[p].pending
    BY <1>1, <1>4 DEF L!Lives
  <2>2. PICK h \in L!Helpers : helpers[h].pc = "old" /\ helpers[h].old = p
    BY <2>1 DEF HopeInv, Leaving
  <2> QED
    BY <2>1, <2>2
<1>5. Leaving'
  BY <1>4 DEF Leaving
<1>6. Owned'
  BY <1>1 DEF HopeInv, Owned
<1>7. Listening'
  BY <1>1, <1>2 DEF HopeInv, Listening
<1>8. GaveUp'
  BY <1>1 DEF HopeInv, GaveUp
<1> QED
  BY <1>3, <1>5, <1>6, <1>7, <1>8 DEF HopeInv

\* A helper that goes on, and nothing else.
LEMMA HelperFacts ==
  ASSUME ResetTypes, NEW h \in L!Helpers, NEW from, NEW to \in HelperPlaces,
         L!HelperAt(h, from, to)
  PROVE  /\ helpers[h].pc = from /\ helpers'[h].pc = to /\ helpers'[h].old = helpers[h].old
         /\ helpers' \in [L!Helpers -> [pc : HelperPlaces, old : Nat]]
         /\ \A g \in L!Helpers : g # h => helpers'[g] = helpers[g]
  BY DEF ResetTypes, L!HelperAt

LEMMA HopeHelperKills ==
  ASSUME ServiceTypes, HopeInv, NEW h \in L!Helpers,
         L!HelperOld(h) \/ L!HelperServices(h)
  PROVE  HopeInv'
<1>1. PICK S : /\ L!Killed(S) /\ UNCHANGED <<lock, dog>>
               /\ \/ L!HelperAt(h, "services", "workers")
                  \/ /\ L!HelperAt(h, "old", "services")
                     /\ S = {helpers[h].old} \cap {p \in L!Services : L!Lives(p)}
  BY DEF L!HelperOld, L!HelperServices
<1>2. PICK from \in {"old", "services"}, to \in {"services", "workers"} :
        /\ L!HelperAt(h, from, to)
        /\ from = "old" => S = {helpers[h].old} \cap {p \in L!Services : L!Lives(p)}
  BY <1>1
<1>3. /\ helpers[h].pc = from /\ helpers'[h].pc = to
      /\ helpers' \in [L!Helpers -> [pc : HelperPlaces, old : Nat]]
      /\ \A g \in L!Helpers : g # h => helpers'[g] = helpers[g]
  BY <1>2, HelperFacts DEF HelperPlaces, HopeInv
<1>4. ResetTypes'
  BY <1>1, <1>3 DEF HopeInv, ResetTypes
<1>5. Working' /\ Killing'
  BY <1>3 DEF Working, Toils, Killing
<1>6. ASSUME NEW g \in L!Helpers, NEW p \in L!Services \ S, L!Lives(p), helpers[g].pc = "old",
             helpers[g].old = p
      PROVE  helpers'[g] = helpers[g]
  BY <1>2, <1>3, <1>6
<1> QED
  BY <1>1, <1>6, <1>4, <1>5, HopeKilled

LEMMA HopeHelperCleans ==
  ASSUME ServiceTypes, HopeInv, NEW h \in L!Helpers, L!HelperClean(h)
  PROVE  HopeInv'
<1>1. PICK S : L!Killed(S)
  BY DEF L!HelperClean
<1>2. UNCHANGED <<helpers, lock, dog>> /\ helpers[h].pc = "clean"
  BY DEF L!HelperClean
<1>3. ResetTypes' /\ Working' /\ Killing'
  BY <1>2 DEF HopeInv, ResetTypes, Working, Toils, Killing
<1> QED
  BY <1>1, <1>2, <1>3, HopeKilled

LEMMA HopeDogKill ==
  ASSUME ServiceTypes, HopeInv, L!DogKill
  PROVE  HopeInv'
<1>1. /\ L!Killed(dog.kill) /\ dog.kill # {} /\ dog' = [dog EXCEPT !.kill = {}]
      /\ UNCHANGED <<lock, helpers>>
  BY DEF L!DogKill
<1>2. dog'.kill = {} /\ ResetTypes'
  BY <1>1 DEF HopeInv, ResetTypes
<1>3. Working' /\ Killing'
  BY <1>1, <1>2 DEF HopeInv, Working, Toils, Killing
<1> QED
  BY <1>1, <1>2, <1>3, HopeKilled

\* A helper that kills nobody: what it leaves of the lock, and what it has seen of the services.
LEMMA HopeHelperMoves ==
  ASSUME HopeInv, NEW h \in L!Helpers, NEW from \in {"workers", "clean", "unlink"},
         NEW to \in {"clean", "unlink", "failed", "start"}, L!HelperAt(h, from, to),
         UNCHANGED <<svc, ports, dog>>, lock' \in {lock, L!NoLock},
         from = "unlink" \/ to = "clean" \/ dog.kill = {},
         to = "failed" => \E p \in L!Services : L!Lives(p)
  PROVE  HopeInv'
<1>1. /\ helpers[h].pc = from /\ helpers'[h].pc = to
      /\ helpers' \in [L!Helpers -> [pc : HelperPlaces, old : Nat]]
      /\ \A g \in L!Helpers : g # h => helpers'[g] = helpers[g]
  BY HelperFacts DEF HelperPlaces, HopeInv
<1>2. ResetTypes'
  BY <1>1 DEF HopeInv, ResetTypes
<1>3. Hopeful'
  <2>1. CASE to = "failed"
    BY <2>1 DEF Hopeful, L!Lives
  <2>2. CASE to # "failed"
    BY <2>2, <1>1 DEF Hopeful, Working, Toils
  <2> QED
    BY <2>1, <2>2
<1>4. Killing'
  BY <1>1 DEF HopeInv, Killing
<1>5. Leaving'
  BY <1>1 DEF HopeInv, Leaving, L!Lives
<1>6. Owned'
  <2>1. 0 \notin L!Services /\ L!NoLock.owner = 0 /\ L!NoLock.done
    BY SMT DEF L!Services, L!NoLock
  <2> QED
    BY <2>1 DEF HopeInv, Owned
<1>7. Listening' /\ GaveUp'
  BY DEF HopeInv, Listening, GaveUp
<1> QED
  BY <1>2, <1>3, <1>4, <1>5, <1>6, <1>7 DEF HopeInv

LEMMA HopeHelperRest ==
  ASSUME HopeInv, NEW h \in L!Helpers,
         L!HelperWorkers(h) \/ L!HelperCheck(h) \/ L!HelperUnlink(h)
  PROVE  HopeInv'
<1>1. CASE L!HelperWorkers(h)
  <2>1. L!HelperAt(h, "workers", "clean") /\ UNCHANGED <<svc, lock, ports, dog>>
    BY <1>1 DEF L!HelperWorkers
  <2>2. lock' \in {lock, L!NoLock}
    BY <2>1
  <2> QED
    BY <2>1, <2>2, HopeHelperMoves
<1>2. CASE L!HelperCheck(h)
  <2>1. PICK to \in {"unlink", "failed"} :
          /\ L!HelperAt(h, "clean", to)
          /\ to = "failed" => \E p \in L!Services : L!Lives(p)
    BY <1>2 DEF L!HelperCheck, L!Tables
  <2>2. dog.kill = {} /\ UNCHANGED <<svc, lock, ports, dog>>
    BY <1>2 DEF L!HelperCheck
  <2> QED
    BY <2>1, <2>2, HopeHelperMoves
<1>3. CASE L!HelperUnlink(h)
  <2>1. /\ L!HelperAt(h, "unlink", "start") /\ UNCHANGED <<svc, ports, dog>>
        /\ lock' \in {lock, L!NoLock}
    BY <1>3 DEF L!HelperUnlink
  <2> QED
    BY <2>1, HopeHelperMoves
<1> QED
  BY <1>1, <1>2, <1>3

LEMMA HopeHelperStart ==
  ASSUME ServiceTypes, HopeInv, NEW h \in L!Helpers, L!HelperStart(h)
  PROVE  HopeInv'
<1>1. L!HelperAt(h, "start", "done") /\ L!Begins /\ UNCHANGED <<lock, ports, dog>>
  BY DEF L!HelperStart
<1>2. /\ helpers[h].pc = "start" /\ helpers'[h].pc = "done"
      /\ helpers' \in [L!Helpers -> [pc : HelperPlaces, old : Nat]]
      /\ \A g \in L!Helpers : g # h => helpers'[g] = helpers[g]
  BY <1>1, HelperFacts DEF HelperPlaces, HopeInv
<1>3. ResetTypes' /\ Killing'
  BY <1>1, <1>2 DEF HopeInv, ResetTypes, Killing
<1> QED
  BY <1>1, <1>2, <1>3, HopeBegins

LEMMA HopeUserStart ==
  ASSUME ServiceTypes, HopeInv, L!UserStart
  PROVE  HopeInv'
<1>1. L!Begins /\ UNCHANGED <<lock, ports, helpers, dog>>
  BY DEF L!UserStart
<1>2. ResetTypes' /\ Killing'
  BY <1>1 DEF HopeInv, ResetTypes, Killing
<1> QED
  BY <1>1, <1>2, HopeBegins

\* A helper that is launched.
LEMMA LaunchedFacts ==
  ASSUME ResetTypes, NEW old \in Nat, L!Launched(old)
  PROVE  /\ helpers' \in [L!Helpers -> [pc : HelperPlaces, old : Nat]]
         /\ \E h \in L!Helpers : helpers'[h].pc = "old" /\ helpers'[h].old = old
         /\ \A h \in L!Helpers : helpers[h].pc # "none" => helpers'[h] = helpers[h]
<1>1. PICK h \in L!Helpers :
        /\ helpers[h].pc = "none"
        /\ helpers' = [helpers EXCEPT ![h] = [pc |-> "old", old |-> old]]
  BY DEF L!Launched
<1>2. [pc |-> "old", old |-> old] \in [pc : HelperPlaces, old : Nat]
  BY DEF HelperPlaces
<1>3. /\ helpers' \in [L!Helpers -> [pc : HelperPlaces, old : Nat]]
      /\ helpers'[h] = [pc |-> "old", old |-> old]
      /\ \A g \in L!Helpers : g # h => helpers'[g] = helpers[g]
  BY <1>1, <1>2 DEF ResetTypes
<1> QED
  BY <1>1, <1>3

LEMMA HopeServiceReset ==
  ASSUME ServiceTypes, HopeInv, NEW p \in L!Services, L!ServiceReset(p)
  PROVE  HopeInv'
<1>1. /\ L!Launched(p) /\ svc' = [svc EXCEPT ![p].pending = TRUE]
      /\ UNCHANGED <<lock, ports, dog>>
  BY DEF L!ServiceReset
<1>2. p \in Nat
  BY SMT DEF L!Services
<1>3. /\ helpers' \in [L!Helpers -> [pc : HelperPlaces, old : Nat]]
      /\ \E h \in L!Helpers : helpers'[h].pc = "old" /\ helpers'[h].old = p
      /\ \A h \in L!Helpers : helpers[h].pc # "none" => helpers'[h] = helpers[h]
  BY <1>1, <1>2, LaunchedFacts DEF HopeInv
<1>4. \A q \in L!Services :
        /\ svc'[q].pc = svc[q].pc /\ svc'[q].tries = svc[q].tries
        /\ q # p => svc'[q].pending = svc[q].pending
  BY <1>1 DEF ServiceTypes, Service
<1>5. ResetTypes' /\ Working' /\ Killing'
  BY <1>1, <1>3 DEF HopeInv, ResetTypes, Working, Toils, Killing
<1>6. Hopeful'
  BY <1>5 DEF Hopeful
<1>7. Leaving'
  BY <1>3, <1>4 DEF HopeInv, Leaving, L!Lives
<1>8. Owned' /\ Listening' /\ GaveUp'
  BY <1>1, <1>4 DEF HopeInv, Owned, Listening, GaveUp
<1> QED
  BY <1>5, <1>6, <1>7, <1>8 DEF HopeInv

LEMMA HopeDogReset ==
  ASSUME ServiceTypes, HopeInv, L!DogReset
  PROVE  HopeInv'
<1>1. PICK table \in L!Tables, old \in {0} \cup L!Services :
        /\ L!Launched(old)
        /\ dog' = [pending |-> TRUE, kill |-> table \cup ({old} \ {0}), clear |-> TRUE]
  BY DEF L!DogReset, L!Tables, HopeInv, Owned
<1>2. UNCHANGED <<svc, lock, ports>>
  BY DEF L!DogReset
<1>3. old \in Nat
  BY SMT DEF L!Services
<1>4. table \cup ({old} \ {0}) \in SUBSET L!Services
  BY DEF L!Tables
<1>5. /\ helpers' \in [L!Helpers -> [pc : HelperPlaces, old : Nat]]
      /\ \E h \in L!Helpers : helpers'[h].pc = "old" /\ helpers'[h].old = old
      /\ \A h \in L!Helpers : helpers[h].pc # "none" => helpers'[h] = helpers[h]
  BY <1>1, <1>3, LaunchedFacts DEF HopeInv
<1>6. ResetTypes' /\ Working' /\ Killing'
  BY <1>1, <1>4, <1>5 DEF ResetTypes, Working, Toils, Killing
<1>7. Hopeful'
  BY <1>6 DEF Hopeful
<1>8. Leaving' /\ Owned' /\ Listening' /\ GaveUp'
  BY <1>2, <1>5 DEF HopeInv, Leaving, Owned, Listening, GaveUp, L!Lives
<1> QED
  BY <1>6, <1>7, <1>8 DEF HopeInv

LEMMA HopeKept == ASSUME ServiceTypes, HopeInv, [L!Next]_(L!vars) PROVE HopeInv'
<1>0. dog \in [pending : BOOLEAN, kill : SUBSET L!Services, clear : BOOLEAN]
  BY DEF HopeInv, ResetTypes
<1>1. CASE UNCHANGED L!vars
  BY <1>0, <1>1, HopeSame DEF L!vars
<1>2. ASSUME NEW p \in L!Services, L!Orphan(p) \/ L!Spawn(p) \/ L!Known(p) PROVE HopeInv'
  BY <1>0, <1>2, HopeSame DEF L!Orphan, L!Spawn, L!Known
<1>3. CASE L!DogClear
  <2>1. /\ dog' \in [pending : BOOLEAN, kill : SUBSET L!Services, clear : BOOLEAN]
        /\ dog'.kill = dog.kill
    BY <1>0, <1>3 DEF L!DogClear
  <2> QED
    BY <1>3, <2>1, HopeSame DEF L!DogClear
<1>4. ASSUME NEW p \in L!Services,
             \/ L!LockCreate(p) \/ L!LockWrite(p) \/ L!LockRead(p) \/ L!LockRemove(p)
             \/ L!Bind(p) \/ L!CloseServer(p) \/ L!CloseBackend(p) \/ L!CloseUnlock(p)
             \/ L!Exit(p) \/ L!ServiceReset(p) \/ L!ServiceExit(p)
      PROVE  HopeInv'
  BY <1>4, HopeLockCreate, HopeLockWrite, HopeLockRead, HopeLockRemove, HopeBind, HopeClose,
    HopeServiceReset, HopeServiceExit
<1> QED
  BY <1>1, <1>2, <1>3, <1>4, HopeUserStart, HopeDogReset, HopeDogKill, HopeHelperKills,
    HopeHelperCleans, HopeHelperRest, HopeHelperStart DEF L!Next

\* Where nobody works, somebody serves, and serves on.
LEMMA HopeServes == ASSUME HopeInv PROVE L!ResetLeavesOne
<1> SUFFICES ASSUME \A h \in L!Helpers : helpers[h].pc \in {"none", "done", "failed"},
                    \A p \in L!Services : /\ svc[p].pc \in {"none", "serve", "dead"}
                                         /\ svc[p].tries # 2
             PROVE  \E p \in L!Services : svc[p].pc = "serve" /\ ~svc[p].pending
  BY DEF L!ResetLeavesOne
<1>1. PICK p \in L!Services : svc[p].pc = "serve"
  BY DEF HopeInv, Hopeful, Working, Toils
<1>2. ~svc[p].pending
  BY <1>1 DEF HopeInv, Leaving, L!Lives
<1> QED
  BY <1>1, <1>2

\* When resets are over a service serves and goes on serving, unless one was closed by hand or a
\* start met two stale locks, for every number of services and of helpers, however their resets
\* overlap (nero_control_service_restart.py:190-318, instance_lock.py:22-48).
THEOREM ResetsEndInService == L!RestartAssumption => (L!Spec => []L!ResetLeavesOne)
<1> SUFFICES ASSUME L!RestartAssumption PROVE L!Spec => []L!ResetLeavesOne
  OBVIOUS
<1>1. L!Init => OwnerInv /\ HopeInv
  BY OwnerInit, HopeInit
<1>2. OwnerInv /\ HopeInv /\ [L!Next]_(L!vars) => (OwnerInv /\ HopeInv)'
  BY OwnerKept, HopeKept DEF OwnerInv
<1>3. HopeInv => L!ResetLeavesOne
  BY HopeServes
<1> QED
  BY <1>1, <1>2, <1>3, PTL DEF L!Spec

-----------------------------------------------------------------------------
\* The CPV profile of the motors.

CONSTANTS Joints, Limits, Wanted, MaxOp, MaxStart
VARIABLES motor, settling, slipped, running, defaults, file, promised, granted, op, ops, runs

V == INSTANCE Profile WITH late <- slipped, session <- granted, starts <- runs

JobKinds  == {"none", "startup", "group", "acceleration", "speed", "sync", "entry"}
JobPlaces == {"idle", "before", "prime", "snap", "write", "after", "save"}
Motors    == [V!Joint -> V!Profiles]
Jobs ==
  [kind : JobKinds, pc : JobPlaces, ask : V!Profiles, save : BOOLEAN, was : Motors \cup {<<>>},
   snap : Motors \cup {<<>>}, todo : SUBSET V!Places, prev : V!Profiles]

ProfileTypes ==
  /\ motor \in Motors /\ op \in Jobs /\ granted \in BOOLEAN
  /\ running \in V!Profiles /\ defaults \in V!Profiles /\ file \in V!Profiles
  /\ promised \in V!Profiles

\* A joint has what is asked for, or its CV was put back since it was compared.
Set(n, j) == motor[j][n] = op.ask[n] \/ (n = "cv" /\ j \in slipped)

\* What is asked for is on a motor, or still to do.
Writing ==
  op.pc = "write" => \A n \in V!Names : \A j \in V!Joint :
    op.ask[n] # V!Unset => [n |-> n, j |-> j] \in op.todo \/ Set(n, j)

\* Afterwards it is on every motor, and kept for the next entry.
Written ==
  op.pc \in {"after", "save"} => \A n \in V!Names : op.ask[n] # V!Unset =>
    running[n] = op.ask[n] /\ \A j \in V!Joint : Set(n, j)

\* The next entry writes what was promised, unless a request is about to promise something else.
Promises ==
  \A n \in V!Names : promised[n] # V!Unset =>
    running[n] = promised[n] \/ (op.pc \in {"after", "save"} /\ op.ask[n] # V!Unset)

Entering ==
  op.kind = "entry" =>
    /\ op.save = FALSE
    /\ \A n \in V!Names : /\ op.ask[n] # V!Unset
                          /\ promised[n] # V!Unset => op.ask[n] = promised[n]

StartingUp == op.kind = "startup" => promised = V!Nothing /\ op.save = FALSE

\* What the request for the whole profile would take back is as good as what it has replaced.
Keeping ==
  op.kind = "group" /\ op.pc \in {"snap", "write", "after"} =>
    \A n \in V!Names : promised[n] # V!Unset => op.prev[n] = promised[n]

Granted == granted => op = V!Idle /\ V!Has(V!Effective) /\ V!Has(promised)

Resting == (op.kind = "none" => op = V!Idle) /\ (op.pc = "prime" => op.kind = "entry")

ProfileInv ==
  /\ ProfileTypes /\ Writing /\ Written /\ Promises /\ Entering /\ StartingUp /\ Keeping
  /\ Granted /\ Resting

LEMMA OverlayFacts ==
  ASSUME NEW base \in V!Profiles, NEW top \in V!Profiles
  PROVE  /\ V!Overlay(base, top) \in V!Profiles
         /\ \A n \in V!Names : V!Overlay(base, top)[n] =
                                 IF top[n] = V!Unset THEN base[n] ELSE top[n]
  BY DEF V!Profiles, V!Overlay

LEMMA ProfileValues ==
  ASSUME V!ProfileAssumption
  PROVE  /\ V!Nothing \in V!Profiles /\ Limits \in V!Profiles
         /\ \A n \in V!Names : Limits[n] # V!Unset /\ V!Nothing[n] = V!Unset
         /\ \A v \in Wanted : v \in V!Values
<1>1. /\ Limits \in [V!Names -> {"limit"}] /\ \A n \in V!Names : Limits[n] \in V!Values
  BY DEF V!ProfileAssumption, V!Values
<1> QED
  BY <1>1 DEF V!Nothing, V!Profiles, V!Unset, V!Values

LEMMA IdleFacts ==
  ASSUME V!ProfileAssumption
  PROVE  /\ V!Idle \in Jobs /\ V!Idle.kind = "none" /\ V!Idle.pc = "idle" /\ V!Idle.save = FALSE
  <1>1. V!Nothing \in V!Profiles
    BY ProfileValues
  <1> QED
    BY <1>1 DEF V!Idle, Jobs, JobKinds, JobPlaces

\* A start with or without a profile to restore.
LEMMA StartFacts ==
  ASSUME V!ProfileAssumption, NEW saved \in V!Profiles, NEW o \in V!Starting(saved)
  PROVE  /\ o \in Jobs /\ o.pc \in {"idle", "snap"} /\ o.kind \in {"none", "startup"}
         /\ (o.kind = "none" => o = V!Idle) /\ o.save = FALSE
<1>1. CASE o = V!Idle
  BY <1>1, IdleFacts
<1>2. CASE o # V!Idle
  <2>1. o = [V!Idle EXCEPT !.kind = "startup", !.pc = "snap", !.ask = saved]
    BY <1>2 DEF V!Starting
  <2>2. o = [kind |-> "startup", pc |-> "snap", ask |-> saved, save |-> FALSE, was |-> <<>>,
             snap |-> <<>>, todo |-> {}, prev |-> V!Nothing]
    BY <2>1 DEF V!Idle
  <2>3. V!Nothing \in V!Profiles
    BY ProfileValues
  <2> QED
    BY <2>2, <2>3 DEF Jobs, JobKinds, JobPlaces
<1> QED
  BY <1>1, <1>2

LEMMA ProfileInit == ASSUME V!ProfileAssumption, V!Init PROVE ProfileInv
<1>1. /\ running = V!Nothing /\ promised = V!Nothing /\ defaults = file /\ granted = FALSE
      /\ file \in {V!Nothing, Limits} /\ op \in V!Starting(file)
  BY DEF V!Init
<1>2. file \in V!Profiles /\ running \in V!Profiles
  BY <1>1, ProfileValues
<1>3. /\ op \in Jobs /\ op.pc \in {"idle", "snap"} /\ op.kind \in {"none", "startup"}
      /\ (op.kind = "none" => op = V!Idle) /\ op.save = FALSE
  BY <1>1, <1>2, StartFacts
<1>4. motor \in Motors
  <2>1. PICK v \in {V!Firmware, "limit"} : motor = [j \in V!Joint |-> [n \in V!Names |-> v]]
    BY DEF V!Init
  <2>2. v \in V!Values
    <3>1. "acc" \in V!Names /\ Limits["acc"] = "limit"
      BY DEF V!ProfileAssumption, V!Names
    <3> QED
      BY <3>1 DEF V!Values
  <2> QED
    BY <2>1, <2>2 DEF Motors, V!Profiles
<1>5. ProfileTypes
  BY <1>1, <1>2, <1>3, <1>4 DEF ProfileTypes
<1>6. \A n \in V!Names : promised[n] = V!Unset
  BY <1>1, ProfileValues
<1> QED
  BY <1>1, <1>3, <1>5, <1>6 DEF ProfileInv, Writing, Written, Promises, Entering, StartingUp,
    Keeping, Granted, Resting

\* Whatever ends a request leaves nothing to keep but what it promises.
LEMMA EndKept ==
  ASSUME V!ProfileAssumption, ProfileTypes', op' = V!Idle,
         \A n \in V!Names : promised'[n] # V!Unset => running'[n] = promised'[n],
         granted' => V!Has(V!Effective)' /\ V!Has(promised)'
  PROVE  ProfileInv'
  BY IdleFacts DEF ProfileInv, Writing, Written, Promises, Entering, StartingUp, Keeping, Granted,
    Resting

LEMMA FailKept ==
  ASSUME V!ProfileAssumption, ProfileInv, V!Fail, ~granted, UNCHANGED granted, motor' \in Motors,
         op.pc # "idle"
  PROVE  ProfileInv'
<1>1. /\ op' = V!Idle /\ running' = (IF V!TakesBack THEN op.prev ELSE running)
      /\ promised' = [n \in V!Names |-> IF V!Stays /\ op.ask[n] # V!Unset
                                         THEN V!Unset ELSE promised[n]]
      /\ UNCHANGED <<defaults, file>>
  BY DEF V!Fail
<1>2. ProfileTypes
  BY DEF ProfileInv
<1>3. ProfileTypes'
  <2>1. op' \in Jobs
    BY <1>1, IdleFacts
  <2>2. running' \in V!Profiles
    BY <1>1, <1>2 DEF ProfileTypes, Jobs
  <2>3. promised' \in V!Profiles
    BY <1>1, <1>2 DEF ProfileTypes, V!Profiles
  <2> QED
    BY <1>1, <1>2, <2>1, <2>2, <2>3 DEF ProfileTypes
<1>4. ASSUME NEW n \in V!Names, promised'[n] # V!Unset PROVE running'[n] = promised'[n]
  <2>1. promised'[n] = promised[n] /\ ~(V!Stays /\ op.ask[n] # V!Unset)
    BY <1>1, <1>4
  <2>2. op.kind \in JobKinds \ {"none"}
    BY <1>2, IdleFacts DEF ProfileInv, ProfileTypes, Resting, Jobs
  <2>3. CASE V!TakesBack
    BY <1>1, <1>4, <2>1, <2>3 DEF ProfileInv, Keeping, V!TakesBack, V!At
  <2>4. CASE ~V!TakesBack
    <3>1. running' = running
      BY <1>1, <2>4
    <3>2. CASE running[n] = promised[n]
      BY <2>1, <3>1, <3>2
    <3>3. CASE op.pc \in {"after", "save"} /\ op.ask[n] # V!Unset
      <4>1. op.pc = "after" /\ op.kind \in {"startup", "entry"}
        BY <2>1, <2>2, <2>4, <3>3 DEF V!Stays, V!TakesBack, V!At, JobKinds
      <4>2. op.kind # "startup"
        BY <1>4, <2>1, ProfileValues DEF ProfileInv, StartingUp
      <4>3. op.ask[n] = promised[n] /\ running[n] = op.ask[n]
        BY <1>4, <2>1, <3>3, <4>1, <4>2 DEF ProfileInv, Entering, Written
      <4> QED
        BY <2>1, <3>1, <4>3
    <3> QED
      BY <1>4, <2>1, <3>2, <3>3 DEF ProfileInv, Promises
  <2> QED
    BY <2>3, <2>4
<1> QED
  BY <1>1, <1>3, <1>4, EndKept

LEMMA DoneFacts ==
  ASSUME ProfileInv, V!Done, op.pc \in {"after", "save"}
  PROVE  /\ op' = V!Idle /\ promised' \in V!Profiles
         /\ \A n \in V!Names : promised'[n] # V!Unset => running[n] = promised'[n]
<1>1. promised \in V!Profiles /\ op.ask \in V!Profiles
  BY DEF ProfileInv, ProfileTypes, Jobs
<1>2. CASE op.kind = "entry"
  BY <1>1, <1>2 DEF ProfileInv, Promises, Entering, Written, V!Done
<1>3. CASE op.kind # "entry"
  <2>1. promised' = V!Overlay(promised, op.ask) /\ op' = V!Idle
    BY <1>3 DEF V!Done
  <2>2. /\ promised' \in V!Profiles
        /\ \A n \in V!Names : promised'[n] = IF op.ask[n] = V!Unset THEN promised[n] ELSE op.ask[n]
    BY <1>1, <2>1, OverlayFacts
  <2> QED
    BY <2>1, <2>2 DEF ProfileInv, Promises, Written
<1> QED
  BY <1>2, <1>3

\* While a session has the profile, no request is under way.
LEMMA AloneFacts ==
  ASSUME V!ProfileAssumption, ProfileInv, op.pc # "idle"
  PROVE  granted = FALSE
  BY IdleFacts DEF ProfileInv, ProfileTypes, Granted

\* What an operator or an entry asks for.
LEMMA AskFacts ==
  ASSUME V!ProfileAssumption, ProfileInv, op.pc = "idle",
         NEW k \in {"group", "acceleration", "speed", "sync", "entry"}, NEW ask \in V!Ask(k)
  PROVE  /\ ask \in V!Profiles
         /\ k = "entry" => \A n \in V!Names :
              ask[n] # V!Unset /\ (promised[n] # V!Unset => ask[n] = promised[n])
<1>1. /\ running \in V!Profiles /\ defaults \in V!Profiles /\ Limits \in V!Profiles
  BY ProfileValues DEF ProfileInv, ProfileTypes
<1>2. ASSUME NEW names, NEW v \in Wanted PROVE V!Only(names, v) \in V!Profiles
  BY ProfileValues DEF V!Only, V!Profiles
<1>3. CASE k = "entry"
  <2>1. ask = V!Overlay(V!Overlay(Limits, defaults), running)
    BY <1>3 DEF V!Ask, V!Effective
  <2>2. /\ V!Overlay(Limits, defaults) \in V!Profiles
        /\ \A n \in V!Names : V!Overlay(Limits, defaults)[n] # V!Unset
    BY <1>1, OverlayFacts, ProfileValues
  <2>3. /\ ask \in V!Profiles
        /\ \A n \in V!Names : ask[n] = IF running[n] = V!Unset
                                       THEN V!Overlay(Limits, defaults)[n] ELSE running[n]
    BY <1>1, <2>1, <2>2, OverlayFacts
  <2> QED
    BY <2>2, <2>3 DEF ProfileInv, Promises
<1>4. CASE k = "sync"
  BY <1>1, <1>4 DEF V!Ask
<1>5. CASE k \in {"speed", "acceleration"}
  BY <1>2, <1>5 DEF V!Ask
<1>6. CASE k = "group"
  <2>1. PICK a \in Wanted, c \in Wanted :
          ask = V!Overlay(V!Only({"acc", "dcc"}, a), V!Only({"cv"}, c))
    BY <1>6 DEF V!Ask
  <2> QED
    BY <1>2, <1>6, <2>1, OverlayFacts
<1> QED
  BY <1>3, <1>4, <1>5, <1>6

LEMMA RequestKept == ASSUME V!ProfileAssumption, ProfileInv, V!Request PROVE ProfileInv'
<1>1. /\ op = V!Idle /\ op.pc = "idle" /\ granted = FALSE
      /\ UNCHANGED <<motor, slipped, running, defaults, file, promised, granted>>
  BY IdleFacts DEF V!Request, V!kept, ProfileInv, ProfileTypes
<1> DEFINE Requested(k, a, s) ==
             op' = [V!Idle EXCEPT !.kind = k, !.pc = IF k = "sync" THEN "snap" ELSE "before",
                                  !.ask = a, !.save = s]
           Saves(k) == IF k = "group" THEN BOOLEAN ELSE {k # "entry"}
<1>a. PICK k \in {"group", "acceleration", "speed", "sync", "entry"} :
        \E a \in V!Ask(k) : \E s \in Saves(k) : Requested(k, a, s)
  BY DEF V!Request
<1>b. PICK ask \in V!Ask(k) : \E s \in Saves(k) : Requested(k, ask, s)
  BY <1>a
<1>2. PICK save \in Saves(k) : Requested(k, ask, save)
  BY <1>b
<1>3. op' = [kind |-> k, pc |-> IF k = "sync" THEN "snap" ELSE "before", ask |-> ask,
             save |-> save, was |-> <<>>, snap |-> <<>>, todo |-> {}, prev |-> V!Nothing]
  BY <1>2 DEF V!Idle
<1>4. /\ ask \in V!Profiles
      /\ k = "entry" => \A n \in V!Names :
           ask[n] # V!Unset /\ (promised[n] # V!Unset => ask[n] = promised[n])
  BY <1>1, AskFacts
<1>5. save \in BOOLEAN /\ (k = "entry" => save = FALSE)
  OBVIOUS
<1>6. op'.pc \in {"snap", "before"} /\ op'.kind = k /\ op'.ask = ask /\ op'.save = save
  BY <1>3
<1>7. op' \in Jobs
  BY <1>3, <1>4, <1>5, ProfileValues DEF Jobs, JobKinds, JobPlaces
<1>8. ProfileTypes'
  BY <1>1, <1>7 DEF ProfileInv, ProfileTypes
<1>9. Promises'
  BY <1>1 DEF ProfileInv, Promises
<1>10. Entering'
  BY <1>1, <1>4, <1>5, <1>6 DEF Entering
<1>11. Keeping'
  <2>1. k = "group" => op'.pc = "before"
    BY <1>3
  <2> QED
    BY <1>6, <2>1 DEF Keeping
<1> QED
  BY <1>1, <1>6, <1>8, <1>9, <1>10, <1>11 DEF ProfileInv, Writing, Written, StartingUp, Granted,
    Resting

\* A request that goes on before the motors are written.
LEMMA GoesOnKept ==
  ASSUME V!ProfileAssumption, ProfileInv, op.pc \in {"before", "prime"}, op' \in Jobs,
         op'.pc \in {"prime", "snap"}, op'.kind = op.kind, op'.ask = op.ask, op'.save = op.save,
         op.kind = "group" /\ op'.pc = "snap" => op'.prev = running,
         op'.pc = "prime" => op.kind = "entry",
         UNCHANGED <<motor, slipped, running, defaults, file, promised, granted>>
  PROVE  ProfileInv'
<1>1. ProfileTypes' /\ op.kind # "none" /\ granted = FALSE
  BY IdleFacts, AloneFacts DEF ProfileInv, ProfileTypes, Resting
<1>2. Promises' /\ \A n \in V!Names : promised[n] # V!Unset => running[n] = promised[n]
  BY DEF ProfileInv, Promises
<1>3. Keeping'
  BY <1>2 DEF Keeping
<1>4. Entering' /\ StartingUp'
  BY DEF ProfileInv, Entering, StartingUp
<1> QED
  BY <1>1, <1>2, <1>3, <1>4 DEF ProfileInv, Writing, Written, Granted, Resting

LEMMA BeforeKept == ASSUME V!ProfileAssumption, ProfileInv, V!Before PROVE ProfileInv'
<1>1. /\ op.pc = "before" /\ granted = FALSE /\ op \in Jobs /\ motor \in Motors
      /\ running \in V!Profiles /\ UNCHANGED <<motor, slipped, granted>>
  BY AloneFacts DEF V!Before, V!At, ProfileInv, ProfileTypes
<1>2. CASE V!Fail
  BY <1>1, <1>2, FailKept
<1>3. CASE /\ op' = [op EXCEPT !.pc = IF op.kind = "entry" THEN "prime" ELSE "snap", !.was = motor,
                               !.prev = running]
           /\ UNCHANGED V!kept
  <2>1. PICK pc \in {"prime", "snap"} : pc = IF op.kind = "entry" THEN "prime" ELSE "snap"
    OBVIOUS
  <2>2. op' = [op EXCEPT !.pc = pc, !.was = motor, !.prev = running]
    BY <1>3, <2>1
  <2>3. /\ op'.pc = pc /\ op'.kind = op.kind /\ op'.ask = op.ask /\ op'.save = op.save
        /\ op'.prev = running
    BY <1>1, <2>2 DEF Jobs
  <2>4. op' \in Jobs
    BY <1>1, <2>2 DEF Jobs, JobPlaces
  <2> QED
    BY <1>1, <1>3, <2>1, <2>3, <2>4, GoesOnKept DEF V!kept
<1> QED
  BY <1>2, <1>3 DEF V!Before

LEMMA GotoFacts ==
  ASSUME op \in Jobs, NEW pc \in JobPlaces, V!Goto(pc)
  PROVE  /\ op' \in Jobs /\ op'.pc = pc /\ op'.kind = op.kind /\ op'.ask = op.ask
         /\ op'.save = op.save /\ op'.prev = op.prev /\ op'.todo = op.todo
  BY DEF V!Goto, Jobs

LEMMA PrimeKept == ASSUME V!ProfileAssumption, ProfileInv, V!Prime PROVE ProfileInv'
<1>1. /\ op.pc = "prime" /\ granted = FALSE /\ op \in Jobs /\ motor \in Motors
      /\ UNCHANGED <<motor, slipped, granted>>
  BY AloneFacts DEF V!Prime, V!At, ProfileInv, ProfileTypes
<1>2. CASE V!Fail
  BY <1>1, <1>2, FailKept
<1>3. CASE V!Goto("snap") /\ UNCHANGED V!kept
  <2>1. /\ op' \in Jobs /\ op'.pc = "snap" /\ op'.kind = op.kind /\ op'.ask = op.ask
        /\ op'.save = op.save
    BY <1>1, <1>3, GotoFacts DEF JobPlaces
  <2>2. op.kind # "group"
    BY <1>1 DEF ProfileInv, Resting
  <2> QED
    BY <1>1, <1>3, <2>1, <2>2, GoesOnKept DEF V!kept
<1> QED
  BY <1>2, <1>3 DEF V!Prime

\* The motors are read before they are written: everything asked for is to do.
LEMMA SnapshotKept == ASSUME V!ProfileAssumption, ProfileInv, V!Snapshot PROVE ProfileInv'
<1>1. /\ op.pc = "snap" /\ granted = FALSE /\ op \in Jobs /\ motor \in Motors
      /\ UNCHANGED <<motor, slipped, running, defaults, file, promised, granted>>
  BY AloneFacts DEF V!Snapshot, V!At, V!kept, ProfileInv, ProfileTypes
<1> DEFINE todo == {p \in V!Places : op.ask[p.n] # V!Unset}
<1>2. op' = [op EXCEPT !.pc = "write", !.snap = motor, !.todo = todo]
  BY DEF V!Snapshot
<1>3. todo \in SUBSET V!Places
  OBVIOUS
<1>4. \A n \in V!Names : \A j \in V!Joint : op.ask[n] # V!Unset => [n |-> n, j |-> j] \in todo
  BY DEF V!Places
<1> HIDE DEF todo
<1>5. /\ op'.pc = "write" /\ op'.kind = op.kind /\ op'.ask = op.ask /\ op'.save = op.save
      /\ op'.prev = op.prev /\ op'.todo = todo
  BY <1>1, <1>2 DEF Jobs
<1>6. op' \in Jobs
  BY <1>1, <1>2, <1>3 DEF Jobs, JobPlaces
<1>7. ProfileTypes' /\ op.kind # "none"
  BY <1>1, <1>6, IdleFacts DEF ProfileInv, ProfileTypes, Resting
<1>8. Writing'
  BY <1>4, <1>5 DEF Writing
<1>9. Promises' /\ Entering' /\ StartingUp' /\ Keeping'
  BY <1>1, <1>5 DEF ProfileInv, Promises, Entering, StartingUp, Keeping
<1> QED
  BY <1>1, <1>5, <1>7, <1>8, <1>9 DEF ProfileInv, Written, Granted, Resting

\* A parameter of a joint is written and read back, or the request fails.
LEMMA WriteKept == ASSUME V!ProfileAssumption, ProfileInv, V!WriteNext PROVE ProfileInv'
<1>1. /\ op.pc = "write" /\ granted = FALSE /\ op \in Jobs /\ motor \in Motors
      /\ UNCHANGED granted /\ op.kind # "none"
  BY AloneFacts, IdleFacts DEF V!WriteNext, V!At, ProfileInv, ProfileTypes, Resting
<1> DEFINE Writes(p, m) ==
             /\ motor' = m
             /\ \/ V!Fail
                \/ /\ V!Sure(p, m) /\ op' = [op EXCEPT !.todo = @ \ {p}] /\ UNCHANGED V!kept
                   /\ slipped' = IF p.n = "cv" THEN slipped \ {p.j} ELSE slipped
<1>a. PICK p \in op.todo : \E m \in {motor, [motor EXCEPT ![p.j][p.n] = op.ask[p.n]]} : Writes(p, m)
  BY DEF V!WriteNext
<1>2. PICK m \in {motor, [motor EXCEPT ![p.j][p.n] = op.ask[p.n]]} : Writes(p, m)
  BY <1>a
<1>3. p \in V!Places /\ p.n \in V!Names /\ p.j \in V!Joint /\ p = [n |-> p.n, j |-> p.j]
      /\ op.ask \in V!Profiles
  BY <1>1 DEF Jobs, V!Places
<1>4. /\ m \in Motors
      /\ \A n \in V!Names : \A j \in V!Joint : ~(n = p.n /\ j = p.j) => m[j][n] = motor[j][n]
  <2>1. CASE m = motor
    BY <1>1, <2>1
  <2>2. CASE m = [motor EXCEPT ![p.j][p.n] = op.ask[p.n]]
    <3>1. motor[p.j] \in V!Profiles
      BY <1>1, <1>3 DEF Motors
    <3> DEFINE r == [motor[p.j] EXCEPT ![p.n] = op.ask[p.n]]
    <3>2. r \in V!Profiles /\ \A n \in V!Names : n # p.n => r[n] = motor[p.j][n]
      BY <1>3, <3>1 DEF V!Profiles
    <3>3. m = [motor EXCEPT ![p.j] = r]
      BY <2>2
    <3> HIDE DEF r
    <3> QED
      BY <1>1, <1>3, <3>2, <3>3 DEF Motors
  <2> QED
    BY <2>1, <2>2
<1>5. CASE V!Fail
  BY <1>1, <1>2, <1>4, <1>5, FailKept
<1>6. CASE /\ V!Sure(p, m) /\ op' = [op EXCEPT !.todo = @ \ {p}] /\ UNCHANGED V!kept
           /\ slipped' = IF p.n = "cv" THEN slipped \ {p.j} ELSE slipped
  <2>1. /\ op'.pc = "write" /\ op'.kind = op.kind /\ op'.ask = op.ask /\ op'.save = op.save
        /\ op'.prev = op.prev /\ op'.todo = op.todo \ {p} /\ op' \in Jobs
    BY <1>1, <1>6 DEF Jobs
  <2>2. /\ UNCHANGED <<running, defaults, file, promised>> /\ m[p.j][p.n] = op.ask[p.n]
    BY <1>6 DEF V!kept, V!Sure
  <2>3. ASSUME NEW n \in V!Names, NEW j \in V!Joint, op.ask[n] # V!Unset
        PROVE  [n |-> n, j |-> j] \in op'.todo \/ Set(n, j)'
    <3>1. CASE n = p.n /\ j = p.j
      BY <1>2, <2>1, <2>2, <3>1 DEF Set
    <3>2. CASE ~(n = p.n /\ j = p.j)
      <4>1. [n |-> n, j |-> j] # p
        BY <3>2
      <4>2. motor'[j][n] = motor[j][n]
        BY <1>2, <1>4, <3>2
      <4>3. n = "cv" /\ j \in slipped => j \in slipped'
        BY <1>6, <3>2
      <4>4. [n |-> n, j |-> j] \in op.todo \/ Set(n, j)
        BY <1>1, <2>3 DEF ProfileInv, Writing
      <4> QED
        BY <2>1, <4>1, <4>2, <4>3, <4>4 DEF Set
    <3> QED
      BY <3>1, <3>2
  <2>4. Writing'
    BY <2>1, <2>3 DEF Writing
  <2>5. ProfileTypes'
    BY <1>1, <1>2, <1>4, <2>1, <2>2 DEF ProfileInv, ProfileTypes
  <2>6. Promises' /\ Entering' /\ StartingUp' /\ Keeping'
    BY <1>1, <2>1, <2>2 DEF ProfileInv, Promises, Entering, StartingUp, Keeping
  <2> QED
    BY <1>1, <2>1, <2>4, <2>5, <2>6 DEF ProfileInv, Written, Granted, Resting
<1> QED
  BY <1>2, <1>5, <1>6

LEMMA ConfiguredKept == ASSUME V!ProfileAssumption, ProfileInv, V!Configured PROVE ProfileInv'
<1>1. /\ op.pc = "write" /\ op.todo = {} /\ granted = FALSE /\ op \in Jobs /\ op.kind # "none"
      /\ running \in V!Profiles /\ op.ask \in V!Profiles
      /\ UNCHANGED <<motor, slipped, defaults, file, promised, granted>>
  BY AloneFacts, IdleFacts DEF V!Configured, V!At, ProfileInv, ProfileTypes, Resting, Jobs
<1>2. /\ op' \in Jobs /\ op'.pc = "after" /\ op'.kind = op.kind /\ op'.ask = op.ask
      /\ op'.save = op.save /\ op'.prev = op.prev
  BY <1>1, GotoFacts DEF V!Configured, JobPlaces
<1>3. /\ running' \in V!Profiles
      /\ \A n \in V!Names : running'[n] = IF op.ask[n] = V!Unset THEN running[n] ELSE op.ask[n]
  BY <1>1, OverlayFacts DEF V!Configured
<1>4. ProfileTypes'
  BY <1>1, <1>2, <1>3 DEF ProfileInv, ProfileTypes
<1>5. Written'
  BY <1>1, <1>2, <1>3 DEF ProfileInv, Writing, Written, Set
<1>6. Promises' /\ Entering' /\ StartingUp' /\ Keeping'
  BY <1>1, <1>2, <1>3 DEF ProfileInv, Promises, Entering, StartingUp, Keeping
<1> QED
  BY <1>1, <1>2, <1>4, <1>5, <1>6 DEF ProfileInv, Writing, Granted, Resting

\* After an entry the profile in effect is the one it has written.
LEMMA EntryFacts ==
  ASSUME V!ProfileAssumption, ProfileInv, op.kind = "entry", op.pc = "after"
  PROVE  V!Has(V!Effective) /\ V!Has(promised)
<1>1. /\ running \in V!Profiles /\ defaults \in V!Profiles /\ Limits \in V!Profiles
      /\ op.kind # "startup"
  BY ProfileValues DEF ProfileInv, ProfileTypes
<1>2. \A n \in V!Names : op.ask[n] # V!Unset /\ running[n] = op.ask[n]
  BY DEF ProfileInv, Entering, Written
<1>3. V!Overlay(Limits, defaults) \in V!Profiles
  BY <1>1, OverlayFacts
<1>4. \A n \in V!Names : V!Effective[n] = op.ask[n]
  BY <1>1, <1>2, <1>3, OverlayFacts DEF V!Effective
<1>5. \A n \in V!Names : promised[n] # V!Unset => op.ask[n] = promised[n]
  BY DEF ProfileInv, Entering
<1>6. \A n \in V!Names : \A j \in V!Joint : Set(n, j)
  BY <1>2 DEF ProfileInv, Written
<1> QED
  BY <1>4, <1>5, <1>6 DEF V!Has, Set

LEMMA AfterKept == ASSUME V!ProfileAssumption, ProfileInv, V!After PROVE ProfileInv'
<1>1. /\ op.pc = "after" /\ granted = FALSE /\ op \in Jobs /\ motor \in Motors
      /\ op.kind # "none" /\ UNCHANGED motor /\ op.save \in BOOLEAN
  BY AloneFacts, IdleFacts DEF V!After, V!At, ProfileInv, ProfileTypes, Resting, Jobs
<1>2. CASE V!Fail /\ UNCHANGED <<slipped, granted>>
  BY <1>1, <1>2, FailKept
<1>3. CASE /\ V!Agrees /\ UNCHANGED <<running, defaults, file>>
           /\ IF op.save THEN V!Goto("save") /\ UNCHANGED promised ELSE V!Done
           /\ granted' = (op.kind = "entry")
           /\ slipped' = IF op.kind \in {"group", "acceleration", "speed"} THEN {} ELSE slipped
  <2>1. granted' \in BOOLEAN
    BY <1>3
  <2>2. CASE op.save = FALSE
    <3>1. V!Done
      BY <1>3, <2>2
    <3>2. /\ op' = V!Idle /\ promised' \in V!Profiles
          /\ \A n \in V!Names : promised'[n] # V!Unset => running[n] = promised'[n]
      BY <1>1, <3>1, DoneFacts
    <3>3. ProfileTypes'
      BY <1>1, <1>3, <2>1, <3>2, IdleFacts DEF ProfileInv, ProfileTypes
    <3>4. ASSUME granted' PROVE V!Has(V!Effective)' /\ V!Has(promised)'
      <4>1. op.kind = "entry"
        BY <1>3, <3>4
      <4>2. V!Has(V!Effective) /\ V!Has(promised)
        BY <1>1, <4>1, EntryFacts
      <4>3. UNCHANGED <<motor, slipped, running, defaults, promised>>
        BY <1>1, <1>3, <3>1, <4>1 DEF V!Done
      <4> QED
        BY <4>2, <4>3 DEF V!Has, V!Effective, V!Overlay
    <3> QED
      BY <1>3, <3>2, <3>3, <3>4, EndKept
  <2>3. CASE op.save = TRUE
    <3>1. V!Goto("save") /\ UNCHANGED promised /\ op.kind # "entry" /\ op.kind # "startup"
      BY <1>3, <2>3 DEF ProfileInv, Entering, StartingUp
    <3>2. /\ op' \in Jobs /\ op'.pc = "save" /\ op'.kind = op.kind /\ op'.ask = op.ask
          /\ op'.save = op.save /\ op'.prev = op.prev
      BY <1>1, <3>1, GotoFacts DEF JobPlaces
    <3>3. ProfileTypes'
      BY <1>1, <1>3, <2>1, <3>1, <3>2 DEF ProfileInv, ProfileTypes
    <3>4. ASSUME NEW n \in V!Names, op.ask[n] # V!Unset, NEW j \in V!Joint PROVE Set(n, j)'
      <4>1. CASE op.kind \in {"group", "acceleration", "speed"}
        BY <1>1, <1>3, <3>2, <3>4, <4>1 DEF V!Agrees, Set
      <4>2. CASE op.kind \notin {"group", "acceleration", "speed"}
        BY <1>1, <1>3, <3>2, <3>4, <4>2 DEF ProfileInv, Written, Set
      <4> QED
        BY <4>1, <4>2
    <3>5. Written'
      BY <1>1, <1>3, <3>2, <3>4 DEF ProfileInv, Written
    <3>6. Promises'
      BY <1>1, <1>3, <3>1, <3>2 DEF ProfileInv, Promises
    <3> QED
      BY <1>1, <1>3, <3>1, <3>2, <3>3, <3>5, <3>6 DEF ProfileInv, Writing, Entering, StartingUp,
        Keeping, Granted, Resting
  <2> QED
    BY <1>1, <2>2, <2>3
<1> QED
  BY <1>2, <1>3 DEF V!After

LEMMA SaveKept == ASSUME V!ProfileAssumption, ProfileInv, V!Save PROVE ProfileInv'
<1>1. /\ op.pc = "save" /\ granted = FALSE /\ op \in Jobs /\ motor \in Motors
      /\ UNCHANGED <<motor, slipped, granted>>
  BY AloneFacts DEF V!Save, V!At, ProfileInv, ProfileTypes
<1>2. CASE V!Fail
  BY <1>1, <1>2, FailKept
<1>3. CASE /\ defaults' = V!Overlay(defaults, op.ask) /\ file' = defaults'
           /\ V!Done /\ UNCHANGED running
  <2>1. /\ op' = V!Idle /\ promised' \in V!Profiles
        /\ \A n \in V!Names : promised'[n] # V!Unset => running[n] = promised'[n]
    BY <1>1, <1>3, DoneFacts
  <2>2. defaults' \in V!Profiles
    BY <1>1, <1>3, OverlayFacts DEF ProfileInv, ProfileTypes, Jobs
  <2>3. ProfileTypes'
    BY <1>1, <1>3, <2>1, <2>2, IdleFacts DEF ProfileInv, ProfileTypes
  <2> QED
    BY <1>1, <1>3, <2>1, <2>3, EndKept
<1> QED
  BY <1>2, <1>3 DEF V!Save

LEMMA SessionEndsKept == ASSUME V!ProfileAssumption, ProfileInv, V!SessionEnds PROVE ProfileInv'
<1>1. /\ op = V!Idle /\ granted' = FALSE
      /\ UNCHANGED <<motor, slipped, running, defaults, file, promised, op>>
  BY DEF V!SessionEnds, V!kept
<1>2. ProfileTypes'
  BY <1>1 DEF ProfileInv, ProfileTypes
<1>3. \A n \in V!Names : promised[n] # V!Unset => running[n] = promised[n]
  BY <1>1, IdleFacts DEF ProfileInv, Promises
<1> QED
  BY <1>1, <1>2, <1>3, EndKept

\* What the firmware puts back is on record.
LEMMA SettleKept == ASSUME V!ProfileAssumption, ProfileInv, V!Settle PROVE ProfileInv'
<1>1. PICK i \in settling : /\ motor' = [motor EXCEPT ![i]["cv"] = V!Firmware]
                            /\ slipped' = slipped \cup {i}
  BY DEF V!Settle
<1>2. UNCHANGED <<running, defaults, file, promised, granted, op>>
  BY DEF V!Settle, V!kept
<1>3. motor \in Motors
  BY DEF ProfileInv, ProfileTypes
<1>4. /\ motor' \in Motors
      /\ \A n \in V!Names : \A j \in V!Joint : ~(n = "cv" /\ j = i) => motor'[j][n] = motor[j][n]
  <2> DEFINE r == [motor[i] EXCEPT !["cv"] = V!Firmware]
  <2>1. motor' = [motor EXCEPT ![i] = r]
    BY <1>1
  <2>2. ASSUME i \in V!Joint
        PROVE  r \in V!Profiles /\ \A n \in V!Names : n # "cv" => r[n] = motor[i][n]
    BY <1>3, <2>2 DEF Motors, V!Profiles, V!Values
  <2> HIDE DEF r
  <2> QED
    BY <1>3, <2>1, <2>2 DEF Motors
<1>5. ProfileTypes'
  BY <1>2, <1>4 DEF ProfileInv, ProfileTypes
<1>6. \A n \in V!Names : \A j \in V!Joint : Set(n, j) => Set(n, j)'
  BY <1>1, <1>2, <1>4 DEF Set
<1>7. Writing' /\ Written'
  BY <1>2, <1>6 DEF ProfileInv, Writing, Written
<1>8. Granted'
  <2>1. ASSUME NEW pr, V!Has(pr) PROVE \A j \in V!Joint : \A n \in V!Names : pr[n] # V!Unset =>
              motor'[j][n] = pr[n] \/ (n = "cv" /\ j \in slipped')
    BY <1>1, <1>4, <2>1 DEF V!Has
  <2>2. V!Effective' = V!Effective
    BY <1>2 DEF V!Effective, V!Overlay
  <2> QED
    BY <1>2, <2>1, <2>2 DEF ProfileInv, Granted, V!Has
<1>9. Promises' /\ Entering' /\ StartingUp' /\ Keeping' /\ Resting'
  BY <1>2 DEF ProfileInv, Promises, Entering, StartingUp, Keeping, Resting
<1> QED
  BY <1>5, <1>7, <1>8, <1>9 DEF ProfileInv

LEMMA RestartKept == ASSUME V!ProfileAssumption, ProfileInv, V!Restart PROVE ProfileInv'
<1>1. /\ running' = V!Nothing /\ promised' = V!Nothing /\ defaults' = file /\ granted' = FALSE
      /\ op' \in V!Starting(file) /\ UNCHANGED file /\ file \in V!Profiles
  BY DEF V!Restart, ProfileInv, ProfileTypes
<1>2. /\ op' \in Jobs /\ op'.pc \in {"idle", "snap"} /\ op'.kind \in {"none", "startup"}
      /\ (op'.kind = "none" => op' = V!Idle) /\ op'.save = FALSE
  BY <1>1, StartFacts
<1>3. motor' \in Motors
  <2>1. [j \in V!Joint |-> [n \in V!Names |-> V!Firmware]] \in Motors
    BY DEF Motors, V!Profiles, V!Values
  <2> QED
    BY <2>1 DEF V!Restart, ProfileInv, ProfileTypes
<1>4. ProfileTypes'
  BY <1>1, <1>2, <1>3, ProfileValues DEF ProfileTypes
<1>5. \A n \in V!Names : promised'[n] = V!Unset
  BY <1>1, ProfileValues
<1> QED
  BY <1>1, <1>2, <1>4, <1>5 DEF ProfileInv, Writing, Written, Promises, Entering, StartingUp,
    Keeping, Granted, Resting

LEMMA ProfileStep ==
  ASSUME V!ProfileAssumption, ProfileInv, [V!Next]_(V!vars) PROVE ProfileInv'
<1>1. CASE UNCHANGED V!vars
  <2>1. UNCHANGED <<motor, slipped, running, defaults, file, promised, granted, op>>
    BY <1>1 DEF V!vars
  <2> QED
    BY <2>1 DEF ProfileInv, ProfileTypes, Writing, Written, Promises, Entering, StartingUp,
      Keeping, Granted, Resting, Set, V!Has, V!Effective, V!Overlay
<1> QED
  BY <1>1, RequestKept, BeforeKept, PrimeKept, SnapshotKept, WriteKept, ConfiguredKept, AfterKept,
    SaveKept, SessionEndsKept, SettleKept, RestartKept DEF V!Next

\* For every number of joints, every set of values an operator asks for and every number of requests
\* and starts: a session runs with what the last requests to succeed have promised, on every joint
\* but for a CV the firmware has put back since, and what is about to be saved has been on every
\* joint (control.py:316-358, 489-616, 618-747, robot.py:1262-1350).
THEOREM ProfilesAreKept == V!ProfileAssumption => (V!Spec => []V!ProfileKept)
<1> SUFFICES ASSUME V!ProfileAssumption PROVE V!Spec => []V!ProfileKept
  OBVIOUS
<1>1. V!Init => ProfileInv
  BY ProfileInit
<1>2. ProfileInv /\ [V!Next]_(V!vars) => ProfileInv'
  BY ProfileStep
<1>3. ProfileInv => V!ProfileKept
  BY DEF ProfileInv, Granted, Written, Set, V!ProfileKept, V!SessionHasProfile,
    V!SavedWasApplied, V!Has, V!At
<1> QED
  BY <1>1, <1>2, <1>3, PTL DEF V!Spec

-----------------------------------------------------------------------------
\* The recording of episodes.

CONSTANTS Stoppers, Journal, History, Pending, MaxInput, MaxFrame, MaxState, MaxEpisode
VARIABLES inputs, camera, states, starter, active, threads, stopping, stopper, episodes, saved,
          torn

X == INSTANCE Recorder

\* What tells episodes apart, and whether the files of one are open.
Shaped(ep) == {"id", "open"} \subseteq DOMAIN ep

RecorderTypes ==
  /\ episodes \in Nat /\ Shaped(active) /\ active.id \in 0..episodes
  /\ DOMAIN stopper = Stoppers
  /\ \A s \in Stoppers : DOMAIN stopper[s] = {"pc", "id", "i1"} /\ stopper[s].id \in Nat
  /\ DOMAIN starter = {"pc", "ep"} /\ Shaped(starter.ep)
  /\ \A t \in threads : t[2] # 0

\* No stop() waits for an episode that is still being started, and no other is active.
Younger ==
  /\ \A s \in Stoppers : stopper[s].id <= episodes
  /\ starter.pc = "stamped" =>
       /\ starter.ep.id = episodes /\ episodes # 0 /\ starter.ep.open = TRUE
       /\ active.id = 0
       /\ \A s \in Stoppers : stopper[s].id < episodes

\* Threads have open files, unless a stop() of another episode has judged theirs; a stop() that has
\* joined its episode's threads leaves none behind.
Attended ==
  /\ \A t \in threads : t[2] \notin torn => active.id = t[2] /\ active.open = TRUE
  /\ \A s \in Stoppers : stopper[s].pc = "final" =>
       stopper[s].id \in torn \/ \A t \in threads : t[2] # stopper[s].id

FilesInv == RecorderTypes /\ Younger /\ Attended

LEMMA NoEpisodeFacts ==
  /\ Shaped(X!NoEpisode) /\ X!NoEpisode.id = 0 /\ X!NoEpisode.open = TRUE
  BY DEF Shaped, X!NoEpisode

LEMMA RecorderInit == ASSUME X!Init PROVE FilesInv
<1>1. /\ active = X!NoEpisode /\ threads = {} /\ episodes = 0
      /\ starter = [pc |-> "idle", ep |-> X!NoEpisode]
      /\ stopper = [s \in Stoppers |-> [pc |-> "idle", id |-> 0, i1 |-> 0]]
  BY DEF X!Init, X!NoStop
<1>2. RecorderTypes
  BY <1>1, NoEpisodeFacts DEF RecorderTypes
<1> QED
  BY <1>1, <1>2 DEF FilesInv, Younger, Attended

\* The same episode, its files as they were.
Same(ep, new) == Shaped(new) /\ new.id = ep.id /\ new.open = ep.open

LEMMA DrainedInputsSame ==
  ASSUME NEW ep, Shaped(ep), NEW n PROVE Same(ep, X!DrainedInputs(ep, n))
<1>1. ASSUME NEW a, NEW b, NEW c, NEW d
      PROVE  Same(ep, [ep EXCEPT !.row = a, !.reject = b, !.inputs = c, !.missed = d])
  BY DEF Same, Shaped
<1> QED
  BY <1>1, Zenon DEF X!DrainedInputs

LEMMA FailedDrainsSame ==
  ASSUME NEW ep, Shaped(ep), NEW new \in X!FailedDrains(ep) PROVE Same(ep, new)
<1>1. PICK n, missed :
        new = [X!DrainedInputs(ep, n - 1) EXCEPT !.row = n, !.missed = missed]
  BY Zenon DEF X!FailedDrains
<1>2. Same(ep, X!DrainedInputs(ep, n - 1))
  BY DrainedInputsSame
<1> QED
  BY <1>1, <1>2 DEF Same, Shaped

LEMMA CommittedSame ==
  ASSUME NEW ep, Shaped(ep), NEW k, NEW bad PROVE Same(ep, X!Committed(ep, k, bad))
<1>1. ASSUME NEW a, NEW b, NEW c
      PROVE  Same(ep, [ep EXCEPT !.frames = a, !.waiting = b, !.reject = c])
  BY DEF Same, Shaped
<1> QED
  BY <1>1, Zenon DEF X!Committed

LEMMA DrainedFramesSame ==
  ASSUME NEW ep, Shaped(ep) PROVE Same(ep, X!DrainedFrames(ep))
<1>1. ASSUME NEW a, NEW b, NEW c, NEW d, NEW e
      PROVE  Same(ep, [ep EXCEPT !.waiting = a, !.last = b, !.dropped = c, !.frame = d,
                                 !.reject = e])
  BY DEF Same, Shaped
<1>2. Same(ep, ep)
  BY DEF Same
<1> QED
  BY <1>1, <1>2, Zenon DEF X!DrainedFrames

\* A step that leaves the episode's identity and files, and no new thread, changes nothing here.
LEMMA FilesKept ==
  ASSUME FilesInv, Same(active, active'), threads' \subseteq threads,
         UNCHANGED <<stopper, episodes, torn>>,
         \/ UNCHANGED starter
         \/ \E b : starter' = [starter EXCEPT !.ep.mixed = b]
  PROVE  FilesInv'
<1>1. /\ DOMAIN starter' = {"pc", "ep"} /\ Shaped(starter.ep)' /\ starter'.pc = starter.pc
      /\ starter'.ep.id = starter.ep.id /\ starter'.ep.open = starter.ep.open
  <2>1. CASE UNCHANGED starter
    BY <2>1 DEF FilesInv, RecorderTypes, Shaped
  <2>2. ASSUME NEW b, starter' = [starter EXCEPT !.ep.mixed = b]
        PROVE  /\ DOMAIN starter' = {"pc", "ep"} /\ Shaped(starter.ep)'
               /\ starter'.pc = starter.pc
               /\ starter'.ep.id = starter.ep.id /\ starter'.ep.open = starter.ep.open
    <3> DEFINE e == [starter.ep EXCEPT !.mixed = b]
    <3>1. DOMAIN starter = {"pc", "ep"} /\ {"id", "open"} \subseteq DOMAIN starter.ep
      BY DEF FilesInv, RecorderTypes, Shaped
    <3>2. {"id", "open"} \subseteq DOMAIN e /\ e.id = starter.ep.id /\ e.open = starter.ep.open
      BY <3>1
    <3>3. starter' = [starter EXCEPT !.ep = e]
      BY <2>2
    <3> HIDE DEF e
    <3>4. DOMAIN starter' = {"pc", "ep"} /\ starter'.ep = e /\ starter'.pc = starter.pc
      BY <3>1, <3>3
    <3> QED
      BY <3>2, <3>4 DEF Shaped
  <2> QED
    BY <2>1, <2>2
<1>2. RecorderTypes'
  BY <1>1 DEF FilesInv, RecorderTypes, Same, Shaped
<1>3. Younger'
  BY <1>1 DEF FilesInv, Younger, Same
<1>4. Attended'
  BY DEF FilesInv, Attended, Same
<1> QED
  BY <1>2, <1>3, <1>4 DEF FilesInv

LEMMA StaysSame == ASSUME FilesInv, UNCHANGED active PROVE Same(active, active')
  BY DEF FilesInv, RecorderTypes, Same, Shaped

\* Activating or deactivating the camera only marks the episode.
LEMMA MixedKept ==
  ASSUME FilesInv, X!Mixed, starter' = [starter EXCEPT !.ep.mixed = starter.pc = "stamped"],
         UNCHANGED <<threads, stopper, episodes, torn>>
  PROVE  FilesInv'
<1>1. Same(active, active')
  <2>1. Shaped(active)
    BY DEF FilesInv, RecorderTypes
  <2>2. CASE active' = [active EXCEPT !.mixed = TRUE]
    BY <2>1, <2>2 DEF Same, Shaped
  <2>3. CASE active' = active
    BY <2>3, StaysSame
  <2> QED
    BY <2>2, <2>3 DEF X!Mixed
<1> QED
  BY <1>1, FilesKept

LEMMA StartStampKept == ASSUME FilesInv, X!StartStamp PROVE FilesInv'
<1>1. /\ episodes' = episodes + 1 /\ UNCHANGED <<active, threads, stopper, torn>>
      /\ active.id = 0
  BY NoEpisodeFacts DEF X!StartStamp, X!Recording
<1>2. PICK a, b, c, d, e : starter' =
        [pc |-> "stamped", ep |-> [X!NoEpisode EXCEPT !.id = episodes + 1, !.r0 = a, !.i0 = b,
                                                      !.f0 = c, !.s0 = d, !.uses = e]]
  BY DEF X!StartStamp
<1> DEFINE ep == [X!NoEpisode EXCEPT !.id = episodes + 1, !.r0 = a, !.i0 = b, !.f0 = c, !.s0 = d,
                                     !.uses = e]
<1>3. Shaped(ep) /\ ep.id = episodes + 1 /\ ep.open = TRUE
  BY NoEpisodeFacts DEF Shaped
<1> HIDE DEF ep
<1>4. DOMAIN starter' = {"pc", "ep"} /\ starter'.ep = ep /\ starter'.pc = "stamped"
  <2>1. starter' = [pc |-> "stamped", ep |-> ep]
    BY <1>2 DEF ep
  <2> QED
    BY <2>1
<1>5. RecorderTypes'
  BY <1>1, <1>3, <1>4 DEF FilesInv, RecorderTypes
<1>6. Younger'
  BY <1>1, <1>3, <1>4 DEF FilesInv, RecorderTypes, Younger
<1>7. Attended'
  BY <1>1 DEF FilesInv, Attended
<1> QED
  BY <1>5, <1>6, <1>7 DEF FilesInv

\* A new episode is younger than what any stop() waits for.
LEMMA StartGoKept == ASSUME FilesInv, X!StartGo PROVE FilesInv'
<1>1. /\ starter.pc = "stamped" /\ starter' = [pc |-> "idle", ep |-> X!NoEpisode]
      /\ threads' = threads \cup (X!Kinds \X {starter.ep.id})
      /\ UNCHANGED <<stopper, episodes, torn>>
  BY DEF X!StartGo
<1>2. PICK a, b, c, d, e : active' =
        [starter.ep EXCEPT !.row = a, !.c0 = b, !.frame = c, !.state = d, !.shared = e]
  BY Zenon DEF X!StartGo
<1>3. /\ Shaped(starter.ep) /\ starter.ep.id = episodes /\ starter.ep.open = TRUE
      /\ \A s \in Stoppers : stopper[s].id < episodes /\ stopper[s].id \in Nat
      /\ episodes \in Nat /\ episodes # 0 /\ active.id = 0
  BY <1>1 DEF FilesInv, RecorderTypes, Younger
<1>4. Shaped(active') /\ active'.id = episodes /\ active'.open = TRUE
  BY <1>2, <1>3 DEF Shaped
<1>5. DOMAIN starter' = {"pc", "ep"} /\ starter'.ep = X!NoEpisode /\ starter'.pc = "idle"
  BY <1>1
<1>6. \A t \in threads' : t \in threads \/ t[2] = episodes
  BY <1>1, <1>3
<1>7. \A t \in threads : t[2] \in torn
  BY <1>3 DEF FilesInv, RecorderTypes, Attended
<1>8. RecorderTypes'
  BY <1>1, <1>3, <1>4, <1>5, <1>6, NoEpisodeFacts DEF FilesInv, RecorderTypes
<1>9. Younger'
  BY <1>1, <1>5 DEF FilesInv, Younger
<1>10. Attended'
  BY <1>1, <1>3, <1>4, <1>6, <1>7 DEF FilesInv, Attended
<1> QED
  BY <1>8, <1>9, <1>10 DEF FilesInv

LEMMA InputStepKept == ASSUME FilesInv, X!InputStep PROVE FilesInv'
<1>1. Shaped(active) /\ UNCHANGED <<starter, threads, stopper, episodes, torn>>
  BY DEF FilesInv, RecorderTypes, X!InputStep
<1>2. Same(active, active')
  <2>1. CASE active' = X!DrainedInputs(active, Len(inputs.rows))
    BY <1>1, <2>1, DrainedInputsSame
  <2>2. ASSUME NEW ep \in X!FailedDrains(active), active' = [ep EXCEPT !.reject = TRUE]
        PROVE  Same(active, active')
    <3>1. Same(active, ep)
      BY <1>1, FailedDrainsSame
    <3> QED
      BY <2>2, <3>1 DEF Same, Shaped
  <2> QED
    BY <2>1, <2>2, Zenon DEF X!InputStep
<1> QED
  BY <1>1, <1>2, FilesKept

LEMMA CameraStepKept == ASSUME FilesInv, X!CameraStep PROVE FilesInv'
<1>1. Shaped(active) /\ UNCHANGED <<starter, threads, stopper, episodes, torn>>
  BY DEF FilesInv, RecorderTypes, X!CameraStep
<1>2. PICK k, bad : active' = X!DrainedFrames(X!Committed(active, k, bad))
  BY Zenon DEF X!CameraStep
<1>3. Same(active, X!Committed(active, k, bad))
  BY <1>1, CommittedSame
<1>4. Same(X!Committed(active, k, bad), active')
  BY <1>2, <1>3, DrainedFramesSame DEF Same
<1> QED
  BY <1>1, <1>3, <1>4, FilesKept DEF Same

LEMMA RobotStepKept == ASSUME FilesInv, X!RobotStep PROVE FilesInv'
<1>1. Shaped(active) /\ UNCHANGED <<starter, threads, stopper, episodes, torn>>
  BY DEF FilesInv, RecorderTypes, X!RobotStep
<1>2. ASSUME NEW a, NEW b, NEW c
      PROVE  Same(active, [active EXCEPT !.state = a, !.reject = b, !.states = c])
  BY <1>1 DEF Same, Shaped
<1>3. Same(active, active')
  <2>1. PICK a, b, c : active' = [active EXCEPT !.state = a, !.reject = b, !.states = c]
    BY Zenon DEF X!RobotStep
  <2> QED
    BY <1>2, <2>1, Zenon
<1> QED
  BY <1>1, <1>3, FilesKept

\* A stop() that begins or ends concerns no other.
LEMMA OthersStop ==
  ASSUME FilesInv, NEW s \in Stoppers, NEW new, stopper' = [stopper EXCEPT ![s] = new],
         DOMAIN new = {"pc", "id", "i1"}, new.id \in Nat
  PROVE  /\ DOMAIN stopper' = Stoppers /\ stopper'[s] = new
         /\ \A r \in Stoppers : r # s => stopper'[r] = stopper[r]
         /\ \A r \in Stoppers : DOMAIN stopper'[r] = {"pc", "id", "i1"} /\ stopper'[r].id \in Nat
  BY DEF FilesInv, RecorderTypes

LEMMA StopBeginKept ==
  ASSUME FilesInv, NEW s \in Stoppers, X!StopBegin(s) PROVE FilesInv'
<1> DEFINE new == [X!NoStop EXCEPT !.pc = "join", !.id = active.id]
<1>1. /\ stopper' = [stopper EXCEPT ![s] = new]
      /\ starter.pc = "idle" /\ UNCHANGED <<starter, active, threads, episodes, torn>>
  BY DEF X!StopBegin
<1>2. active.id \in 0..episodes /\ episodes \in Nat
  BY DEF FilesInv, RecorderTypes
<1>3. DOMAIN new = {"pc", "id", "i1"} /\ new.pc = "join" /\ new.id = active.id
  BY DEF X!NoStop
<1> HIDE DEF new
<1>4. /\ DOMAIN stopper' = Stoppers /\ stopper'[s] = new
      /\ \A r \in Stoppers : r # s => stopper'[r] = stopper[r]
      /\ \A r \in Stoppers : DOMAIN stopper'[r] = {"pc", "id", "i1"} /\ stopper'[r].id \in Nat
  <2>1. new.id \in Nat
    BY <1>2, <1>3
  <2> QED
    BY <1>1, <1>3, <2>1, OthersStop, Zenon
<1>5. RecorderTypes'
  BY <1>1, <1>4 DEF FilesInv, RecorderTypes
<1>6. Younger'
  BY <1>1, <1>2, <1>3, <1>4 DEF FilesInv, Younger
<1>7. Attended'
  BY <1>1, <1>3, <1>4 DEF FilesInv, Attended
<1> QED
  BY <1>5, <1>6, <1>7 DEF FilesInv

LEMMA StopJoinKept ==
  ASSUME FilesInv, NEW s \in Stoppers, X!StopJoin(s) PROVE FilesInv'
<1>1. UNCHANGED <<starter, active, threads, episodes, torn>>
  BY DEF X!StopJoin
<1>2. PICK new :
        /\ stopper' = [stopper EXCEPT ![s] = new]
        /\ DOMAIN new = {"pc", "id", "i1"} /\ new.id \in {0, stopper[s].id}
        /\ new.pc = "final" => new.id \in torn \/ \A t \in threads : t[2] # new.id
  <2>1. CASE /\ (\A t \in threads : t[2] # stopper[s].id) \/ stopper[s].id \in torn
             /\ stopper' = X!Joined(s)
    <3> DEFINE new == [stopper[s] EXCEPT !.pc = "final", !.i1 = inputs.received]
    <3>1. DOMAIN stopper[s] = {"pc", "id", "i1"} /\ DOMAIN stopper = Stoppers
      BY DEF FilesInv, RecorderTypes
    <3>2. DOMAIN new = {"pc", "id", "i1"} /\ new.id = stopper[s].id
      BY <3>1
    <3>3. stopper' = [stopper EXCEPT ![s] = new]
      BY <2>1, <3>1 DEF X!Joined
    <3> HIDE DEF new
    <3> QED
      BY <2>1, <3>2, <3>3
  <2>2. CASE stopper' = [stopper EXCEPT ![s] = X!NoStop]
    <3>1. DOMAIN X!NoStop = {"pc", "id", "i1"} /\ X!NoStop.id = 0 /\ X!NoStop.pc = "idle"
      BY DEF X!NoStop
    <3> QED
      BY <2>2, <3>1
  <2> QED
    BY <2>1, <2>2, Zenon DEF X!StopJoin
<1>3. /\ \A t \in Stoppers : stopper[t].id <= episodes /\ stopper[t].id \in Nat
      /\ (starter.pc = "stamped" => \A t \in Stoppers : stopper[t].id < episodes)
      /\ (starter.pc = "stamped" => episodes > 0) /\ episodes \in Nat
  BY DEF FilesInv, RecorderTypes, Younger
<1>4. /\ DOMAIN stopper' = Stoppers /\ stopper'[s] = new
      /\ \A r \in Stoppers : r # s => stopper'[r] = stopper[r]
      /\ \A r \in Stoppers : DOMAIN stopper'[r] = {"pc", "id", "i1"} /\ stopper'[r].id \in Nat
  <2>1. new.id \in Nat
    BY <1>2, <1>3
  <2> QED
    BY <1>2, <2>1, OthersStop, Zenon
<1>5. RecorderTypes'
  BY <1>1, <1>4 DEF FilesInv, RecorderTypes
<1>6. Younger'
  BY <1>1, <1>2, <1>3, <1>4 DEF FilesInv, Younger
<1>7. Attended'
  BY <1>1, <1>2, <1>4 DEF FilesInv, Attended
<1> QED
  BY <1>5, <1>6, <1>7 DEF FilesInv

\* The episode a stop() finds, and the one it makes of it, are the same.
LEMMA JudgedSame ==
  ASSUME FilesInv, NEW s \in Stoppers PROVE Same(active, X!Judged(s))
<1>1. ASSUME NEW a, NEW b PROVE Same(active, [active EXCEPT !.end = a, !.shared = b])
  BY DEF FilesInv, RecorderTypes, Same, Shaped
<1> QED
  BY <1>1, Zenon DEF X!Judged

LEMMA DrainFailsSame ==
  ASSUME NEW ep, Shaped(ep), X!DrainFails(ep) PROVE Same(ep, active')
<1>1. CASE active' = ep
  BY <1>1 DEF Same
<1>2. CASE active' = X!DrainedInputs(ep, Len(inputs.rows))
  BY <1>2, DrainedInputsSame
<1>3. CASE active' \in X!FailedDrains(ep)
  BY <1>3, FailedDrainsSame
<1> QED
  BY <1>1, <1>2, <1>3, Zenon DEF X!DrainFails

LEMMA ClosesSame ==
  ASSUME NEW ep, Shaped(ep), X!Closes(ep)
  PROVE  Shaped(active') /\ active'.id \in {0, ep.id}
<1>1. PICK bad : active' = X!NoEpisode \/ active' = [X!Finished(ep, bad) EXCEPT !.open = FALSE]
  BY Zenon DEF X!Closes
<1>2. Shaped(X!Finished(ep, bad)) /\ X!Finished(ep, bad).id = ep.id
  <2> DEFINE done == X!DrainedInputs(ep, Len(inputs.rows))
  <2>1. Same(ep, done)
    BY DrainedInputsSame
  <2>2. Same(done, X!Committed(done, Len(ep.waiting), bad))
    BY <2>1, CommittedSame DEF Same
  <2> QED
    BY <2>1, <2>2, Zenon DEF X!Finished, Same
<1>3. CASE active' = X!NoEpisode
  BY <1>3, NoEpisodeFacts
<1>4. CASE active' = [X!Finished(ep, bad) EXCEPT !.open = FALSE]
  BY <1>2, <1>4 DEF Shaped
<1> QED
  BY <1>1, <1>3, <1>4

\* The files are closed by a stop() that has joined the episode's threads, or by one that has joined
\* those of another.
LEMMA StopFinishKept ==
  ASSUME FilesInv, NEW s \in Stoppers, X!StopFinish(s) PROVE FilesInv'
<1>1. /\ stopper[s].pc = "final" /\ starter.pc = "idle"
      /\ stopper' = [stopper EXCEPT ![s] = X!NoStop]
      /\ UNCHANGED <<starter, threads, episodes>>
  BY DEF X!StopFinish
<1>2. active.id \in 0..episodes /\ episodes \in Nat /\ Shaped(active)
  BY DEF FilesInv, RecorderTypes
<1>3. /\ DOMAIN stopper' = Stoppers /\ stopper'[s].pc = "idle" /\ stopper'[s].id = 0
      /\ \A r \in Stoppers : r # s => stopper'[r] = stopper[r]
      /\ \A r \in Stoppers : DOMAIN stopper'[r] = {"pc", "id", "i1"} /\ stopper'[r].id \in Nat
  <2>1. DOMAIN X!NoStop = {"pc", "id", "i1"} /\ X!NoStop.id = 0 /\ X!NoStop.pc = "idle"
    BY DEF X!NoStop
  <2>2. X!NoStop.id \in Nat
    BY <2>1
  <2>3. /\ DOMAIN stopper' = Stoppers /\ stopper'[s] = X!NoStop
        /\ \A r \in Stoppers : r # s => stopper'[r] = stopper[r]
        /\ \A r \in Stoppers : DOMAIN stopper'[r] = {"pc", "id", "i1"} /\ stopper'[r].id \in Nat
    BY <1>1, <2>1, <2>2, OthersStop, Zenon
  <2> QED
    BY <2>1, <2>3
<1>4. Younger'
  BY <1>1, <1>2, <1>3 DEF FilesInv, Younger
<1>5. /\ torn \subseteq torn'
      /\ \/ Same(active, active')
         \/ /\ torn' = torn \cup ({active.id} \ {stopper[s].id})
            /\ Shaped(active') /\ active'.id \in {0, active.id}
  <2>1. CASE UNCHANGED <<active, torn>>
    BY <2>1, StaysSame
  <2>2. CASE /\ torn' = torn \cup ({active.id} \ {stopper[s].id})
             /\ X!DrainFails(X!Judged(s)) \/ X!Closes(X!Judged(s))
    <3>1. Shaped(X!Judged(s)) /\ Same(active, X!Judged(s))
      BY JudgedSame DEF Same
    <3>2. CASE X!DrainFails(X!Judged(s))
      BY <2>2, <3>1, <3>2, DrainFailsSame DEF Same
    <3>3. CASE X!Closes(X!Judged(s))
      BY <2>2, <3>1, <3>3, ClosesSame DEF Same
    <3> QED
      BY <2>2, <3>2, <3>3
  <2> QED
    BY <2>1, <2>2, Zenon DEF X!StopFinish
<1>6. RecorderTypes'
  BY <1>1, <1>2, <1>3, <1>5 DEF FilesInv, RecorderTypes, Same
<1>7. \A t \in threads : t[2] \notin torn' => active'.id = t[2] /\ active'.open = TRUE
  <2>1. SUFFICES ASSUME NEW t \in threads, t[2] \notin torn'
                 PROVE  active'.id = t[2] /\ active'.open = TRUE
    OBVIOUS
  <2>2. active.id = t[2] /\ active.open = TRUE
    BY <1>5, <2>1 DEF FilesInv, Attended
  <2>3. CASE Same(active, active')
    BY <2>2, <2>3 DEF Same
  <2>4. CASE torn' = torn \cup ({active.id} \ {stopper[s].id})
    <3>1. stopper[s].id = t[2] /\ stopper[s].id \notin torn
      BY <2>1, <2>2, <2>4
    <3> QED
      BY <1>1, <2>1, <3>1 DEF FilesInv, Attended
  <2> QED
    BY <1>5, <2>3, <2>4
<1>8. Attended'
  BY <1>1, <1>3, <1>5, <1>7 DEF FilesInv, Attended
<1> QED
  BY <1>4, <1>6, <1>8 DEF FilesInv

LEMMA RecorderStep == ASSUME FilesInv, [X!Next]_(X!vars) PROVE FilesInv'
<1>1. CASE UNCHANGED X!vars
  BY <1>1, StaysSame, FilesKept DEF X!vars
<1>2. CASE \/ X!InputReceive \/ X!InputAppend \/ X!StateReceive
           \/ \E p \in X!Previews : X!FrameCapture(p) \/ X!FrameAppend(p)
  <2>1. UNCHANGED <<starter, active, threads, stopper, episodes, torn>>
    BY <1>2, Zenon DEF X!InputReceive, X!InputAppend, X!StateReceive, X!FrameCapture, X!FrameAppend
  <2> QED
    BY <2>1, StaysSame, FilesKept
<1>3. CASE X!Activate \/ X!Deactivate
  <2>1. /\ X!Mixed /\ starter' = [starter EXCEPT !.ep.mixed = starter.pc = "stamped"]
        /\ UNCHANGED <<threads, stopper, episodes, torn>>
    BY <1>3, Zenon DEF X!Activate, X!Deactivate
  <2> QED
    BY <2>1, MixedKept
<1>4. ASSUME NEW t \in threads, X!ThreadEnd(t) PROVE FilesInv'
  <2>1. threads' \subseteq threads /\ UNCHANGED <<starter, active, stopper, episodes, torn>>
    BY <1>4 DEF X!ThreadEnd
  <2> QED
    BY <2>1, StaysSame, FilesKept
<1> QED
  BY <1>1, <1>2, <1>3, <1>4, StartStampKept, StartGoKept, InputStepKept, CameraStepKept,
    RobotStepKept, StopBeginKept, StopJoinKept, StopFinishKept, Zenon DEF X!Next

\* For every set of threads that ask for a stop, every capacity and every number of inputs, frames,
\* samples and episodes: while a recorder thread runs, the episode it was started for is active and
\* its files are open, however stops and starts overlap and whichever of their steps fails, unless
\* a stop() of an earlier episode has judged that episode, which the code permits
\* (tcp_vla_dataset_recorder.py:181-308, 659-820).
THEOREM FilesCloseLast == X!Spec => []X!ClosedWhenIdle
<1>1. X!Init => FilesInv
  BY RecorderInit
<1>2. FilesInv /\ [X!Next]_(X!vars) => FilesInv'
  BY RecorderStep
<1>3. FilesInv => X!ClosedWhenIdle
  BY DEF FilesInv, Attended, X!ClosedWhenIdle
<1> QED
  BY <1>1, <1>2, <1>3, PTL DEF X!Spec

-----------------------------------------------------------------------------
\* The event log of a run.

CONSTANTS Emitters, Depth, MaxEvent
VARIABLES emitted, events, lost, closed, error, emitter, sampling, writer, journal, finish, exported

W == INSTANCE RunCapture WITH file <- journal

Finishing == {"open", "end", "close", "pill", "join", "done"}

LogTypes ==
  /\ emitted \in Nat /\ events \in Seq(Nat) /\ lost \in Nat
  /\ closed \in BOOLEAN /\ error \in BOOLEAN
  /\ writer \in [pc : {"get", "write", "flush", "dead"}, event : Nat]
  /\ journal \in Seq(Nat) /\ finish \in Finishing

Closing == closed <=> finish \in {"pill", "join", "done"}

\* Events the writer has taken from the queue.
Ahead == Len(journal) + (IF writer.pc = "write" THEN 1 ELSE 0)

\* While nothing was lost and nothing has failed, the file, the event being written and the queue
\* are one row of numbers, and the sentinel is behind them.
Row ==
  lost = 0 /\ ~error =>
    /\ \A n \in DOMAIN journal : journal[n] = n
    /\ writer.pc = "write" => writer.event = Len(journal) + 1
    /\ \A n \in DOMAIN events :
         /\ events[n] # 0 => events[n] = Ahead + n
         /\ events[n] = 0 => /\ n = Len(events) /\ emitted = Ahead + Len(events) - 1
                             /\ finish \in {"join", "done"}
    /\ writer.pc \in {"get", "write"} /\ (\A n \in DOMAIN events : events[n] # 0) =>
         emitted = Ahead + Len(events)
    /\ writer.pc \in {"flush", "dead"} =>
         events = <<>> /\ emitted = Len(journal) /\ finish \in {"join", "done"}

Shipped == exported = <<0>> \/ (closed /\ exported = [e \in 1..emitted |-> e])

LogInv == LogTypes /\ Closing /\ Row /\ Shipped

LEMMA SeqValues ==
  ASSUME NEW s \in Seq(Nat)
  PROVE  Len(s) \in Nat /\ DOMAIN s = 1..Len(s) /\ \A n \in DOMAIN s : s[n] \in Nat /\ n \in Nat
  OBVIOUS

LEMMA LogInit == ASSUME W!Init PROVE LogInv
<1>1. /\ emitted = 1 /\ events = <<1>> /\ lost = 0 /\ closed = FALSE /\ error = FALSE
      /\ writer = [pc |-> "get", event |-> 0] /\ journal = <<>> /\ finish = "open"
      /\ exported = <<0>>
  BY DEF W!Init
<1>2. /\ events \in Seq(Nat) /\ Len(events) = 1 /\ DOMAIN events = 1..1 /\ events[1] = 1
      /\ journal \in Seq(Nat) /\ Len(journal) = 0 /\ DOMAIN journal = {}
  BY <1>1
<1>3. LogTypes
  BY <1>1, <1>2 DEF LogTypes, Finishing
<1>4. Ahead = 0
  BY <1>1, <1>2 DEF Ahead
<1>5. Row
  BY <1>1, <1>2, <1>4 DEF Row
<1> QED
  BY <1>1, <1>3, <1>5 DEF LogInv, Closing, Shipped

\* Nothing that matters is touched.
LEMMA LogSame ==
  ASSUME LogInv,
         UNCHANGED <<emitted, events, lost, closed, error, writer, journal, finish, exported>>
  PROVE  LogInv'
  BY DEF LogInv, LogTypes, Closing, Row, Ahead, Shipped

\* An event is numbered and queued, lost, or refused.
LEMMA EnqueueKept ==
  ASSUME LogInv, W!Enqueue, UNCHANGED <<closed, error, writer, journal, exported>>,
         \/ UNCHANGED finish
         \/ finish = "end" /\ finish' = "close"
  PROVE  LogInv'
<1>1. /\ emitted \in Nat /\ events \in Seq(Nat) /\ lost \in Nat /\ journal \in Seq(Nat)
      /\ finish \in Finishing /\ finish' \in Finishing /\ Closing' /\ Ahead' = Ahead
      /\ Len(journal) \in Nat /\ Ahead \in Nat
  BY SeqValues DEF LogInv, LogTypes, Closing, Finishing, Ahead
<1>2. CASE closed
  <2>1. UNCHANGED <<emitted, events, lost>> /\ UNCHANGED finish
    BY <1>2 DEF W!Enqueue, LogInv, Closing
  <2> QED
    BY <2>1, LogSame
<1>3. CASE ~closed
  <2>1. /\ emitted' = emitted + 1 /\ finish \notin {"pill", "join", "done"} /\ exported = <<0>>
    BY <1>3 DEF W!Enqueue, LogInv, Closing, Shipped
  <2>2. CASE Len(events) < Depth
    <3>1. events' = Append(events, emitted + 1) /\ UNCHANGED lost
      BY <1>3, <2>2 DEF W!Enqueue
    <3>2. /\ events' \in Seq(Nat) /\ Len(events') = Len(events) + 1 /\ Len(events) \in Nat
          /\ DOMAIN events = 1..Len(events) /\ DOMAIN events' = 1..(Len(events) + 1)
          /\ \A n \in DOMAIN events : events'[n] = events[n]
          /\ events'[Len(events) + 1] = emitted + 1
      BY <1>1, <3>1, AppendFacts
    <3>3. LogTypes'
      BY <1>1, <2>1, <3>1, <3>2 DEF LogInv, LogTypes
    <3>4. ASSUME lost = 0, ~error
          PROVE  /\ writer.pc \in {"get", "write"} /\ emitted = Ahead + Len(events)
                 /\ \A n \in DOMAIN events : events[n] # 0 /\ events[n] = Ahead + n
      BY <2>1, <3>4 DEF LogInv, LogTypes, Row
    <3>5. ASSUME lost = 0, ~error, NEW n \in DOMAIN events'
          PROVE  events'[n] # 0 /\ events'[n] = Ahead + n
      <4>1. CASE n \in DOMAIN events
        BY <3>2, <3>4, <3>5, <4>1
      <4>2. CASE n = Len(events) + 1
        BY <1>1, <3>2, <3>4, <3>5, <4>2
      <4> QED
        BY <3>2, <4>1, <4>2
    <3>6. Row'
      BY <1>1, <2>1, <3>1, <3>2, <3>4, <3>5 DEF LogInv, Row
    <3> QED
      BY <1>1, <2>1, <3>3, <3>6 DEF LogInv, Shipped
  <2>3. CASE ~(Len(events) < Depth)
    <3>1. lost' = lost + 1 /\ UNCHANGED events
      BY <1>3, <2>3 DEF W!Enqueue
    <3>2. LogTypes' /\ Row'
      BY <1>1, <2>1, <3>1 DEF LogInv, LogTypes, Row
    <3> QED
      BY <1>1, <2>1, <3>2 DEF LogInv, Shipped
  <2> QED
    BY <2>2, <2>3
<1> QED
  BY <1>2, <1>3

\* The writer takes the next event, or the sentinel, behind which there is nothing.
LEMMA WriterGetKept == ASSUME LogInv, W!WriterGet PROVE LogInv'
<1>1. /\ writer.pc = "get" /\ events # <<>> /\ events' = Tail(events)
      /\ UNCHANGED <<emitted, lost, closed, error, journal, finish, exported>>
  BY DEF W!WriterGet
<1>2. /\ emitted \in Nat /\ events \in Seq(Nat) /\ journal \in Seq(Nat) /\ Len(journal) \in Nat
  BY SeqValues DEF LogInv, LogTypes
<1>3. /\ events' \in Seq(Nat) /\ Len(events') = Len(events) - 1 /\ Len(events) \in Nat
      /\ 1 \in DOMAIN events /\ Head(events) = events[1] /\ Head(events) \in Nat
      /\ DOMAIN events = 1..Len(events) /\ DOMAIN events' = 1..(Len(events) - 1)
      /\ \A n \in DOMAIN events' :
           n \in Nat /\ n + 1 \in DOMAIN events /\ n + 1 # 1 /\ events'[n] = events[n + 1]
  BY <1>1, <1>2, TailFacts
<1>4. Ahead = Len(journal) /\ Ahead \in Nat
  BY <1>1, <1>2 DEF Ahead
<1>5. CASE events[1] = 0
  <2>1. writer' = [pc |-> "flush", event |-> 0]
    BY <1>3, <1>5 DEF W!WriterGet
  <2>2. LogTypes'
    BY <1>1, <1>3, <2>1 DEF LogInv, LogTypes
  <2>3. ASSUME lost = 0, ~error
        PROVE  events' = <<>> /\ emitted = Len(journal) /\ finish \in {"join", "done"}
    <3>1. 1 = Len(events) /\ emitted = Ahead + Len(events) - 1 /\ finish \in {"join", "done"}
      BY <1>3, <1>5, <2>3 DEF LogInv, Row
    <3>2. Len(events') = Len(events) - 1 /\ events' \in Seq(Nat)
      BY <1>3
    <3>3. Len(events') = 0
      BY <3>1, <3>2
    <3>4. events' = <<>>
      BY <3>2, <3>3, EmptyFacts
    <3>5. emitted = Ahead + 1 - 1 /\ Ahead \in Nat
      BY <1>4, <3>1
    <3>6. emitted = Ahead
      BY <3>5
    <3> QED
      BY <1>4, <3>1, <3>4, <3>6
  <2>4. Row'
    BY <1>1, <2>1, <2>3 DEF LogInv, Row
  <2> QED
    BY <1>1, <2>2, <2>4 DEF LogInv, Closing, Shipped
<1>6. CASE events[1] # 0
  <2>1. writer' = [pc |-> "write", event |-> events[1]]
    BY <1>3, <1>6 DEF W!WriterGet
  <2>2. LogTypes'
    BY <1>1, <1>3, <2>1 DEF LogInv, LogTypes
  <2>3. Ahead' = Ahead + 1
    BY <1>1, <1>2, <1>4, <2>1 DEF Ahead
  <2>4. ASSUME lost = 0, ~error
        PROVE  /\ \A n \in DOMAIN events : events[n] # 0 => events[n] = Ahead + n
               /\ \A n \in DOMAIN events : events[n] = 0 =>
                    /\ n = Len(events) /\ emitted = Ahead + Len(events) - 1
                    /\ finish \in {"join", "done"}
               /\ (\A n \in DOMAIN events : events[n] # 0) => emitted = Ahead + Len(events)
               /\ \A n \in DOMAIN journal : journal[n] = n
    BY <1>1, <2>4 DEF LogInv, Row
  <2>5. ASSUME lost = 0, ~error, NEW n \in DOMAIN events'
        PROVE  /\ events'[n] # 0 => events'[n] = Ahead' + n
               /\ events'[n] = 0 => /\ n = Len(events') /\ emitted = Ahead' + Len(events') - 1
                                    /\ finish \in {"join", "done"}
    <3>1. n \in Nat /\ n + 1 \in DOMAIN events /\ events'[n] = events[n + 1]
      BY <1>3, <2>5
    <3>2. Ahead \in Nat /\ Ahead' + n = Ahead + (n + 1)
      <4>1. n \in Nat
        BY <3>1
      <4>2. Ahead \in Nat
        BY <1>4
      <4> QED
        BY <2>3, <4>1, <4>2
    <3>3. events'[n] # 0 => events'[n] = Ahead' + n
      BY <2>4, <2>5, <3>1, <3>2
    <3>4. ASSUME events'[n] = 0
          PROVE  /\ n = Len(events') /\ emitted = Ahead' + Len(events') - 1
                 /\ finish \in {"join", "done"}
      <4>1. n + 1 = Len(events) /\ emitted = Ahead + Len(events) - 1 /\ finish \in {"join", "done"}
        BY <2>4, <2>5, <3>1, <3>4
      <4>2. Len(events') = n
        BY <1>3, <3>1, <4>1
      <4> QED
        BY <2>3, <3>1, <3>2, <4>1, <4>2
    <3> QED
      BY <3>3, <3>4
  <2>6. ASSUME lost = 0, ~error, \A n \in DOMAIN events' : events'[n] # 0
        PROVE  emitted = Ahead' + Len(events')
    <3>1. ASSUME NEW n \in DOMAIN events PROVE events[n] # 0
      <4>1. CASE n = 1
        BY <1>6, <4>1
      <4>2. CASE n # 1
        <5>1. n - 1 \in DOMAIN events' /\ (n - 1) + 1 = n
          BY <1>3, <4>2
        <5> QED
          BY <1>3, <2>6, <5>1
      <4> QED
        BY <4>1, <4>2
    <3>2. emitted = Ahead + Len(events)
      BY <2>4, <2>6, <3>1
    <3>3. Ahead \in Nat /\ Len(events) \in Nat /\ Len(events') = Len(events) - 1
      BY <1>2, <1>3, <1>4
    <3> QED
      BY <2>3, <3>2, <3>3
  <2>7. lost = 0 /\ ~error => writer'.event = Len(journal) + 1
    BY <1>3, <1>4, <1>6, <2>1, <2>4
  <2>8. Row'
    BY <1>1, <2>1, <2>4, <2>5, <2>6, <2>7 DEF Row
  <2> QED
    BY <1>1, <2>2, <2>8 DEF LogInv, Closing, Shipped
<1> QED
  BY <1>5, <1>6

LEMMA WriterWriteKept == ASSUME LogInv, W!WriterWrite PROVE LogInv'
<1>1. /\ writer.pc = "write" /\ UNCHANGED <<emitted, events, lost, closed, finish, exported>>
  BY DEF W!WriterWrite
<1>2. /\ journal \in Seq(Nat) /\ writer.event \in Nat /\ error \in BOOLEAN
      /\ Len(journal) \in Nat /\ Ahead = Len(journal) + 1
  BY <1>1, SeqValues DEF LogInv, LogTypes, Ahead
<1>3. CASE /\ journal' = Append(journal, writer.event)
           /\ writer' = [pc |-> "get", event |-> 0] /\ UNCHANGED error
  <2>1. /\ journal' \in Seq(Nat) /\ Len(journal') = Len(journal) + 1
        /\ DOMAIN journal = 1..Len(journal) /\ DOMAIN journal' = 1..(Len(journal) + 1)
        /\ \A n \in DOMAIN journal : journal'[n] = journal[n]
        /\ journal'[Len(journal) + 1] = writer.event
    BY <1>2, <1>3, AppendFacts
  <2>2. Ahead' = Ahead
    BY <1>2, <1>3, <2>1 DEF Ahead
  <2>3. LogTypes'
    BY <1>1, <1>3, <2>1 DEF LogInv, LogTypes
  <2>4. ASSUME lost = 0, ~error, NEW n \in DOMAIN journal' PROVE journal'[n] = n
    <3>1. writer.event = Len(journal) + 1 /\ \A k \in DOMAIN journal : journal[k] = k
      BY <1>1, <2>4 DEF LogInv, Row
    <3>2. CASE n \in DOMAIN journal
      BY <2>1, <3>1, <3>2
    <3>3. CASE n = Len(journal) + 1
      BY <2>1, <3>1, <3>3
    <3> QED
      BY <1>2, <2>1, <3>2, <3>3
  <2>5. Row'
    BY <1>1, <1>3, <2>2, <2>4 DEF LogInv, Row
  <2> QED
    BY <1>1, <2>3, <2>5 DEF LogInv, Closing, Shipped
<1>4. CASE error' = TRUE /\ writer' = [pc |-> "dead", event |-> 0] /\ UNCHANGED journal
  BY <1>1, <1>4 DEF LogInv, LogTypes, Closing, Row, Shipped
<1> QED
  BY <1>3, <1>4 DEF W!WriterWrite

LEMMA WriterFlushKept == ASSUME LogInv, W!WriterFlush PROVE LogInv'
<1>1. /\ writer.pc = "flush" /\ writer' = [pc |-> "dead", event |-> 0] /\ error' \in {error, TRUE}
      /\ UNCHANGED <<emitted, events, lost, closed, journal, finish, exported>>
  BY DEF W!WriterFlush
<1>2. LogTypes'
  BY <1>1 DEF LogInv, LogTypes
<1>3. Ahead' = Ahead
  BY <1>1 DEF Ahead
<1>4. Row'
  BY <1>1, <1>3 DEF LogInv, Row
<1> QED
  BY <1>1, <1>2, <1>4 DEF LogInv, Closing, Shipped

\* finish() without the queue.
LEMMA FinishKept ==
  ASSUME LogInv, W!FinishBegin \/ W!FinishClose \/ W!FinishJoin PROVE LogInv'
<1>1. /\ UNCHANGED <<emitted, events, lost, writer, journal, exported>> /\ finish' \in Finishing
      /\ (finish \in {"join", "done"} => finish' \in {"join", "done"})
      /\ (closed => closed') /\ Closing'
  <2>1. CASE W!FinishBegin
    BY <2>1 DEF LogInv, Closing, Finishing, W!FinishBegin
  <2>2. CASE W!FinishClose
    BY <2>2 DEF LogInv, Closing, Finishing, W!FinishClose
  <2>3. CASE W!FinishJoin
    BY <2>3 DEF LogInv, Closing, Finishing, W!FinishJoin
  <2> QED
    BY <2>1, <2>2, <2>3
<1>2. error' \in BOOLEAN /\ closed' \in BOOLEAN /\ (error => error')
  BY DEF LogInv, LogTypes, W!FinishBegin, W!FinishClose, W!FinishJoin
<1>3. LogTypes'
  BY <1>1, <1>2 DEF LogInv, LogTypes
<1>4. Ahead' = Ahead
  BY <1>1 DEF Ahead
<1>5. Row'
  BY <1>1, <1>2, <1>4 DEF LogInv, Row
<1> QED
  BY <1>1, <1>3, <1>5 DEF LogInv, Shipped

\* The sentinel is put behind every event; none follows it, as the log is closed.
LEMMA FinishPillKept == ASSUME LogInv, W!FinishPill PROVE LogInv'
<1>1. /\ finish = "pill" /\ finish' = "join"
      /\ UNCHANGED <<emitted, lost, closed, writer, journal, exported>>
  BY DEF W!FinishPill
<1>2. /\ events \in Seq(Nat) /\ error \in BOOLEAN /\ closed /\ emitted \in Nat /\ Ahead \in Nat
      /\ Len(events) \in Nat /\ Ahead' = Ahead
  BY <1>1, SeqValues DEF LogInv, LogTypes, Closing, Ahead
<1>3. Closing' /\ Shipped'
  BY <1>1 DEF LogInv, Closing, Shipped
<1>4. CASE UNCHANGED events /\ (UNCHANGED error \/ error' = TRUE)
  <2>1. writer.pc = "dead" \/ error' = TRUE
    <3>1. CASE writer.pc # "dead" /\ Len(events) < Depth
      <4>1. events' = Append(events, 0)
        BY <3>1 DEF W!FinishPill
      <4>2. Len(events') = Len(events) + 1
        BY <1>2, <4>1, AppendFacts
      <4> QED
        BY <1>2, <1>4, <4>2
    <3> QED
      BY <3>1 DEF W!FinishPill
  <2>2. LogTypes'
    BY <1>1, <1>2, <1>4 DEF LogInv, LogTypes, Finishing
  <2>3. Row'
    BY <1>1, <1>2, <1>4, <2>1 DEF LogInv, Row
  <2> QED
    BY <1>3, <2>2, <2>3 DEF LogInv
<1>5. CASE events' = Append(events, 0) /\ UNCHANGED error /\ writer.pc # "dead"
  <2>1. /\ events' \in Seq(Nat) /\ Len(events') = Len(events) + 1
        /\ DOMAIN events = 1..Len(events) /\ DOMAIN events' = 1..(Len(events) + 1)
        /\ \A n \in DOMAIN events : events'[n] = events[n]
        /\ events'[Len(events) + 1] = 0
    BY <1>2, <1>5, AppendFacts
  <2>2. LogTypes'
    BY <1>1, <1>5, <2>1 DEF LogInv, LogTypes, Finishing
  <2>3. ASSUME lost = 0, ~error
        PROVE  /\ \A n \in DOMAIN events : events[n] # 0 /\ events[n] = Ahead + n
               /\ emitted = Ahead + Len(events) /\ writer.pc \in {"get", "write"}
    BY <1>1, <1>5, <2>3 DEF LogInv, LogTypes, Row
  <2>4. ASSUME lost = 0, ~error, NEW n \in DOMAIN events'
        PROVE  /\ events'[n] # 0 => events'[n] = Ahead + n
               /\ events'[n] = 0 => n = Len(events') /\ emitted = Ahead + Len(events') - 1
    BY <1>2, <2>1, <2>3, <2>4
  <2>5. ASSUME lost = 0, ~error PROVE ~(\A n \in DOMAIN events' : events'[n] # 0)
    BY <1>2, <2>1
  <2>6. Row'
    BY <1>1, <1>2, <1>5, <2>3, <2>4, <2>5 DEF LogInv, Row
  <2> QED
    BY <1>3, <2>2, <2>6 DEF LogInv
<1> QED
  BY <1>4, <1>5 DEF W!FinishPill

\* What is exported is the whole row.
LEMMA ExportKept == ASSUME LogInv, W!Export PROVE LogInv'
<1>1. /\ exported' = journal /\ closed /\ writer.pc = "dead" /\ ~error /\ lost = 0
      /\ UNCHANGED <<emitted, events, lost, closed, error, writer, journal, finish>>
  BY DEF W!Export, W!ExportReady
<1>2. /\ emitted = Len(journal) /\ \A n \in DOMAIN journal : journal[n] = n
  BY <1>1 DEF LogInv, Row
<1>3. journal = [e \in 1..emitted |-> e]
  <2>1. journal \in Seq(Nat)
    BY DEF LogInv, LogTypes
  <2>2. DOMAIN journal = 1..emitted /\ journal = [n \in 1..Len(journal) |-> journal[n]]
    BY <1>2, <2>1
  <2> QED
    BY <1>2, <2>2
<1> QED
  BY <1>1, <1>3 DEF LogInv, LogTypes, Closing, Row, Ahead, Shipped

LEMMA LogStep == ASSUME LogInv, [W!Next]_(W!vars) PROVE LogInv'
<1>1. CASE UNCHANGED W!vars
  BY <1>1, LogSame DEF W!vars
<1>2. ASSUME NEW t \in W!Threads, W!EmitCopy(t) PROVE LogInv'
  BY <1>2, LogSame DEF W!EmitCopy
<1>3. ASSUME NEW t \in W!Threads, W!EmitQueue(t) PROVE LogInv'
  BY <1>3, EnqueueKept DEF W!EmitQueue
<1>4. CASE W!FinishEmit
  BY <1>4, EnqueueKept DEF W!FinishEmit
<1> QED
  BY <1>1, <1>2, <1>3, <1>4, WriterGetKept, WriterWriteKept, WriterFlushKept, FinishKept,
    FinishPillKept, ExportKept DEF W!Next

\* For every set of threads that emit, every size of the queue and number of events: an exported log
\* has every event that was emitted while it was open, each once and in order, however the queue,
\* the joins and the disk behaved (inference_recording.py:107-133, 174-204).
THEOREM ExportsAreComplete == W!Spec => []W!ExportComplete
<1>1. W!Init => LogInv
  BY LogInit
<1>2. LogInv /\ [W!Next]_(W!vars) => LogInv'
  BY LogStep
<1>3. LogInv => W!ExportComplete
  BY DEF LogInv, Shipped, W!ExportComplete
<1> QED
  BY <1>1, <1>2, <1>3, PTL DEF W!Spec
-----------------------------------------------------------------------------
\* The plan of a real-time run.

CONSTANTS H, Delay, Execute, Bridges, Jitter, MaxNow
VARIABLES now, phase, failed, next, committed, targets, history, revision, context, due, bridged,
          exec, started

G == INSTANCE Timeline

ClockTypes ==
  /\ now \in Nat /\ next \in Nat /\ committed \in Nat /\ due \in Nat /\ bridged \in Nat
  /\ context.stamp \in Nat /\ context.freeze \in Nat /\ context.tardy \in BOOLEAN
  /\ revision \in Nat /\ \A t \in DOMAIN targets : targets[t] \in Nat
  /\ exec \in [pc : {"off", "wait", "lock", "sent"}, tick : Nat, target : Nat]
  /\ phase \in {"boot", "plan", "infer", "over"}

\* No answer in time has failed.
Unbroken == failed \notin {"runway", "obsolete", "future", "gap", "seam"}

\* What is sent is the target of the slot that is next, and no splice replaces it.
Standing ==
  exec.pc = "sent" => exec.tick = next /\ next \in DOMAIN targets /\ targets[next] = exec.target

\* Before the first splice nothing is sent.
Booting == phase = "boot" => exec.pc = "off" /\ next = 0 /\ committed = 0 /\ bridged = 0

\* The executor is in time: a slot is not taken up before it begins.
InTime ==
  /\ next <= G!Slot(now) + 1
  /\ exec.pc \in {"lock", "sent"} => 2 * next <= now
  /\ committed = IF exec.pc = "sent" THEN next + 1 ELSE next

\* The plan reaches up to slot e, without a gap, and the history back from the slot that is next.
Reaches(e) ==
  /\ DOMAIN targets = next..e /\ e + 1 >= next /\ e >= H - 1 /\ e >= G!Slot(due) + G!Spare
  /\ DOMAIN history = G!Beyond(0, next - 1 - H)..(next - 1)
  /\ bridged <= H - 2

\* An answer to a request that was made in time meets the old plan, if it comes before the freeze
\* line.
Meets(e) ==
  phase = "infer" =>
    /\ context.rev = revision
    /\ ~context.tardy /\ context.freeze # bridged =>
         /\ context.prefix \in Int /\ context.freeze <= e
         /\ context.freeze <= G!Slot(context.stamp) + H - 1
         /\ 2 * context.freeze - context.stamp <= 2 * G!Guided

Running == phase \in {"plan", "infer"} => InTime /\ \E e \in Int : Reaches(e) /\ Meets(e)

PlanInv == ClockTypes /\ Unbroken /\ Standing /\ Booting /\ Running

\* Slots and half slots.
LEMMA SlotFacts ==
  ASSUME NEW t \in Int
  PROVE  /\ G!Slot(t) \in Int /\ 2 * G!Slot(t) <= t /\ t <= 2 * G!Slot(t) + 1
         /\ G!SlotFrom(t) \in Int /\ t <= 2 * G!SlotFrom(t) /\ 2 * G!SlotFrom(t) <= t + 1
BY DEF G!Slot, G!SlotFrom, G!P

LEMMA BeyondFacts ==
  ASSUME NEW a \in Int, NEW b \in Int
  PROVE  /\ G!Beyond(a, b) \in {a, b} /\ G!Beyond(a, b) \in Int
         /\ G!Beyond(a, b) >= a /\ G!Beyond(a, b) >= b
BY DEF G!Beyond

LEMMA PlanInit == ASSUME G!TimelineAssumption, G!Init PROVE PlanInv
<1>1. /\ now = 0 /\ phase = "boot" /\ failed = "none" /\ next = 0 /\ committed = 0
      /\ revision = 1 /\ context = G!NoContext /\ due = 0 /\ bridged = 0
      /\ exec = [pc |-> "off", tick |-> 0, target |-> 0]
  BY DEF G!Init
<1>2. /\ G!NoContext.stamp = 0 /\ G!NoContext.freeze = 0 /\ G!NoContext.tardy = FALSE
      /\ \A t \in DOMAIN targets : targets[t] = 0
  BY DEF G!NoContext, G!Init
<1>3. exec \in [pc : {"off", "wait", "lock", "sent"}, tick : Nat, target : Nat]
  BY <1>1
<1>4. ClockTypes
  <2>1. /\ context.stamp \in Nat /\ context.freeze \in Nat /\ context.tardy \in BOOLEAN
        /\ \A t \in DOMAIN targets : targets[t] \in Nat
    <3>1. \A t \in DOMAIN targets : targets[t] \in Nat
      BY <1>2
    <3>2. context.stamp = 0 /\ context.freeze = 0 /\ context.tardy = FALSE
      BY <1>1, <1>2, Zenon
    <3>3. context.tardy \in BOOLEAN
      BY <3>2, Zenon
    <3> QED
      BY <3>1, <3>2, <3>3
  <2> QED
    BY <1>1, <1>3, <2>1 DEF ClockTypes
<1> QED
  BY <1>1, <1>4 DEF PlanInv, Unbroken, Standing, Booting, Running

\* A run that is over stays as it is.
LEMMA OverKept ==
  ASSUME PlanInv, phase' = "over", failed' \notin {"runway", "obsolete", "future", "gap", "seam"},
         ClockTypes', UNCHANGED <<next, targets, exec>>
  PROVE  PlanInv'
BY DEF PlanInv, Unbroken, Standing, Booting, Running

LEMMA PassKept == ASSUME G!TimelineAssumption, PlanInv, G!Pass PROVE PlanInv'
<1>1. /\ now' = now + 1
      /\ UNCHANGED <<phase, failed, next, committed, targets, history, revision, context, due,
                     bridged, exec, started>>
  BY DEF G!Pass
<1>2. now \in Int /\ now + 1 \in Int /\ next \in Nat /\ now \in Nat
  BY DEF PlanInv, ClockTypes
<1>3. /\ G!Slot(now) \in Int /\ 2 * G!Slot(now) <= now
      /\ G!Slot(now + 1) \in Int /\ now + 1 <= 2 * G!Slot(now + 1) + 1
  BY <1>2, SlotFacts
<1>4. InTime => InTime'
  <2>1. next <= G!Slot(now) + 1 => next <= G!Slot(now + 1) + 1
    BY <1>2, <1>3
  <2> QED
    BY <1>1, <1>2, <2>1 DEF InTime
<1>5. G!Guided' = G!Guided
  BY <1>1 DEF G!Guided
<1>6. \A e \in Int : Reaches(e)' = Reaches(e) /\ Meets(e)' = Meets(e)
  BY <1>1, <1>5, Zenon DEF Reaches, Meets
<1>7. ClockTypes'
  BY <1>1 DEF PlanInv, ClockTypes
<1>8. Standing' /\ Booting' /\ Unbroken'
  BY <1>1, Zenon DEF PlanInv, Standing, Booting, Unbroken
<1>9. Running'
  BY <1>1, <1>4, <1>6, Zenon DEF PlanInv, Running
<1> QED
  BY <1>7, <1>8, <1>9 DEF PlanInv

\* The first splice.
LEMMA BootstrapKept ==
  ASSUME G!TimelineAssumption, G!Fits, PlanInv, G!Bootstrap PROVE PlanInv'
<1> DEFINE first == G!Slot(now) + 1
<1> DEFINE join == G!Beyond(first, Delay)
<1>1. /\ phase = "boot" /\ UNCHANGED <<now, context, started>>
      /\ now \in Nat /\ exec.pc = "off" /\ Delay \in Nat /\ H \in Nat /\ Jitter \in Nat
      /\ Execute \in Nat \ {0} /\ Delay <= Execute /\ Execute < H /\ revision \in Nat
  BY DEF G!Bootstrap, PlanInv, Booting, ClockTypes, G!TimelineAssumption
<1>2. ASSUME phase' = "over", failed' = "late",
             UNCHANGED <<next, committed, targets, history, revision, due, bridged, exec>>
      PROVE  PlanInv'
  <2>1. /\ phase' = "over" /\ failed' = "late"
        /\ UNCHANGED <<next, committed, targets, revision, due, bridged, exec>>
    BY <1>2
  <2>2. ClockTypes'
    BY <1>1, <2>1 DEF PlanInv, ClockTypes
  <2> QED
    BY <2>1, <2>2, OverKept
<1>3. ASSUME NEW seen \in 0..now, ~(seen > Delay * G!P \/ now >= (H - 1) * G!P \/ join >= H),
             phase' = "plan", revision' = revision + 1, next' = first, committed' = first,
             targets' = [t \in first..(H - 1) |-> IF t < Delay THEN 0 ELSE 1],
             history' = [t \in 0..(first - 1) |-> 0],
             \E b \in Bridges : /\ b > 0 => join + b < H - 2
                               /\ bridged' = IF b = 0 THEN 0 ELSE join + b + 1,
             exec' = [exec EXCEPT !.pc = "wait"], due' = G!Beyond(0, seen - Jitter),
             UNCHANGED failed
      PROVE  PlanInv'
  <2>1. /\ phase' = "plan" /\ revision' = revision + 1 /\ next' = first /\ committed' = first
        /\ targets' = [t \in first..(H - 1) |-> IF t < Delay THEN 0 ELSE 1]
        /\ history' = [t \in 0..(first - 1) |-> 0]
        /\ \E b \in Bridges : /\ b > 0 => join + b < H - 2
                              /\ bridged' = IF b = 0 THEN 0 ELSE join + b + 1
        /\ exec' = [exec EXCEPT !.pc = "wait"] /\ due' = G!Beyond(0, seen - Jitter)
        /\ UNCHANGED failed
    BY <1>3
  <2>2. /\ G!Slot(now) \in Int /\ 2 * G!Slot(now) <= now /\ now <= 2 * G!Slot(now) + 1
        /\ G!Slot(now) >= 0 /\ seen \in 0..now /\ seen <= 2 * Delay /\ now < 2 * (H - 1)
    <3>1. now \in Int /\ now \in Nat
      BY <1>1
    <3>2. G!Slot(now) \in Int /\ 2 * G!Slot(now) <= now /\ now <= 2 * G!Slot(now) + 1
      BY <3>1, SlotFacts
    <3>3. G!Slot(now) >= 0
      BY <3>1, <3>2
    <3>4. ~(seen > Delay * G!P) /\ ~(now >= (H - 1) * G!P)
      BY <1>3, Zenon
    <3>5. seen <= 2 * Delay /\ now < 2 * (H - 1)
      BY <1>1, <3>1, <3>4 DEF G!P
    <3> QED
      BY <3>2, <3>3, <3>5
  <2>3. first \in Nat /\ first <= H - 1 /\ join \in Nat
    BY <1>1, <2>2, BeyondFacts DEF G!Beyond
  <2>4. bridged' \in Nat /\ bridged' <= H - 2
    <3>1. PICK b \in Bridges : /\ b > 0 => join + b < H - 2
                               /\ bridged' = IF b = 0 THEN 0 ELSE join + b + 1
      BY <2>1
    <3>2. b \in Nat /\ H - 2 >= 0
      BY <1>1 DEF G!TimelineAssumption, G!Fits, G!Spare
    <3> QED
      BY <1>1, <2>3, <3>1, <3>2
  <2>5. due' \in Nat /\ due' <= seen
    <3>1. due' = (IF 0 > seen - Jitter THEN 0 ELSE seen - Jitter)
      BY <2>1, Zenon DEF G!Beyond
    <3>2. seen \in Nat /\ Jitter \in Nat
      BY <1>1, <2>2
    <3> QED
      BY <3>1, <3>2
  <2>6. exec' \in [pc : {"off", "wait", "lock", "sent"}, tick : Nat, target : Nat]
        /\ exec'.pc = "wait"
    BY <2>1 DEF PlanInv, ClockTypes
  <2>7. ClockTypes'
    <3>1. \A t \in DOMAIN targets' : targets'[t] \in Nat
      BY <2>1
    <3>2. /\ now' \in Nat /\ next' \in Nat /\ committed' \in Nat /\ revision' \in Nat
          /\ phase' \in {"boot", "plan", "infer", "over"}
      BY <1>1, <2>1, <2>3
    <3>3. context'.stamp \in Nat /\ context'.freeze \in Nat /\ context'.tardy \in BOOLEAN
      BY <1>1, Zenon DEF PlanInv, ClockTypes
    <3> QED
      BY <2>4, <2>5, <2>6, <3>1, <3>2, <3>3, Zenon DEF ClockTypes
  <2>8. InTime'
    BY <1>1, <2>1, <2>2, <2>3, <2>6 DEF InTime
  <2>9. Reaches(H - 1)'
    <3>1. DOMAIN targets' = next'..(H - 1) /\ H - 1 + 1 >= next'
      BY <1>1, <2>1, <2>3
    <3>2. G!Slot(due') \in Int /\ 2 * G!Slot(due') <= due'
      BY <2>5, SlotFacts
    <3>3. H - 1 >= G!Slot(due') + G!Spare
      BY <1>1, <2>2, <2>5, <3>2 DEF G!Spare
    <3>4. DOMAIN history' = G!Beyond(0, next' - 1 - H)..(next' - 1)
      BY <1>1, <2>1, <2>3 DEF G!Beyond
    <3> QED
      BY <1>1, <2>4, <3>1, <3>3, <3>4 DEF Reaches
  <2>10. Meets(H - 1)' /\ H - 1 \in Int
    BY <1>1, <2>1 DEF Meets
  <2> QED
    BY <2>1, <2>6, <2>7, <2>8, <2>9, <2>10
       DEF PlanInv, Unbroken, Standing, Booting, Running
<1> HIDE DEF first, join
<1> QED
  BY <1>2, <1>3, Zenon DEF G!Bootstrap, G!Over, first, join

\* The rows known from an observation on are those that end in the plan.
LEMMA KnownRows ==
  ASSUME NEW e \in Int, Reaches(e), NEW stamp \in Nat, next \in Nat, H \in Nat,
         G!Slot(stamp) >= next - 1 - H, NEW i \in Nat
  PROVE  G!RowKnown(stamp, i) <=> G!SlotFrom(stamp) + i <= e
<1> DEFINE t == stamp + i * G!P
<1>1. /\ G!Slot(t) = G!Slot(stamp) + i /\ G!SlotFrom(t) = G!SlotFrom(stamp) + i
      /\ G!Slot(stamp) \in Nat /\ G!SlotFrom(stamp) \in Nat
      /\ G!SlotFrom(stamp) >= G!Slot(stamp)
  BY DEF G!Slot, G!SlotFrom, G!P
<1>2. G!RowKnown(stamp, i) <=> G!Slot(t) \in G!Known /\ G!SlotFrom(t) \in G!Known
  BY Zenon DEF G!RowKnown
<1>3. G!Known = (next..e) \cup (G!Beyond(0, next - 1 - H)..(next - 1))
  BY DEF Reaches, G!Known
<1>4. \A u \in Int : u \in G!Known <=> G!Beyond(0, next - 1 - H) <= u /\ u <= e
  <2>1. /\ G!Beyond(0, next - 1 - H) \in Int /\ G!Beyond(0, next - 1 - H) <= next
    BY DEF G!Beyond
  <2>2. e + 1 >= next
    BY DEF Reaches
  <2> QED
    BY <1>3, <2>1, <2>2
<1>5. /\ G!Beyond(0, next - 1 - H) <= G!Slot(stamp) + i
      /\ G!Beyond(0, next - 1 - H) <= G!SlotFrom(stamp) + i
  BY <1>1 DEF G!Beyond
<1> HIDE DEF t
<1> QED
  BY <1>1, <1>2, <1>4, <1>5

\* How many they are.
LEMMA PrefixFacts ==
  ASSUME NEW e \in Int, NEW stamp \in Nat, H \in Nat \ {0},
         \A i \in Nat : G!RowKnown(stamp, i) <=> G!SlotFrom(stamp) + i <= e,
         e + 1 >= G!SlotFrom(stamp)
  PROVE  /\ G!PrefixLength(stamp) \in 0..H
         /\ \/ G!PrefixLength(stamp) = H
            \/ G!PrefixLength(stamp) = e - G!SlotFrom(stamp) + 1
<1> DEFINE f == G!SlotFrom(stamp)
<1> DEFINE Fitting(n) == /\ \A i \in 0..(n - 1) : G!RowKnown(stamp, i)
                         /\ n < H => ~G!RowKnown(stamp, n)
<1> DEFINE n0 == IF e - f + 1 >= H THEN H ELSE e - f + 1
<1>1. f \in Int
  BY SlotFacts
<1>2. n0 \in 0..H
  BY <1>1
<1>3. Fitting(n0)
  <2>1. \A i \in 0..(n0 - 1) : i \in Nat /\ f + i <= e
    BY <1>1, <1>2
  <2>2. n0 < H => ~(f + n0 <= e)
    BY <1>1
  <2> HIDE DEF f, n0
  <2> QED
    BY <1>2, <2>1, <2>2 DEF f
<1>4. G!PrefixLength(stamp) = CHOOSE n \in 0..H : Fitting(n)
  BY Zenon DEF G!PrefixLength
<1>5. \E n \in 0..H : Fitting(n)
  BY <1>2, <1>3, Zenon
<1>6. G!PrefixLength(stamp) \in 0..H /\ Fitting(G!PrefixLength(stamp))
  <2> HIDE DEF Fitting
  <2> QED
    BY <1>4, <1>5, Zenon
<1>7. ASSUME NEW n \in 0..H, Fitting(n), n # H PROVE n = e - f + 1
  <2>1. ~(f + n <= e)
    BY <1>7
  <2>2. n # 0 => f + (n - 1) <= e
    BY <1>7
  <2> QED
    BY <1>1, <1>7, <2>1, <2>2
<1> HIDE DEF Fitting
<1> QED
  BY <1>6, <1>7

\* Numbers of a request that is made in time: the plan reaches beyond every freeze line it may get.
LEMMA InTimeFacts ==
  ASSUME G!TimelineAssumption, G!Fits, NEW e \in Int, NEW stamp \in Nat,
         now \in Nat, due \in Nat, stamp <= now, now - Jitter <= stamp, stamp <= due + Jitter,
         e >= G!Slot(due) + G!Spare,
         NEW u \in Int, u <= G!Slot(now) + 1 \/ u = G!SlotFrom(stamp + Delay * G!P)
  PROVE  /\ u <= e /\ u <= G!Slot(stamp) + H - 1 /\ 2 * u - stamp <= 2 * G!Spare
         /\ 2 * u - stamp <= 2 * (e - G!SlotFrom(stamp))
<1>1. /\ H \in Nat /\ Delay \in Nat /\ Execute \in Nat \ {0} /\ Execute < H /\ Jitter \in Nat
      /\ G!Spare = H - 1 - Execute
      /\ G!Spare >= Jitter + 2 /\ 2 * G!Spare >= 2 * Delay + Jitter + 3
  BY DEF G!TimelineAssumption, G!Fits, G!Spare
<1>2. /\ G!Slot(now) \in Int /\ 2 * G!Slot(now) <= now
      /\ G!Slot(due) \in Int /\ 2 * G!Slot(due) <= due /\ due <= 2 * G!Slot(due) + 1
      /\ G!Slot(stamp) \in Int /\ 2 * G!Slot(stamp) <= stamp /\ stamp <= 2 * G!Slot(stamp) + 1
      /\ G!SlotFrom(stamp) \in Int /\ stamp <= 2 * G!SlotFrom(stamp)
      /\ 2 * G!SlotFrom(stamp) <= stamp + 1
  BY SlotFacts
<1>3. G!SlotFrom(stamp + Delay * G!P) = G!SlotFrom(stamp) + Delay
  BY <1>1 DEF G!SlotFrom, G!P
<1>4. CASE u <= G!Slot(now) + 1
  BY <1>1, <1>2, <1>4
<1>5. CASE u = G!SlotFrom(stamp) + Delay
  BY <1>1, <1>2, <1>5
<1> QED
  BY <1>3, <1>4, <1>5

\* A request in time is made: its rows reach the freeze line, and the answer will meet them.
LEMMA AskKept ==
  ASSUME G!TimelineAssumption, G!Fits, PlanInv, G!Ask PROVE PlanInv'
<1>1. /\ phase = "plan"
      /\ UNCHANGED <<now, next, committed, targets, history, revision, due, bridged, exec>>
      /\ now \in Nat /\ next \in Nat /\ committed \in Nat /\ due \in Nat /\ bridged \in Nat
      /\ H \in Nat \ {0} /\ Delay \in Nat /\ Execute \in Nat \ {0} /\ Execute < H /\ Jitter \in Nat
  BY DEF G!Ask, PlanInv, ClockTypes, G!TimelineAssumption
<1>2. PICK stamp \in G!Beyond(due, now - Jitter)..now :
        IF G!PrefixLength(stamp) < G!SlotFrom(G!FreezeAt(stamp) * G!P - stamp)
        THEN /\ phase' = "over" /\ failed' = (IF G!Tardy(stamp) THEN "late" ELSE "runway")
             /\ UNCHANGED context
        ELSE /\ phase' = "infer" /\ UNCHANGED failed
             /\ context' = [stamp |-> stamp, rev |-> revision, freeze |-> G!FreezeAt(stamp),
                            prefix |-> G!PrefixLength(stamp), tardy |-> G!Tardy(stamp)]
  BY Zenon DEF G!Ask, G!Over
<1> DEFINE freeze == G!FreezeAt(stamp)
<1> DEFINE n == G!PrefixLength(stamp)
<1> DEFINE last == G!SlotFrom(stamp + Delay * G!P)
<1>3. stamp \in Nat /\ stamp <= now /\ due <= stamp /\ now - Jitter <= stamp
  <2>1. /\ G!Beyond(due, now - Jitter) \in Int /\ G!Beyond(due, now - Jitter) >= due
        /\ G!Beyond(due, now - Jitter) >= now - Jitter
    BY <1>1 DEF G!Beyond
  <2> QED
    BY <1>1, <2>1
<1>4. /\ freeze \in Nat /\ freeze \in {next, committed, bridged, last}
      /\ last \in Nat
  <2>1. last \in Nat
    BY <1>1, <1>3 DEF G!SlotFrom, G!P
  <2> QED
    BY <1>1, <2>1 DEF G!FreezeAt, G!Beyond
<1>5. G!Tardy(stamp) \in BOOLEAN /\ (~G!Tardy(stamp) => stamp <= due + Jitter)
  BY <1>1, <1>3 DEF G!Tardy
<1>6. PICK e \in Int : Reaches(e)
  BY <1>1 DEF PlanInv, Running
<1>7. InTime
  BY <1>1 DEF PlanInv, Running
<1>8. /\ G!Slot(stamp) \in Nat /\ 2 * G!Slot(stamp) <= stamp /\ stamp <= 2 * G!Slot(stamp) + 1
      /\ G!SlotFrom(stamp) \in Nat /\ stamp <= 2 * G!SlotFrom(stamp)
      /\ 2 * G!SlotFrom(stamp) <= stamp + 1 /\ G!Slot(now) \in Int
  BY <1>1, <1>3, SlotFacts DEF G!Slot, G!SlotFrom, G!P
<1>9. G!SlotFrom(freeze * G!P - stamp) = freeze - G!Slot(stamp)
  <2> HIDE DEF freeze
  <2> QED
    BY <1>3, <1>4 DEF G!SlotFrom, G!Slot, G!P
<1>10. ASSUME ~G!Tardy(stamp)
       PROVE  /\ freeze <= e /\ n \in Int /\ n >= freeze - G!Slot(stamp)
              /\ freeze # bridged => /\ freeze <= G!Slot(stamp) + H - 1
                                     /\ 2 * freeze - stamp <= 2 * (n - 1)
                                     /\ 2 * freeze - stamp <= 2 * G!Spare
  <2>1. e >= G!Slot(due) + G!Spare /\ e >= H - 1 /\ bridged <= H - 2
    BY <1>6 DEF Reaches
  <2>2. next <= G!Slot(now) + 1
    BY <1>7 DEF InTime
  <2>3. committed = next \/ (exec.pc = "sent" /\ committed = next + 1)
    BY <1>7 DEF InTime
  <2>4. committed <= G!Slot(now) + 1
    <3>1. CASE exec.pc = "sent" /\ committed = next + 1
      <4>1. 2 * next <= now
        BY <3>1, <1>7 DEF InTime
      <4>2. now <= 2 * G!Slot(now) + 1
        BY <1>1 DEF G!Slot, G!P
      <4> QED
        BY <1>1, <1>8, <3>1, <4>1, <4>2
    <3> QED
      BY <2>2, <2>3, <3>1
  <2>5. ASSUME freeze # bridged
        PROVE  /\ freeze <= e /\ freeze <= G!Slot(stamp) + H - 1
               /\ 2 * freeze - stamp <= 2 * G!Spare
               /\ 2 * freeze - stamp <= 2 * (e - G!SlotFrom(stamp))
    <3>1. freeze <= G!Slot(now) + 1 \/ freeze = last
      BY <1>4, <2>2, <2>4, <2>5
    <3> HIDE DEF freeze
    <3> QED
      BY <1>1, <1>3, <1>4, <1>5, <1>10, <2>1, <3>1, InTimeFacts
  <2>6. freeze <= e /\ e + 1 >= G!SlotFrom(stamp)
    <3>1. last \in Int /\ (last = G!SlotFrom(stamp + Delay * G!P))
      BY <1>4
    <3>2. 2 * last - stamp <= 2 * (e - G!SlotFrom(stamp))
      <4> HIDE DEF last
      <4> QED
        BY <1>1, <1>3, <1>5, <1>10, <2>1, <3>1, InTimeFacts
    <3>3. last >= G!SlotFrom(stamp)
      BY <1>1, <1>3 DEF G!SlotFrom, G!P
    <3>4. freeze <= e
      <4> HIDE DEF freeze
      <4> QED
        BY <1>1, <2>1, <2>5
    <3> HIDE DEF last
    <3> QED
      BY <1>8, <3>1, <3>2, <3>3, <3>4
  <2>7. G!Slot(stamp) >= next - 1 - H
    <3>1. now <= 2 * G!Slot(now) + 1 /\ 2 * G!Slot(now) <= now
      BY <1>1 DEF G!Slot, G!P
    <3>2. G!Spare >= Jitter + 2 /\ G!Spare = H - 1 - Execute
      BY DEF G!Fits, G!Spare
    <3> QED
      BY <1>1, <1>3, <1>8, <2>2, <3>1, <3>2
  <2>8. \A i \in Nat : G!RowKnown(stamp, i) <=> G!SlotFrom(stamp) + i <= e
    BY <1>1, <1>3, <1>6, <2>7, KnownRows
  <2>9. n \in 0..H /\ (n = H \/ n = e - G!SlotFrom(stamp) + 1)
    BY <1>1, <1>3, <2>6, <2>8, PrefixFacts
  <2>10. /\ freeze \in Int /\ (freeze = bridged => freeze <= H - 2)
    BY <1>4, <2>1
  <2>11. freeze # bridged => 2 * freeze - stamp <= 2 * (H - 2)
    <3>1. G!Spare = H - 1 - Execute
      BY DEF G!Spare
    <3> HIDE DEF freeze
    <3> QED
      BY <1>1, <2>5, <3>1, <1>3, <2>10
  <2> HIDE DEF freeze, n
  <2>12. n >= freeze - G!Slot(stamp)
    <3>1. CASE freeze = bridged
      BY <1>1, <1>3, <1>8, <2>1, <2>6, <2>9, <2>10, <3>1
    <3>2. CASE freeze # bridged
      BY <1>1, <1>3, <1>8, <2>5, <2>6, <2>9, <2>10, <2>11, <3>2
    <3> QED
      BY <3>1, <3>2
  <2>13. freeze # bridged => 2 * freeze - stamp <= 2 * (n - 1)
    BY <1>1, <1>3, <1>8, <2>5, <2>9, <2>10, <2>11
  <2> QED
    BY <2>5, <2>6, <2>9, <2>12, <2>13
<1>11. CASE n < G!SlotFrom(freeze * G!P - stamp)
  <2>1. phase' = "over" /\ UNCHANGED context
        /\ failed' = (IF G!Tardy(stamp) THEN "late" ELSE "runway")
    BY <1>2, <1>11
  <2>2. G!Tardy(stamp)
    <3> HIDE DEF n, freeze
    <3> QED
      BY <1>4, <1>8, <1>9, <1>10, <1>11
  <2>3. ClockTypes'
    BY <1>1, <2>1 DEF PlanInv, ClockTypes
  <2> QED
    BY <1>1, <2>1, <2>2, <2>3, OverKept
<1>12. CASE ~(n < G!SlotFrom(freeze * G!P - stamp))
  <2>1. /\ phase' = "infer" /\ UNCHANGED failed
        /\ context' = [stamp |-> stamp, rev |-> revision, freeze |-> freeze,
                       prefix |-> n, tardy |-> G!Tardy(stamp)]
    BY <1>2, <1>12
  <2>2. /\ context'.stamp = stamp /\ context'.rev = revision /\ context'.freeze = freeze
        /\ context'.prefix = n /\ context'.tardy = G!Tardy(stamp)
    BY <2>1, Zenon
  <2>3. ClockTypes'
    <3>1. /\ context'.stamp \in Nat /\ context'.freeze \in Nat /\ context'.tardy \in BOOLEAN
      BY <1>3, <1>4, <1>5, <2>2, Zenon
    <3> QED
      BY <1>1, <2>1, <3>1, Zenon DEF PlanInv, ClockTypes
  <2>4. Standing' /\ Booting' /\ Unbroken'
    BY <1>1, <2>1, Zenon DEF PlanInv, Standing, Booting, Unbroken
  <2>5. InTime' /\ Reaches(e)'
    BY <1>1, <1>6, <1>7 DEF InTime, Reaches
  <2>6. Meets(e)'
    <3>1. SUFFICES ASSUME ~G!Tardy(stamp), freeze # bridged
                   PROVE  /\ n \in Int /\ freeze <= e /\ freeze <= G!Slot(stamp) + H - 1
                          /\ 2 * freeze - stamp <=
                               2 * ((IF n < H - Execute THEN n ELSE H - Execute) - 1)
      <4>1. G!Guided' = (IF n < H - Execute THEN n ELSE H - Execute) - 1
        BY <2>2, Zenon DEF G!Guided
      <4> HIDE DEF n, freeze
      <4> QED
        BY <1>1, <2>1, <2>2, <3>1, <4>1 DEF Meets
    <3>2. G!Spare = H - 1 - Execute
      BY DEF G!Spare
    <3> HIDE DEF n, freeze
    <3> QED
      BY <1>1, <1>10, <3>1, <3>2
  <2> QED
    BY <2>3, <2>4, <2>5, <2>6 DEF PlanInv, Running
<1> QED
  BY <1>11, <1>12

\* The executor has not committed more than the slot that comes.
LEMMA CommittedSoon ==
  ASSUME InTime, now \in Nat, next \in Nat
  PROVE  committed \in Nat /\ committed <= G!Slot(now) + 1 /\ committed >= next
<1>1. G!Slot(now) \in Int /\ 2 * G!Slot(now) <= now /\ now <= 2 * G!Slot(now) + 1
  BY DEF G!Slot, G!P
<1>2. next <= G!Slot(now) + 1 /\ (committed = next \/ (committed = next + 1 /\ 2 * next <= now))
  BY DEF InTime
<1> QED
  BY <1>1, <1>2

\* An answer in time meets the old plan.
LEMMA AnswerMeets ==
  ASSUME G!TimelineAssumption, ClockTypes, InTime, NEW e \in Int, Reaches(e), Meets(e),
         phase = "infer", ~G!Late, ~context.tardy, context.freeze # bridged
  PROVE  G!Refusal = "none"
<1> DEFINE freeze == context.freeze
<1> DEFINE stamp == context.stamp
<1>1. /\ now \in Nat /\ next \in Nat /\ freeze \in Nat /\ stamp \in Nat /\ H \in Nat \ {0}
      /\ Execute \in Nat
  BY DEF ClockTypes, G!TimelineAssumption
<1>2. /\ context.rev = revision /\ context.prefix \in Int /\ freeze <= e
      /\ freeze <= G!Slot(stamp) + H - 1 /\ 2 * freeze - stamp <= 2 * G!Guided
  BY DEF Meets
<1>3. committed \in Nat /\ committed <= G!Slot(now) + 1 /\ next <= G!Slot(now) + 1
  BY <1>1, CommittedSoon DEF InTime
<1>4. G!Slot(now) \in Int /\ G!Slot(now) + 1 <= freeze
  BY <1>1 DEF G!Late, G!P, G!Slot
<1>5. G!Cut = freeze
  <2> HIDE DEF freeze
  <2> QED
    BY <1>1, <1>3, <1>4 DEF G!Cut, G!Beyond, freeze
<1>6. G!Last = G!Slot(stamp) + H - 1 /\ G!Last \in Int
  BY <1>1 DEF G!Last, G!Slot, G!P
<1>7. DOMAIN targets = next..e
  BY DEF Reaches
<1> HIDE DEF freeze, stamp
<1>8. next..G!Last \ (G!Kept \cup G!Cut..G!Last) = {}
  <2>1. SUFFICES ASSUME NEW u \in next..G!Last, u \notin G!Cut..G!Last PROVE u \in G!Kept
    OBVIOUS
  <2> QED
    BY <1>1, <1>2, <1>5, <1>6, <1>7, <2>1 DEF G!Kept
<1>9. G!Cut \in DOMAIN targets
  BY <1>1, <1>2, <1>3, <1>4, <1>5, <1>7
<1>10. ~(G!Cut * G!P - stamp > G!Guided * G!P)
  <2>1. G!Guided \in Int
    BY <1>1, <1>2 DEF G!Guided
  <2> QED
    BY <1>1, <1>2, <1>5, <2>1 DEF G!P
<1>11. ~(G!Cut > G!Last)
  BY <1>1, <1>2, <1>5, <1>6
<1> QED
  BY <1>2, <1>8, <1>9, <1>10, <1>11, Zenon DEF G!Refusal, stamp

\* A splice keeps what is committed and reaches its horizon.
LEMMA SpliceKept ==
  ASSUME G!TimelineAssumption, PlanInv, phase = "infer", G!Refusal = "none", phase' = "plan",
         UNCHANGED failed,
         targets' = [t \in G!Kept \cup G!Cut..G!Last |->
                       IF t < G!Cut THEN targets[t] ELSE revision],
         revision' = revision + 1, due' = context.stamp + Execute * G!P,
         context' = G!NoContext,
         UNCHANGED <<now, next, committed, history, bridged, exec, started>>
  PROVE  PlanInv'
<1>1. /\ now \in Nat /\ next \in Nat /\ committed \in Nat /\ context.freeze \in Nat
      /\ context.stamp \in Nat /\ revision \in Nat /\ H \in Nat \ {0} /\ Execute \in Nat
  BY DEF PlanInv, ClockTypes, G!TimelineAssumption
<1>2. PICK e \in Int : Reaches(e)
  BY DEF PlanInv, Running
<1>3. InTime /\ DOMAIN targets = next..e /\ e >= H - 1 /\ bridged <= H - 2
  BY <1>2 DEF PlanInv, Running, Reaches
<1>4. /\ G!Cut \in Int /\ G!Cut >= next /\ G!Cut >= committed /\ G!Slot(now) \in Int
  BY <1>1 DEF G!Cut, G!Beyond, G!Slot, G!P
<1>5. /\ G!Last = G!Slot(context.stamp) + H - 1 /\ G!Last \in Int /\ G!Slot(context.stamp) \in Nat
      /\ G!Slot(due') = G!Slot(context.stamp) + Execute /\ due' \in Nat
  BY <1>1 DEF G!Last, G!Slot, G!P
<1>6. G!Cut <= G!Last
  BY <1>4, <1>5 DEF G!Refusal
<1>7. next..G!Last \ (G!Kept \cup G!Cut..G!Last) = {}
  BY Zenon DEF G!Refusal
<1>8. DOMAIN targets' = next..G!Last
  <2>1. DOMAIN targets' = G!Kept \cup G!Cut..G!Last
    OBVIOUS
  <2>2. G!Kept \subseteq next..G!Last
    BY <1>1, <1>3, <1>4, <1>5, <1>6 DEF G!Kept
  <2>3. G!Cut..G!Last \subseteq next..G!Last
    BY <1>1, <1>4, <1>5
  <2> QED
    BY <1>7, <2>1, <2>2, <2>3, Zenon
<1>9. \A t \in DOMAIN targets' : targets'[t] \in Nat
  <2>1. SUFFICES ASSUME NEW t \in G!Kept \cup G!Cut..G!Last
                 PROVE  (IF t < G!Cut THEN targets[t] ELSE revision) \in Nat
    OBVIOUS
  <2>2. t < G!Cut => t \in DOMAIN targets
    BY <1>4, <1>5, <2>1 DEF G!Kept
  <2> QED
    BY <1>1, <2>2 DEF PlanInv, ClockTypes
<1>10. /\ context'.stamp = 0 /\ context'.freeze = 0 /\ context'.tardy = FALSE
  BY DEF G!NoContext
<1>11. ClockTypes'
  <2>1. context'.stamp \in Nat /\ context'.freeze \in Nat /\ revision' \in Nat
    BY <1>1, <1>10
  <2>2. context'.tardy \in BOOLEAN
    BY <1>10, Zenon
  <2> QED
    BY <1>5, <1>9, <2>1, <2>2, Zenon DEF PlanInv, ClockTypes
<1>12. Standing'
  <2>1. SUFFICES ASSUME exec.pc = "sent"
                 PROVE  exec.tick = next /\ next \in DOMAIN targets' /\ targets'[next] = exec.target
    BY DEF Standing
  <2>2. /\ exec.tick = next /\ next \in DOMAIN targets /\ targets[next] = exec.target
    BY <2>1 DEF PlanInv, Standing
  <2>3. next < G!Cut
    BY <1>1, <1>3, <1>4, <2>1 DEF InTime
  <2>4. next \in G!Kept
    BY <1>1, <2>2, <2>3 DEF G!Kept
  <2> QED
    BY <2>2, <2>3, <2>4
<1>13. Booting' /\ Unbroken'
  BY DEF PlanInv, Booting, Unbroken
<1>14. InTime'
  BY <1>3 DEF InTime
<1>15. ASSUME NEW m \in Int, m = G!Last PROVE Reaches(m)' /\ Meets(m)'
  <2>1. m >= G!Slot(due') + G!Spare /\ m >= H - 1 /\ m + 1 >= next
    BY <1>1, <1>4, <1>5, <1>6, <1>15 DEF G!Spare
  <2>2. DOMAIN history = G!Beyond(0, next - 1 - H)..(next - 1)
    BY <1>2 DEF Reaches
  <2> QED
    BY <1>3, <1>8, <1>15, <2>1, <2>2 DEF Reaches, Meets
<1>16. Running'
  BY <1>5, <1>14, <1>15 DEF Running
<1> QED
  BY <1>11, <1>12, <1>13, <1>16 DEF PlanInv

LEMMA AnswerKept == ASSUME G!TimelineAssumption, PlanInv, G!Answer PROVE PlanInv'
<1>1. /\ phase = "infer" /\ context' = G!NoContext
      /\ UNCHANGED <<now, next, committed, history, bridged, exec, started>>
  BY DEF G!Answer
<1>2. CASE /\ G!Refusal = "none" /\ phase' = "plan" /\ UNCHANGED failed
           /\ targets' = [t \in G!Kept \cup G!Cut..G!Last |->
                            IF t < G!Cut THEN targets[t] ELSE revision]
           /\ revision' = revision + 1 /\ due' = context.stamp + Execute * G!P
  BY <1>1, <1>2, SpliceKept
<1>3. CASE /\ G!Over(IF G!Refusal = "none" THEN "unlike"
                     ELSE IF G!Late \/ context.tardy THEN "late"
                     ELSE IF context.freeze = bridged THEN "bridge" ELSE G!Refusal)
           /\ UNCHANGED <<targets, revision, due>>
  <2>1. phase' = "over"
    BY <1>3 DEF G!Over
  <2>2. failed' \in {"unlike", "late", "bridge"}
    <3>1. PICK e \in Int : Reaches(e) /\ Meets(e)
      BY <1>1 DEF PlanInv, Running
    <3>2. InTime /\ ClockTypes
      BY <1>1 DEF PlanInv, Running
    <3>3. G!Refusal = "none" \/ G!Late \/ context.tardy \/ context.freeze = bridged
      BY <1>1, <3>1, <3>2, AnswerMeets, Zenon
    <3> QED
      BY <1>3, <3>3, Zenon DEF G!Over
  <2>3. ClockTypes'
    <3>1. /\ context'.stamp = 0 /\ context'.freeze = 0 /\ context'.tardy = FALSE
      BY <1>1 DEF G!NoContext
    <3>2. context'.stamp \in Nat /\ context'.freeze \in Nat
      BY <3>1
    <3>3. context'.tardy \in BOOLEAN
      BY <3>1, Zenon
    <3>4. phase' \in {"boot", "plan", "infer", "over"}
      BY <2>1
    <3> QED
      BY <1>1, <1>3, <3>2, <3>3, <3>4, Zenon DEF PlanInv, ClockTypes
  <2> QED
    BY <1>1, <1>3, <2>1, <2>2, <2>3, OverKept
<1> QED
  BY <1>1, <1>2, <1>3, Zenon DEF G!Answer

\* The executor takes the slot that is next, commits it, and passes on to the one after it.
LEMMA WakeKept == ASSUME G!TimelineAssumption, PlanInv, G!Wake PROVE PlanInv'
<1>1. /\ phase # "over" /\ exec.pc = "wait" /\ now >= next * G!P
      /\ UNCHANGED <<now, next, committed, targets, history, revision, context, due, bridged>>
  BY DEF G!Wake
<1>2. CASE phase' = "over" /\ failed' = "slot" /\ UNCHANGED exec
  <2>1. ClockTypes'
    BY <1>1, <1>2 DEF PlanInv, ClockTypes
  <2> QED
    BY <1>1, <1>2, <2>1, OverKept
<1>3. CASE exec' = [exec EXCEPT !.pc = "lock"] /\ UNCHANGED <<phase, failed>>
  <2>1. exec' \in [pc : {"off", "wait", "lock", "sent"}, tick : Nat, target : Nat]
        /\ exec'.pc = "lock"
    BY <1>3 DEF PlanInv, ClockTypes
  <2>2. ClockTypes'
    BY <1>1, <1>3, <2>1, Zenon DEF PlanInv, ClockTypes
  <2>3. Standing' /\ Unbroken'
    BY <1>3, <2>1 DEF PlanInv, Standing, Unbroken
  <2>4. Booting'
    BY <1>1, <1>3 DEF PlanInv, Booting
  <2>5. InTime => InTime'
    <3>1. 2 * next <= now
      BY <1>1 DEF PlanInv, ClockTypes, G!P
    <3> QED
      BY <1>1, <2>1, <3>1 DEF InTime
  <2>6. G!Guided' = G!Guided
    BY <1>1 DEF G!Guided
  <2>7. \A e \in Int : Reaches(e)' = Reaches(e) /\ Meets(e)' = Meets(e)
    BY <1>1, <1>3, <2>6, Zenon DEF Reaches, Meets
  <2> QED
    BY <1>3, <2>2, <2>3, <2>4, <2>5, <2>7, Zenon DEF PlanInv, Running
<1> QED
  BY <1>2, <1>3, Zenon DEF G!Wake, G!Over

LEMMA CommitKept == ASSUME G!TimelineAssumption, PlanInv, G!Commit PROVE PlanInv'
<1>1. /\ phase # "over" /\ exec.pc = "lock"
      /\ UNCHANGED <<now, next, targets, history, revision, context, due, bridged>>
  BY DEF G!Commit
<1>2. CASE phase' = "over" /\ failed' \in {"slot", "exhausted"} /\ UNCHANGED <<committed, exec>>
  <2>1. ClockTypes'
    BY <1>1, <1>2 DEF PlanInv, ClockTypes
  <2> QED
    BY <1>1, <1>2, <2>1, OverKept
<1>3. CASE /\ next \in DOMAIN targets /\ committed' = next + 1 /\ UNCHANGED <<phase, failed>>
           /\ exec' = [pc |-> "sent", tick |-> next, target |-> targets[next]]
  <2>1. /\ exec' \in [pc : {"off", "wait", "lock", "sent"}, tick : Nat, target : Nat]
        /\ exec'.pc = "sent" /\ exec'.tick = next /\ exec'.target = targets[next]
    BY <1>3 DEF PlanInv, ClockTypes
  <2>2. ClockTypes'
    <3>1. committed' \in Nat
      BY <1>3 DEF PlanInv, ClockTypes
    <3> QED
      BY <1>1, <1>3, <2>1, <3>1, Zenon DEF PlanInv, ClockTypes
  <2>3. Standing' /\ Unbroken'
    BY <1>1, <1>3, <2>1 DEF PlanInv, Standing, Unbroken
  <2>4. Booting'
    BY <1>1, <1>3 DEF PlanInv, Booting
  <2>5. InTime => InTime'
    BY <1>1, <1>3, <2>1 DEF InTime
  <2>6. G!Guided' = G!Guided
    BY <1>1 DEF G!Guided
  <2>7. \A e \in Int : Reaches(e)' = Reaches(e) /\ Meets(e)' = Meets(e)
    BY <1>1, <1>3, <2>6, Zenon DEF Reaches, Meets
  <2> QED
    BY <1>3, <2>2, <2>3, <2>4, <2>5, <2>7, Zenon DEF PlanInv, Running
<1> QED
  BY <1>2, <1>3, Zenon DEF G!Commit, G!Over

LEMMA CompleteKept == ASSUME G!TimelineAssumption, PlanInv, G!Complete PROVE PlanInv'
<1>1. /\ phase # "over" /\ exec.pc = "sent"
      /\ UNCHANGED <<now, committed, revision, context, due, bridged>>
      /\ now \in Nat /\ next \in Nat /\ committed \in Nat /\ H \in Nat
  BY DEF G!Complete, PlanInv, ClockTypes, G!TimelineAssumption
<1>2. CASE phase' = "over" /\ failed' = "slot" /\ UNCHANGED <<next, targets, history, exec>>
  <2>1. ClockTypes'
    BY <1>1, <1>2 DEF PlanInv, ClockTypes
  <2> QED
    BY <1>1, <1>2, <2>1, OverKept
<1>3. CASE /\ ~G!Lost
           /\ history' = [t \in {s \in DOMAIN history : s >= next - H} \cup {next} |->
                            IF t = next THEN targets[next] ELSE history[t]]
           /\ targets' = [t \in DOMAIN targets \ {next} |-> targets[t]]
           /\ next' = next + 1 /\ exec' = [exec EXCEPT !.pc = "wait"]
           /\ UNCHANGED <<phase, failed>>
  <2>1. phase \in {"plan", "infer"}
    BY <1>1 DEF PlanInv, Booting, ClockTypes
  <2>2. PICK e \in Int : Reaches(e) /\ Meets(e)
    BY <2>1 DEF PlanInv, Running
  <2>3. InTime /\ next \in DOMAIN targets /\ DOMAIN targets = next..e
    BY <1>1, <2>1, <2>2 DEF PlanInv, Running, Standing, Reaches
  <2>4. exec' \in [pc : {"off", "wait", "lock", "sent"}, tick : Nat, target : Nat]
        /\ exec'.pc = "wait"
    BY <1>3 DEF PlanInv, ClockTypes
  <2>5. ClockTypes'
    <3>1. next' \in Nat
      BY <1>1, <1>3
    <3>2. \A t \in DOMAIN targets' : targets'[t] \in Nat
      BY <1>3 DEF PlanInv, ClockTypes
    <3> QED
      BY <1>1, <1>3, <2>4, <3>1, <3>2, Zenon DEF PlanInv, ClockTypes
  <2>6. Standing' /\ Unbroken' /\ Booting'
    BY <1>3, <2>1, <2>4 DEF PlanInv, Standing, Unbroken, Booting
  <2>7. InTime'
    <3>1. 2 * next <= now /\ committed = next + 1
      BY <1>1, <2>3 DEF InTime
    <3>2. now <= 2 * G!Slot(now) + 1 /\ G!Slot(now) \in Int
      BY <1>1 DEF G!Slot, G!P
    <3>3. next + 1 <= G!Slot(now) + 1
      BY <1>1, <3>1, <3>2
    <3> QED
      BY <1>1, <1>3, <2>4, <3>1, <3>3 DEF InTime
  <2>8. Reaches(e)'
    <3>1. DOMAIN targets' = next'..e /\ e + 1 >= next'
      BY <1>1, <1>3, <2>3
    <3>2. DOMAIN history' = G!Beyond(0, next' - 1 - H)..(next' - 1)
      <4>1. DOMAIN history = G!Beyond(0, next - 1 - H)..(next - 1)
        BY <2>2 DEF Reaches
      <4>2. DOMAIN history' = {s \in DOMAIN history : s >= next - H} \cup {next}
        BY <1>3
      <4>3. /\ G!Beyond(0, next - 1 - H) = (IF 0 > next - 1 - H THEN 0 ELSE next - 1 - H)
            /\ G!Beyond(0, next' - 1 - H) = (IF 0 > next - H THEN 0 ELSE next - H)
            /\ next' - 1 = next
        BY <1>1, <1>3 DEF G!Beyond
      <4> QED
        BY <1>1, <4>1, <4>2, <4>3
    <3> QED
      BY <1>1, <2>2, <3>1, <3>2 DEF Reaches
  <2>9. Meets(e)'
    <3>1. G!Guided' = G!Guided
      BY <1>1 DEF G!Guided
    <3> QED
      BY <1>1, <1>3, <2>2, <3>1, Zenon DEF Meets
  <2> QED
    BY <2>5, <2>6, <2>7, <2>8, <2>9 DEF PlanInv, Running
<1> QED
  BY <1>2, <1>3, Zenon DEF G!Complete, G!Over

LEMMA PlanStep ==
  ASSUME G!TimelineAssumption, G!Fits, PlanInv, [G!Next]_(G!vars) PROVE PlanInv'
<1>1. CASE UNCHANGED G!vars
  <2>1. UNCHANGED <<now, phase, failed, next, committed, targets, history, revision, context,
                    due, bridged, exec, started>>
    BY <1>1 DEF G!vars
  <2>2. G!Guided' = G!Guided
    BY <2>1 DEF G!Guided
  <2>3. InTime' = InTime /\ \A e \in Int : Reaches(e)' = Reaches(e) /\ Meets(e)' = Meets(e)
    BY <2>1, <2>2, Zenon DEF InTime, Reaches, Meets
  <2> QED
    BY <2>1, <2>3, Zenon DEF PlanInv, ClockTypes, Unbroken, Standing, Booting, Running
<1> QED
  BY <1>1, PassKept, BootstrapKept, AskKept, AnswerKept, WakeKept, CommitKept, CompleteKept, Zenon
     DEF G!Next, G!Rest

\* What is committed stands, whatever the horizons are.
StandInv ==
  /\ Standing /\ (phase = "boot" => exec.pc = "off")
  /\ now \in Nat /\ next \in Nat /\ committed \in Nat
  /\ context.freeze \in Int /\ bridged \in Int
  /\ exec.pc = "sent" => committed = next + 1
  /\ DOMAIN exec = {"pc", "tick", "target"}

LEMMA StandStep ==
  ASSUME G!TimelineAssumption, StandInv, [G!Next]_(G!vars) PROVE StandInv'
<1>1. ASSUME exec' = exec, next' = next, committed' = committed, targets' = targets,
             now' \in Nat, context'.freeze \in Int, bridged' \in Int,
             phase' = "boot" => phase = "boot"
      PROVE  StandInv'
  BY <1>1 DEF StandInv, Standing
<1>2. CASE UNCHANGED G!vars \/ G!Rest
  <2>1. UNCHANGED <<now, phase, next, committed, targets, context, bridged, exec>>
    BY <1>2, Zenon DEF G!vars, G!Rest
  <2> QED
    BY <1>1, <2>1, Zenon DEF StandInv
<1>3. CASE G!Pass
  <2>1. now' \in Nat
    BY <1>3 DEF G!Pass, StandInv
  <2> QED
    BY <1>1, <1>3, <2>1, Zenon DEF G!Pass, StandInv
<1>4. CASE G!Bootstrap
  <2>1. G!Slot(now) + 1 \in Nat /\ UNCHANGED <<now, context>>
    BY <1>4 DEF G!Bootstrap, StandInv, G!Slot, G!P
  <2>2. CASE /\ phase' = "over"
             /\ UNCHANGED <<next, committed, targets, bridged, exec>>
    BY <1>1, <2>1, <2>2 DEF StandInv
  <2>3. CASE /\ phase' = "plan" /\ next' = G!Slot(now) + 1 /\ committed' = G!Slot(now) + 1
             /\ exec' = [exec EXCEPT !.pc = "wait"]
             /\ \E b \in Bridges : bridged' = (IF b = 0 THEN 0 ELSE
                                               G!Beyond(G!Slot(now) + 1, Delay) + b + 1)
    <3>1. exec'.pc = "wait" /\ DOMAIN exec' = {"pc", "tick", "target"}
      BY <2>3 DEF StandInv
    <3>2. now' \in Nat /\ context'.freeze \in Int
      BY <2>1 DEF StandInv
    <3>3. bridged' \in Int
      BY <2>1, <2>3 DEF G!Beyond, G!TimelineAssumption
    <3> QED
      BY <2>1, <2>3, <3>1, <3>2, <3>3 DEF StandInv, Standing
  <2> QED
    BY <1>4, <2>2, <2>3, Zenon DEF G!Bootstrap, G!Over
<1>5. CASE G!Ask
  <2>1. phase' # "boot" /\ UNCHANGED <<now, exec, next, committed, targets>>
    BY <1>5, Zenon DEF G!Ask, G!Over
  <2>2. UNCHANGED context \/ \E stamp \in Int : context'.freeze = G!FreezeAt(stamp)
    BY <1>5 DEF G!Ask
  <2>3. \A stamp \in Int : G!FreezeAt(stamp) \in Int
    BY DEF StandInv, G!FreezeAt, G!Beyond, G!SlotFrom, G!P, G!TimelineAssumption
  <2>4. context'.freeze \in Int /\ bridged' \in Int
    BY <1>5, <2>2, <2>3 DEF StandInv, G!Ask
  <2> QED
    BY <1>1, <2>1, <2>4, Zenon DEF StandInv
<1>6. CASE G!Answer
  <2>0. context'.freeze \in Int /\ bridged' \in Int
    BY <1>6 DEF G!Answer, G!NoContext, StandInv
  <2>1. CASE UNCHANGED targets
    <3>1. phase' # "boot"
      BY <1>6, Zenon DEF G!Answer, G!Over
    <3> QED
      BY <1>1, <1>6, <2>0, <2>1, <3>1, Zenon DEF StandInv, G!Answer
  <2>2. CASE /\ phase' = "plan"
             /\ targets' = [t \in G!Kept \cup G!Cut..G!Last |->
                              IF t < G!Cut THEN targets[t] ELSE revision]
    <3>1. UNCHANGED <<now, exec, next, committed>>
      BY <1>6 DEF G!Answer
    <3>2. ASSUME exec.pc = "sent"
          PROVE  next \in DOMAIN targets' /\ targets'[next] = targets[next]
      <4>1. next < G!Cut /\ next \in DOMAIN targets
        <5>1. next \in DOMAIN targets /\ committed = next + 1 /\ next \in Nat
          BY <3>2 DEF StandInv, Standing
        <5>2. G!Cut >= committed
          <6>1. committed \in Nat /\ now \in Nat /\ next \in Nat /\ context.freeze \in Int
            BY DEF StandInv
          <6> QED
            BY <6>1 DEF G!Cut, G!Beyond, G!Slot, G!P
        <5>3. G!Cut \in Int
          BY DEF StandInv, G!Cut, G!Beyond, G!Slot, G!P
        <5> QED
          BY <5>1, <5>2, <5>3
      <4>2. next \in G!Kept
        BY <4>1 DEF StandInv, G!Kept
      <4> QED
        BY <2>2, <4>1, <4>2
    <3> QED
      BY <2>0, <2>2, <3>1, <3>2 DEF StandInv, Standing
  <2> QED
    BY <1>6, <2>1, <2>2, Zenon DEF G!Answer
<1>7. CASE G!Wake
  BY <1>1, <1>7 DEF G!Wake, G!Over, StandInv, Standing
<1>8. CASE G!Commit
  BY <1>1, <1>8 DEF G!Commit, G!Over, StandInv, Standing
<1>9. CASE G!Complete
  BY <1>1, <1>9 DEF G!Complete, G!Over, StandInv, Standing
<1> QED
  BY <1>2, <1>3, <1>4, <1>5, <1>6, <1>7, <1>8, <1>9, Zenon DEF G!Next

\* What a slot is sent stays what the plan keeps for it, while answers are spliced.
THEOREM PlanStands == G!TimelineAssumption => (G!Spec => []G!CommittedStands)
<1> SUFFICES ASSUME G!TimelineAssumption PROVE G!Spec => []G!CommittedStands
  OBVIOUS
<1>1. G!Init => StandInv
  BY DEF G!Init, G!NoContext, StandInv, Standing
<1>2. StandInv /\ [G!Next]_(G!vars) => StandInv'
  BY StandStep
<1>3. StandInv => G!CommittedStands
  BY DEF StandInv, Standing, G!CommittedStands
<1> QED
  BY <1>1, <1>2, <1>3, PTL DEF G!Spec

\* An answer in time continues the plan.
THEOREM PlanIsSpliced == G!TimelineAssumption => (G!Spec => []G!OnTimeIsSpliced)
<1> SUFFICES ASSUME G!TimelineAssumption PROVE G!Spec => []G!OnTimeIsSpliced
  OBVIOUS
<1>1. CASE ~G!Fits
  <2>1. G!OnTimeIsSpliced
    BY <1>1 DEF G!OnTimeIsSpliced
  <2> QED
    BY <2>1, PTL
<1>2. CASE G!Fits
  <2>1. G!Init => PlanInv
    BY PlanInit
  <2>2. PlanInv /\ [G!Next]_(G!vars) => PlanInv'
    BY <1>2, PlanStep
  <2>3. PlanInv => G!OnTimeIsSpliced
    BY DEF PlanInv, Unbroken, G!OnTimeIsSpliced
  <2> QED
    BY <2>1, <2>2, <2>3, PTL DEF G!Spec
<1> QED
  BY <1>1, <1>2
=============================================================================
