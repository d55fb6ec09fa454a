--------------------------- MODULE ControlProofs ---------------------------
(***************************************************************************)
(* Proofs about Control, for every set of nodes and calls, with lost       *)
(* connections and with answers that overtake the registration of their    *)
(* call.  IInv is inductive; what a caller has gathered is complete, the   *)
(* count of missing answers is exact, and remote calls implement           *)
(* ScatterGather.                                                          *)
(***************************************************************************)
EXTENDS Control, FiniteSetTheorems, TLAPS

StageFn == [Call -> [Host -> 0 .. 7]]

-----------------------------------------------------------------------------
(* Stages.                                                                 *)

\* One message moves on: to stage k.
Moved(stage, S, c, h, k) ==
  /\ S \in StageFn
  /\ S[c][h] = k
  /\ \A d \in Call, g \in Host : ~(d = c /\ g = h) => S[d][g] = stage[d][g]

LEMMA Move ==
  ASSUME NEW stage \in StageFn, NEW c \in Call, NEW h \in Host, NEW k \in 0 .. 7
  PROVE  \E S : Moved(stage, S, c, h, k)
<1>1. Moved(stage, [stage EXCEPT ![c][h] = k], c, h, k)
  BY DEF StageFn, Moved
<1> QED
  BY <1>1

-----------------------------------------------------------------------------
(* Pipes: what sending, receiving and everything else does to them.        *)

CallPipes == [Host -> Seq(Call)]

\* P is the pipe after x was sent to h, or after x was received from it.
Appended(pipe, P, h, x) == P = [pipe EXCEPT ![h] = Append(@, x)]
Received(pipe, P, h, x) ==
  pipe[h] # <<>> /\ x = Head(pipe[h]) /\ P = [pipe EXCEPT ![h] = Tail(@)]

LEMMA SendCall ==
  ASSUME NEW pipe \in CallPipes, NEW stage \in StageFn, NEW S, NEW n, NEW P,
         NEW c \in Call, NEW h \in Host, Appended(pipe, P, h, c),
         Moved(stage, S, c, h, n), CallsAt(pipe, stage, n), stage[c][h] # n
  PROVE  CallsAt(P, S, n)
<1> USE DEF CallPipes, Appended
<1>1. ASSUME NEW g \in Host, NEW i \in DOMAIN P[g]
      PROVE  /\ S[P[g][i]][g] = n
             /\ \A j \in DOMAIN P[g] : P[g][i] = P[g][j] => i = j
  <2>1. CASE g # h
    BY <1>1, <2>1 DEF CallsAt, Moved
  <2>2. CASE g = h
    <3>1. /\ DOMAIN P[h] = 1 .. Len(pipe[h]) + 1 /\ DOMAIN pipe[h] = 1 .. Len(pipe[h])
          /\ Len(pipe[h]) \in Nat
          /\ P[h][Len(pipe[h]) + 1] = c
          /\ \A j \in 1 .. Len(pipe[h]) : P[h][j] = pipe[h][j] /\ pipe[h][j] \in Call
      OBVIOUS
    <3>2. \A j \in 1 .. Len(pipe[h]) : pipe[h][j] # c /\ S[pipe[h][j]][h] = n
      BY <3>1 DEF CallsAt, Moved
    <3>3. S[c][h] = n
      BY DEF Moved
    <3>4. i \in 1 .. Len(pipe[h]) + 1
      BY <1>1, <2>2, <3>1
    <3>5. S[P[h][i]][h] = n
      BY <3>1, <3>2, <3>3, <3>4
    <3>6. ASSUME NEW j \in 1 .. Len(pipe[h]) + 1, P[h][i] = P[h][j] PROVE i = j
      BY <3>1, <3>2, <3>4, <3>6 DEF CallsAt
    <3> QED
      BY <2>2, <3>1, <3>5, <3>6
  <2> QED
    BY <2>1, <2>2
<1> QED
  BY <1>1 DEF CallsAt

LEMMA AppendCallType ==
  ASSUME NEW pipe \in CallPipes, NEW P, NEW c \in Call, NEW h \in Host,
         Appended(pipe, P, h, c)
  PROVE  P \in CallPipes
<1>1. pipe[h] \in Seq(Call)
  BY DEF CallPipes
<1>2. Append(pipe[h], c) \in Seq(Call) /\ P = [pipe EXCEPT ![h] = Append(pipe[h], c)]
  BY <1>1 DEF Appended
<1> QED
  BY <1>2 DEF CallPipes

LEMMA TailCallType ==
  ASSUME NEW pipe \in CallPipes, NEW P, NEW h \in Host, NEW c,
         Received(pipe, P, h, c)
  PROVE  P \in CallPipes
<1>1. pipe[h] \in Seq(Call)
  BY DEF CallPipes
<1>2. Tail(pipe[h]) \in Seq(Call) /\ P = [pipe EXCEPT ![h] = Tail(pipe[h])]
  BY <1>1 DEF Received
<1> QED
  BY <1>2 DEF CallPipes

LEMMA HeadCall ==
  ASSUME NEW pipe \in CallPipes, NEW stage, NEW P, NEW h \in Host, NEW c, NEW n,
         Received(pipe, P, h, c), CallsAt(pipe, stage, n)
  PROVE  c \in Call /\ stage[c][h] = n
<1> USE DEF CallPipes, Received
<1>1. c = pipe[h][1] /\ c \in Call /\ 1 \in DOMAIN pipe[h]
  OBVIOUS
<1> QED
  BY <1>1 DEF CallsAt

LEMMA ReceiveCall ==
  ASSUME NEW pipe \in CallPipes, NEW stage \in StageFn, NEW S, NEW n, NEW k,
         NEW P,
         NEW c \in Call, NEW h \in Host, Received(pipe, P, h, c),
         Moved(stage, S, c, h, k), CallsAt(pipe, stage, n)
  PROVE  CallsAt(P, S, n)
<1> USE DEF CallPipes, Received
<1>1. /\ Len(pipe[h]) \in Nat \ {0} /\ DOMAIN pipe[h] = 1 .. Len(pipe[h])
      /\ DOMAIN P[h] = 1 .. Len(pipe[h]) - 1
      /\ c = pipe[h][1]
      /\ \A j \in DOMAIN P[h] : P[h][j] = pipe[h][j + 1] /\ P[h][j] \in Call
  OBVIOUS
<1>3. ASSUME NEW g \in Host, NEW i \in DOMAIN P[g]
      PROVE  /\ S[P[g][i]][g] = n
             /\ \A j \in DOMAIN P[g] : P[g][i] = P[g][j] => i = j
  <2>1. CASE g # h
    BY <1>1, <1>3, <2>1 DEF CallsAt, Moved
  <2>2. CASE g = h
    <3>1. i \in Nat /\ i + 1 \in DOMAIN pipe[h] /\ 1 \in DOMAIN pipe[h] /\ i + 1 # 1
      BY <1>1, <1>3, <2>2
    <3>2. P[h][i] # c /\ stage[P[h][i]][h] = n /\ P[h][i] \in Call
      BY <1>1, <1>3, <2>2, <3>1 DEF CallsAt
    <3>3. S[P[h][i]][h] = n
      BY <3>2 DEF Moved
    <3>4. ASSUME NEW j \in DOMAIN P[h], P[h][i] = P[h][j] PROVE i = j
      <4>1. j \in Nat /\ j + 1 \in DOMAIN pipe[h] /\ pipe[h][i + 1] = pipe[h][j + 1]
        BY <1>1, <1>3, <2>2, <3>4
      <4> QED
        BY <3>1, <4>1 DEF CallsAt
    <3> QED
      BY <2>2, <3>3, <3>4
  <2> QED
    BY <2>1, <2>2
<1> QED
  BY <1>3 DEF CallsAt

LEMMA OtherCall ==
  ASSUME NEW pipe \in CallPipes, NEW stage \in StageFn, NEW S, NEW n, NEW k,
         NEW c \in Call, NEW h \in Host,
         Moved(stage, S, c, h, k), CallsAt(pipe, stage, n), stage[c][h] # n
  PROVE  CallsAt(pipe, S, n)
BY DEF CallsAt, Moved, CallPipes

AnswerPipes == [Host -> Seq(Answer)]

ResultFn == [Call -> [Host -> Status \cup {None}]]

LEMMA AnswerAt ==
  ASSUME NEW s \in Seq(Answer), NEW i \in DOMAIN s
  PROVE  s[i] \in Answer /\ s[i].call \in Call /\ s[i].status \in Status
<1>1. s[i] \in Answer
  OBVIOUS
<1> QED
  BY <1>1 DEF Answer

LEMMA SendAnswer ==
  ASSUME NEW pipe \in AnswerPipes, NEW stage \in StageFn, NEW S, NEW n, NEW P,
         NEW a \in Answer, NEW h \in Host, NEW res \in ResultFn,
         Appended(pipe, P, h, a),
         Moved(stage, S, a.call, h, n), AnswersAt(pipe, stage, res, n),
         stage[a.call][h] # n, a.status = res[a.call][h]
  PROVE  AnswersAt(P, S, res, n)
<1> USE DEF AnswerPipes, Appended
<1>0. a.call \in Call
  BY DEF Answer
<1>1. ASSUME NEW g \in Host, NEW i \in DOMAIN P[g]
      PROVE  /\ S[P[g][i].call][g] = n
             /\ P[g][i].status = res[P[g][i].call][g]
             /\ \A j \in DOMAIN P[g] : P[g][i].call = P[g][j].call => i = j
  <2>1. CASE g # h
    <3>1. P[g] = pipe[g] /\ i \in DOMAIN pipe[g]
      BY <1>1, <2>1
    <3>2. pipe[g][i].call \in Call
      BY <3>1, AnswerAt
    <3>3. S[pipe[g][i].call][g] = stage[pipe[g][i].call][g]
      BY <3>2, <2>1, <1>0 DEF Moved
    <3> QED
      BY <3>1, <3>3 DEF AnswersAt
  <2>2. CASE g = h
    <3>1. /\ DOMAIN P[h] = 1 .. Len(pipe[h]) + 1 /\ DOMAIN pipe[h] = 1 .. Len(pipe[h])
          /\ Len(pipe[h]) \in Nat
          /\ P[h][Len(pipe[h]) + 1] = a
          /\ \A j \in 1 .. Len(pipe[h]) : P[h][j] = pipe[h][j] /\ pipe[h][j] \in Answer
      OBVIOUS
    <3>2. ASSUME NEW j \in 1 .. Len(pipe[h])
          PROVE  /\ pipe[h][j].call # a.call
                 /\ S[pipe[h][j].call][h] = n
                 /\ pipe[h][j].status = res[pipe[h][j].call][h]
      <4>1. /\ pipe[h][j].call \in Call
            /\ stage[pipe[h][j].call][h] = n
            /\ pipe[h][j].status = res[pipe[h][j].call][h]
        BY <3>1, AnswerAt DEF AnswersAt
      <4> QED
        BY <4>1, <1>0 DEF Moved
    <3>3. S[a.call][h] = n
      BY <1>0 DEF Moved
    <3>4. i \in 1 .. Len(pipe[h]) + 1
      BY <1>1, <2>2, <3>1
    <3>5. S[P[h][i].call][h] = n /\ P[h][i].status = res[P[h][i].call][h]
      BY <3>1, <3>2, <3>3, <3>4
    <3>6. ASSUME NEW j \in 1 .. Len(pipe[h]) + 1, P[h][i].call = P[h][j].call PROVE i = j
      BY <3>1, <3>2, <3>4, <3>6 DEF AnswersAt
    <3> QED
      BY <2>2, <3>1, <3>5, <3>6
  <2> QED
    BY <2>1, <2>2
<1> QED
  BY <1>1 DEF AnswersAt

LEMMA AppendAnswerType ==
  ASSUME NEW pipe \in AnswerPipes, NEW P, NEW a \in Answer, NEW h \in Host,
         Appended(pipe, P, h, a)
  PROVE  P \in AnswerPipes
<1>1. pipe[h] \in Seq(Answer)
  BY DEF AnswerPipes
<1>2. Append(pipe[h], a) \in Seq(Answer) /\ P = [pipe EXCEPT ![h] = Append(pipe[h], a)]
  BY <1>1 DEF Appended
<1> QED
  BY <1>2 DEF AnswerPipes

LEMMA TailAnswerType ==
  ASSUME NEW pipe \in AnswerPipes, NEW P, NEW h \in Host, NEW a,
         Received(pipe, P, h, a)
  PROVE  P \in AnswerPipes
<1>1. pipe[h] \in Seq(Answer)
  BY DEF AnswerPipes
<1>2. Tail(pipe[h]) \in Seq(Answer) /\ P = [pipe EXCEPT ![h] = Tail(pipe[h])]
  BY <1>1 DEF Received
<1> QED
  BY <1>2 DEF AnswerPipes

LEMMA HeadAnswer ==
  ASSUME NEW pipe \in AnswerPipes, NEW stage, NEW P, NEW h \in Host, NEW a, NEW n, NEW res,
         Received(pipe, P, h, a), AnswersAt(pipe, stage, res, n)
  PROVE  /\ a \in Answer
         /\ stage[a.call][h] = n
         /\ a.status = res[a.call][h]
<1> USE DEF AnswerPipes, Received
<1>1. a = pipe[h][1] /\ a \in Answer /\ 1 \in DOMAIN pipe[h]
  OBVIOUS
<1> QED
  BY <1>1 DEF AnswersAt

LEMMA ReceiveAnswer ==
  ASSUME NEW pipe \in AnswerPipes, NEW stage \in StageFn, NEW S, NEW n, NEW k,
         NEW P,
         NEW a \in Answer, NEW h \in Host, NEW res \in ResultFn, Received(pipe, P, h, a),
         Moved(stage, S, a.call, h, k), AnswersAt(pipe, stage, res, n)
  PROVE  AnswersAt(P, S, res, n)
<1> USE DEF AnswerPipes, Received
<1>1. /\ Len(pipe[h]) \in Nat \ {0} /\ DOMAIN pipe[h] = 1 .. Len(pipe[h])
      /\ DOMAIN P[h] = 1 .. Len(pipe[h]) - 1
      /\ a = pipe[h][1]
      /\ \A j \in DOMAIN P[h] : P[h][j] = pipe[h][j + 1] /\ P[h][j] \in Answer
  OBVIOUS
<1>2. a.call \in Call
  BY DEF Answer
<1>3. ASSUME NEW g \in Host, NEW i \in DOMAIN P[g]
      PROVE  /\ S[P[g][i].call][g] = n
             /\ P[g][i].status = res[P[g][i].call][g]
             /\ \A j \in DOMAIN P[g] : P[g][i].call = P[g][j].call => i = j
  <2>1. CASE g # h
    <3>1. P[g] = pipe[g] /\ i \in DOMAIN pipe[g]
      BY <1>3, <2>1
    <3>2. pipe[g][i].call \in Call
      BY <3>1, AnswerAt
    <3>3. S[pipe[g][i].call][g] = stage[pipe[g][i].call][g]
      BY <3>2, <2>1, <1>2 DEF Moved
    <3> QED
      BY <3>1, <3>3 DEF AnswersAt
  <2>2. CASE g = h
    <3>1. i \in Nat /\ i + 1 \in DOMAIN pipe[h] /\ 1 \in DOMAIN pipe[h] /\ i + 1 # 1
      BY <1>1, <1>3, <2>2
    <3>2. /\ P[h][i].call # a.call /\ stage[P[h][i].call][h] = n /\ P[h][i] \in Answer
          /\ P[h][i].status = res[P[h][i].call][h]
      BY <1>1, <1>3, <2>2, <3>1 DEF AnswersAt
    <3>3. S[P[h][i].call][h] = n
      BY <3>2, <1>2 DEF Moved, Answer
    <3>4. ASSUME NEW j \in DOMAIN P[h], P[h][i].call = P[h][j].call PROVE i = j
      <4>1. /\ j \in Nat /\ j + 1 \in DOMAIN pipe[h]
            /\ pipe[h][i + 1].call = pipe[h][j + 1].call
        BY <1>1, <1>3, <2>2, <3>4
      <4> QED
        BY <3>1, <4>1 DEF AnswersAt
    <3> QED
      BY <2>2, <3>2, <3>3, <3>4
  <2> QED
    BY <2>1, <2>2
<1> QED
  BY <1>3 DEF AnswersAt

LEMMA OtherAnswer ==
  ASSUME NEW pipe \in AnswerPipes, NEW stage \in StageFn, NEW S, NEW n, NEW k,
         NEW c \in Call, NEW h \in Host, NEW res \in ResultFn, NEW r,
         \A d \in Call, g \in Host : ~(d = c /\ g = h) => r[d][g] = res[d][g],
         Moved(stage, S, c, h, k), AnswersAt(pipe, stage, res, n), stage[c][h] # n
  PROVE  AnswersAt(pipe, S, r, n)
<1> USE DEF AnswerPipes
<1>1. ASSUME NEW g \in Host, NEW i \in DOMAIN pipe[g]
      PROVE  /\ S[pipe[g][i].call][g] = stage[pipe[g][i].call][g]
             /\ r[pipe[g][i].call][g] = res[pipe[g][i].call][g]
  <2>1. pipe[g][i].call \in Call /\ stage[pipe[g][i].call][g] = n
    BY AnswerAt DEF AnswersAt
  <2> QED
    BY <2>1 DEF Moved
<1> QED
  BY <1>1 DEF AnswersAt

-----------------------------------------------------------------------------
(* The inductive invariant: one lemma per action.                          *)

Holds(stage) == TypeOK /\ CountIsExact /\ PhaseInv /\ Tracked(stage)

LEMMA HoldsIsIInv == IInv <=> \E stage \in StageFn : Holds(stage)
BY DEF IInv, Holds, StageFn

LEMMA InitIInv == Init => IInv
<1> SUFFICES ASSUME Init PROVE IInv
  OBVIOUS
<1> DEFINE S == [c \in Call |-> [h \in Host |-> 0]]
<1>1. S \in StageFn
  BY DEF StageFn
<1>2. TypeOK
  <2>1. /\ pc \in [Call -> Phase] /\ targets \in [Call -> SUBSET Host]
        /\ unsent \in [Call -> SUBSET Host] /\ local \in [Call -> BOOLEAN]
        /\ local_succed \in [Call -> BOOLEAN]
    BY DEF Init, Phase
  <2>2. /\ ssh_messages \in SUBSET Call /\ ssh_messages_mutex \in Host \cup {None}
        /\ response_dicts \in ResultFn /\ result \in ResultFn
        /\ to_process \in [Call -> Nat] /\ finalize \in [Call -> BOOLEAN]
    BY DEF Init, ResultFn
  <2>3. /\ handler \in [Host -> {"read", "apply", "dead"}]
        /\ real_msg \in [Host -> Answer \cup {None}]
        /\ sender \in [Host -> BOOLEAN] /\ connected \in [Host -> BOOLEAN]
        /\ inline \in [Host -> Call \cup {None}] /\ running \in [Host -> SUBSET Call]
    BY DEF Init
  <2>4. /\ queue \in [Host -> Seq(Call)] /\ wire \in [Host -> Seq(Call)]
        /\ response_queue \in [Host -> Seq(Answer)] /\ back \in [Host -> Seq(Answer)]
    BY DEF Init
  <2> QED
    BY <2>1, <2>2, <2>3, <2>4 DEF TypeOK, ResultFn
<1>3. CountIsExact /\ PhaseInv
  BY DEF Init, CountIsExact, PhaseInv, Gathered
<1>4. Tracked(S)
  <2>1. SentInv(S) /\ ResultInv(S)
    BY DEF Init, SentInv, ResultInv
  <2>2. CallsAt(queue, S, 1) /\ CallsAt(wire, S, 2)
    BY DEF Init, CallsAt
  <2>3. AnswersAt(response_queue, S, result, 4) /\ AnswersAt(back, S, result, 5)
    BY DEF Init, AnswersAt
  <2>4. NodeInv(S) /\ HandlerInv(S)
    BY NoneAssumption DEF Init, NodeInv, HandlerInv
  <2> QED
    BY <2>1, <2>2, <2>3, <2>4 DEF Tracked
<1> QED
  BY <1>1, <1>2, <1>3, <1>4, HoldsIsIInv DEF Holds

\* The steps of a caller leave the messages where they are.
LEMMA NothingMoves ==
  ASSUME NEW stage \in StageFn, Tracked(stage),
         UNCHANGED <<queue, wire, inline, running, response_queue, back,
                     result, response_dicts, handler, real_msg>>,
         SentInv(stage)', HandlerInv(stage)'
  PROVE  Tracked(stage)'
BY DEF Tracked, ResultInv, NodeInv

LEMMA IssueHolds ==
  ASSUME NEW stage \in StageFn, Holds(stage), NEW c \in Call, Issue(c)
  PROVE  Holds(stage)'
<1> USE DEF Holds
<1>1. PICK T \in SUBSET Host, b \in BOOLEAN :
        /\ pc[c] = "idle"
        /\ targets' = [targets EXCEPT ![c] = T]
        /\ unsent' = [unsent EXCEPT ![c] = T]
        /\ local' = [local EXCEPT ![c] = b]
        /\ pc' = [pc EXCEPT ![c] = "put"]
        /\ UNCHANGED <<local_succed, queue, ctxVars, ssh_messages_mutex, connVars,
                       wire, nodeVars, back>>
  BY KnobAssumption DEF Issue, Goto
<1> USE DEF ctxVars, connVars, nodeVars
<1>2. TypeOK'
  BY <1>1 DEF TypeOK, Phase
<1>3. CountIsExact'
  <2>1. ASSUME NEW d \in ssh_messages PROVE Missing(d)' = Missing(d)
    BY <1>1, <2>1 DEF PhaseInv, TypeOK, Missing
  <2> QED
    BY <1>1, <2>1 DEF CountIsExact
<1>4. PhaseInv'
  BY <1>1 DEF PhaseInv, TypeOK, Missing, Gathered
<1>5. SentInv(stage)' /\ HandlerInv(stage)'
  BY <1>1 DEF Tracked, SentInv, HandlerInv, TypeOK, StageFn
<1> QED
  BY <1>1, <1>2, <1>3, <1>4, <1>5, NothingMoves

LEMMA PutOwnHolds ==
  ASSUME NEW stage \in StageFn, Holds(stage), NEW c \in Call, PutOwn(c)
  PROVE  Holds(stage)'
<1> USE DEF Holds
<1>1. /\ pc[c] = "put"
      /\ pc' = [pc EXCEPT ![c] = "raised"]
      /\ UNCHANGED <<targets, unsent, local, local_succed, queue, ctxVars,
                     ssh_messages_mutex, connVars, wire, nodeVars, back>>
  BY DEF PutOwn, Goto
<1> USE DEF ctxVars, connVars, nodeVars
<1>2. TypeOK'
  BY <1>1 DEF TypeOK, Phase
<1>3. CountIsExact'
  BY <1>1 DEF CountIsExact, Missing
<1>4. PhaseInv'
  BY <1>1 DEF PhaseInv, TypeOK, Missing, Gathered
<1>5. SentInv(stage)' /\ HandlerInv(stage)'
  BY <1>1 DEF Tracked, SentInv, HandlerInv, TypeOK
<1> QED
  BY <1>1, <1>2, <1>3, <1>4, <1>5, NothingMoves

LEMMA RegisterHolds ==
  ASSUME NEW stage \in StageFn, Holds(stage), NEW c \in Call, Register(c)
  PROVE  Holds(stage)'
<1> USE DEF Holds, Register, Goto, ctxVars, connVars, nodeVars
<1>0. targets[c] \subseteq Host /\ Cardinality(targets[c]) \in Nat
  BY HostAssumption, FS_Subset, FS_CardinalityType DEF TypeOK
<1>1. TypeOK'
  BY <1>0 DEF TypeOK, Phase
<1>2. CountIsExact'
  <2>1. Missing(c)' = targets[c]
    BY <1>0 DEF Missing, PhaseInv
  <2>2. targets[c] = {} => Cardinality(targets[c]) = 0
    BY FS_EmptySet
  <2>3. ASSUME NEW d \in ssh_messages', d # c
        PROVE  d \in ssh_messages /\ Missing(d)' = Missing(d)
               /\ to_process'[d] = to_process[d] /\ finalize'[d] = finalize[d]
    BY <2>3 DEF Missing, TypeOK
  <2>4. to_process'[c] = Cardinality(targets[c]) /\ (~finalize'[c] => targets[c] = {})
    BY DEF TypeOK
  <2>5. ASSUME NEW d \in ssh_messages'
        PROVE  /\ to_process'[d] = Cardinality(Missing(d)')
               /\ ~finalize'[d] => Missing(d)' = {}
    <3>1. CASE d = c
      BY <2>1, <2>4, <3>1
    <3>2. CASE d # c
      BY <2>3, <3>2 DEF CountIsExact
    <3> QED
      BY <3>1, <3>2
  <2> QED
    BY <2>5 DEF CountIsExact
<1>3. PhaseInv'
  BY DEF PhaseInv, TypeOK, Missing, Gathered
<1>4. SentInv(stage)' /\ HandlerInv(stage)'
  BY DEF Tracked, SentInv, HandlerInv, TypeOK
<1> QED
  BY <1>1, <1>2, <1>3, <1>4, NothingMoves

LEMMA RunLocallyHolds ==
  ASSUME NEW stage \in StageFn, Holds(stage), NEW c \in Call, RunLocally(c)
  PROVE  Holds(stage)'
<1> USE DEF Holds
<1>1. PICK q \in {"wait", "raised"}, b \in BOOLEAN :
        /\ pc[c] = "local"
        /\ pc' = [pc EXCEPT ![c] = q]
        /\ local_succed' = [local_succed EXCEPT ![c] = b]
        /\ UNCHANGED <<targets, unsent, local, queue, ctxVars, ssh_messages_mutex,
                       connVars, wire, nodeVars, back>>
  <2>1. local_succed = [local_succed EXCEPT ![c] = local_succed[c]]
        /\ local_succed[c] \in BOOLEAN
    BY DEF TypeOK
  <2> QED
    BY <2>1 DEF RunLocally, Goto
<1> USE DEF ctxVars, connVars, nodeVars
<1>2. TypeOK'
  BY <1>1 DEF TypeOK, Phase
<1>3. CountIsExact'
  BY <1>1 DEF CountIsExact, Missing
<1>4. PhaseInv'
  BY <1>1 DEF PhaseInv, TypeOK, Missing, Gathered
<1>5. SentInv(stage)' /\ HandlerInv(stage)'
  BY <1>1 DEF Tracked, SentInv, HandlerInv, TypeOK
<1> QED
  BY <1>1, <1>2, <1>3, <1>4, <1>5, NothingMoves

LEMMA WaitLookupHolds ==
  ASSUME NEW stage \in StageFn, Holds(stage), NEW c \in Call, WaitLookup(c)
  PROVE  Holds(stage)'
<1> USE DEF Holds, WaitLookup, Goto, ctxVars, connVars, nodeVars
<1>1. TypeOK'
  BY DEF TypeOK, Phase
<1>2. CountIsExact'
  BY DEF CountIsExact, Missing
<1>3. PhaseInv'
  BY DEF PhaseInv, TypeOK, Missing, Gathered
<1>4. SentInv(stage)' /\ HandlerInv(stage)'
  BY DEF Tracked, SentInv, HandlerInv, TypeOK
<1> QED
  BY <1>1, <1>2, <1>3, <1>4, NothingMoves

LEMMA WaitFinalizeHolds ==
  ASSUME NEW stage \in StageFn, Holds(stage), NEW c \in Call, WaitFinalize(c)
  PROVE  Holds(stage)'
<1> USE DEF Holds, WaitFinalize, Goto, connVars, nodeVars
<1>1. TypeOK'
  BY DEF TypeOK, Phase
<1>2. CountIsExact'
  <2>1. \A d \in Call : Missing(d)' = Missing(d) /\ (~finalize'[d] => ~finalize[d])
    BY DEF Missing, TypeOK
  <2> QED
    BY <2>1 DEF CountIsExact, TypeOK
<1>3. PhaseInv'
  <2>1. Missing(c) = {}
    BY DEF PhaseInv, CountIsExact
  <2> QED
    BY <2>1 DEF PhaseInv, TypeOK, Missing, Gathered
<1>4. SentInv(stage)' /\ HandlerInv(stage)'
  BY DEF Tracked, SentInv, HandlerInv, TypeOK
<1> QED
  BY <1>1, <1>2, <1>3, <1>4, NothingMoves

LEMMA WaitDeleteHolds ==
  ASSUME NEW stage \in StageFn, Holds(stage), NEW c \in Call, WaitDelete(c)
  PROVE  Holds(stage)'
<1> USE DEF Holds, WaitDelete, Goto, connVars, nodeVars
<1>1. TypeOK'
  BY DEF TypeOK, Phase
<1>2. CountIsExact'
  BY DEF CountIsExact, Missing
<1>3. PhaseInv'
  BY DEF PhaseInv, TypeOK, Missing, Gathered
<1>4. SentInv(stage)'
  BY DEF Tracked, SentInv, TypeOK
<1>5. HandlerInv(stage)'  \* an answer being filed is one that is missing
  <2>1. ASSUME NEW h \in Host, handler[h] = "apply" PROVE real_msg[h].call # c
    <3>1. Missing(c) = {}
      BY DEF PhaseInv, Gathered
    <3> QED
      BY <2>1, <3>1 DEF Tracked, HandlerInv, SentInv, ResultInv, Missing, StageFn
  <2> QED
    BY <2>1 DEF Tracked, HandlerInv
<1> QED
  BY <1>1, <1>2, <1>3, <1>4, <1>5, NothingMoves

LEMMA CheckResponseHolds ==
  ASSUME NEW stage \in StageFn, Holds(stage), NEW c \in Call, CheckResponse(c)
  PROVE  Holds(stage)'
<1> USE DEF Holds
<1>1. PICK q \in {"returned", "raised"} :
        /\ pc[c] = "check"
        /\ pc' = [pc EXCEPT ![c] = q]
        /\ UNCHANGED <<targets, unsent, local, local_succed, queue, ctxVars,
                       ssh_messages_mutex, connVars, wire, nodeVars, back>>
  BY DEF CheckResponse, Goto
<1> USE DEF ctxVars, connVars, nodeVars
<1>2. TypeOK'
  BY <1>1 DEF TypeOK, Phase
<1>3. CountIsExact'
  BY <1>1 DEF CountIsExact, Missing
<1>4. PhaseInv'
  BY <1>1 DEF PhaseInv, TypeOK, Missing, Gathered
<1>5. SentInv(stage)' /\ HandlerInv(stage)'
  BY <1>1 DEF Tracked, SentInv, HandlerInv, TypeOK
<1> QED
  BY <1>1, <1>2, <1>3, <1>4, <1>5, NothingMoves

LEMMA Assemble ==
  ASSUME NEW s \in StageFn, TypeOK', CountIsExact', PhaseInv',
         SentInv(s)', ResultInv(s)', NodeInv(s)', HandlerInv(s)',
         CallsAt(queue', s, 1), CallsAt(wire', s, 2),
         AnswersAt(response_queue', s, result', 4), AnswersAt(back', s, result', 5)
  PROVE  IInv'
<1>1. Tracked(s)'
  BY DEF Tracked, CallsAt, AnswersAt
<1>2. \E stage \in StageFn : Tracked(stage)'
  BY <1>1
<1> QED
  BY <1>2 DEF IInv, StageFn

\* The steps of the threads of a connection leave the calls as they are.
LEMMA CallsStay ==
  ASSUME CountIsExact, PhaseInv, UNCHANGED <<pc, targets, unsent, ctxVars>>
  PROVE  CountIsExact' /\ PhaseInv'
BY DEF CountIsExact, PhaseInv, Missing, Gathered, ctxVars

\* What of the stages an action can only disturb at the message it moves.
LEMMA PipeTypes ==
  ASSUME TypeOK
  PROVE  /\ queue \in CallPipes /\ wire \in CallPipes
         /\ response_queue \in AnswerPipes /\ back \in AnswerPipes
         /\ result \in ResultFn
BY DEF TypeOK, ResultFn, CallPipes, AnswerPipes

LEMMA PutHolds ==
  ASSUME NEW stage \in StageFn, Holds(stage), NEW c \in Call, NEW h \in Host, Put(c, h)
  PROVE  IInv'
<1> USE DEF Holds
<1>1. /\ pc[c] = "put" /\ h \in unsent[c]
      /\ Appended(queue, queue', h, c)
      /\ unsent' = [unsent EXCEPT ![c] = @ \ {h}]
      /\ UNCHANGED <<pc, targets, local, local_succed, ctxVars, ssh_messages_mutex,
                     connVars, wire, nodeVars, back>>
  BY DEF Put, Appended
<1> USE DEF ctxVars, connVars, nodeVars
<1>2. stage[c][h] = 0 /\ h \in targets[c]
  BY <1>1 DEF Tracked, SentInv
<1>0. PICK S : Moved(stage, S, c, h, 1)
  BY Move
<1>3. TypeOK'
  <2>1. queue' \in CallPipes
    BY <1>1, PipeTypes, AppendCallType, TailCallType
  <2> QED
    BY <1>1, <2>1 DEF TypeOK, CallPipes
<1>4. CountIsExact' /\ PhaseInv'
  <2>1. CountIsExact'
    BY <1>1 DEF CountIsExact, Missing
  <2>2. PhaseInv'
    BY <1>1 DEF TypeOK, PhaseInv, Missing, Gathered
  <2> QED
    BY <2>1, <2>2
<1>5. SentInv(S)'
  <2>1. unsent \in [Call -> SUBSET Host]
    BY DEF TypeOK
  <2>2. ASSUME NEW d \in Call, NEW g \in Host
        PROVE  /\ S[d][g] # 0 => g \in targets'[d] /\ pc'[d] # "idle"
               /\ g \in unsent'[d] => S[d][g] = 0 /\ g \in targets'[d]
    BY <1>0, <1>1, <1>2, <2>1 DEF Moved, Tracked, SentInv
  <2> QED
    BY <2>2 DEF SentInv
<1>6. ResultInv(S)' /\ NodeInv(S)'
  BY <1>0, <1>1, <1>2 DEF Moved, Tracked, ResultInv, NodeInv
<1>7. HandlerInv(S)'
  BY <1>0, <1>1, <1>2 DEF Moved, Tracked, HandlerInv, Answer
<1>8. CallsAt(queue', S, 1) /\ CallsAt(wire', S, 2)
  <2>1. CallsAt(queue, stage, 1) /\ CallsAt(wire, stage, 2)
    BY DEF Tracked
  <2> QED
    BY <2>1, <1>0, <1>1, <1>2, PipeTypes, SendCall, OtherCall
<1>9. AnswersAt(response_queue', S, result', 4) /\ AnswersAt(back', S, result', 5)
  <2>1. AnswersAt(response_queue, stage, result, 4) /\ AnswersAt(back, stage, result, 5)
    BY DEF Tracked
  <2> QED
    BY <2>1, <1>0, <1>1, <1>2, PipeTypes, OtherAnswer
<1> QED
  BY <1>0, <1>3, <1>4, <1>5, <1>6, <1>7, <1>8, <1>9, Assemble DEF Moved

LEMMA SenderSendHolds ==
  ASSUME NEW stage \in StageFn, Holds(stage), NEW h \in Host, SenderSend(h)
  PROVE  IInv'
<1> USE DEF Holds
<1>2. PICK c :
      /\ Received(queue, queue', h, c)
      /\ wire' = wire \/ Appended(wire, wire', h, c)
      /\ UNCHANGED <<callVars, ctxVars, ssh_messages_mutex, handler, real_msg,
                     connected, nodeVars, back>>
  BY DEF SenderSend, Received, Appended
<1> USE DEF callVars, ctxVars, nodeVars
<1>3. c \in Call /\ stage[c][h] = 1 /\ CallsAt(queue, stage, 1) /\ CallsAt(wire, stage, 2)
  <2>1. CallsAt(queue, stage, 1) /\ CallsAt(wire, stage, 2) /\ queue \in CallPipes
    BY PipeTypes DEF Tracked
  <2> QED
    BY <2>1, <1>2, HeadCall
<1>0. PICK S : Moved(stage, S, c, h, 2)
  BY <1>3, Move
<1>4. TypeOK'
  <2>1. sender' \in [Host -> BOOLEAN]
    BY DEF SenderSend, TypeOK
  <2>2. queue' \in CallPipes /\ wire' \in CallPipes
    BY <1>2, <1>3, PipeTypes, AppendCallType, TailCallType
  <2> QED
    BY <1>2, <2>1, <2>2 DEF TypeOK, CallPipes
<1>5. CountIsExact' /\ PhaseInv'
  BY <1>2, CallsStay
<1>6. SentInv(S)'
  BY <1>0, <1>2, <1>3 DEF Moved, Tracked, SentInv
<1>7. ResultInv(S)' /\ NodeInv(S)'
  BY <1>0, <1>2, <1>3 DEF Moved, Tracked, ResultInv, NodeInv
<1>8. HandlerInv(S)'
  BY <1>0, <1>2, <1>3 DEF Moved, Tracked, HandlerInv, Answer
<1>9. CallsAt(queue', S, 1)
  BY <1>0, <1>2, <1>3, PipeTypes, ReceiveCall
<1>10. CallsAt(wire', S, 2)
  BY <1>0, <1>2, <1>3, PipeTypes, SendCall, OtherCall
<1>11. AnswersAt(response_queue', S, result', 4) /\ AnswersAt(back', S, result', 5)
  <2>1. AnswersAt(response_queue, stage, result, 4) /\ AnswersAt(back, stage, result, 5)
    BY DEF Tracked
  <2> QED
    BY <2>1, <1>0, <1>2, <1>3, PipeTypes, OtherAnswer
<1> QED
  BY <1>0, <1>4, <1>5, <1>6, <1>7, <1>8, <1>9, <1>10, <1>11, Assemble DEF Moved

LEMMA NodeReadHolds ==
  ASSUME NEW stage \in StageFn, Holds(stage), NEW h \in Host, NodeRead(h)
  PROVE  IInv'
<1> USE DEF Holds
<1>1. PICK c :
      /\ Received(wire, wire', h, c)
      /\ \/ inline' = [inline EXCEPT ![h] = c] /\ running' = running
         \/ running' = [running EXCEPT ![h] = @ \cup {c}] /\ inline' = inline
  BY DEF NodeRead, Received
<1>2. /\ Received(wire, wire', h, c)
      /\ UNCHANGED <<callVars, queue, ctxVars, ssh_messages_mutex, connVars,
                     response_queue, result, back>>
  BY <1>1 DEF NodeRead
<1> USE DEF callVars, ctxVars, connVars
<1>3. c \in Call /\ stage[c][h] = 2 /\ CallsAt(queue, stage, 1) /\ CallsAt(wire, stage, 2)
  <2>1. CallsAt(queue, stage, 1) /\ CallsAt(wire, stage, 2) /\ wire \in CallPipes
    BY PipeTypes DEF Tracked
  <2> QED
    BY <2>1, <1>2, HeadCall
<1>0. PICK S : Moved(stage, S, c, h, 3)
  BY <1>3, Move
<1>4. TypeOK'
  <2>1. wire' \in CallPipes
    BY <1>2, PipeTypes, TailCallType
  <2>2. running' \in [Host -> SUBSET Call] /\ inline' \in [Host -> Call \cup {None}]
    <3>1. running \in [Host -> SUBSET Call] /\ inline \in [Host -> Call \cup {None}]
      BY DEF TypeOK
    <3>2. running[h] \cup {c} \in SUBSET Call
      BY <1>3, <3>1
    <3>3. CASE inline' = [inline EXCEPT ![h] = c] /\ running' = running
      BY <1>3, <3>1, <3>3
    <3>4. CASE running' = [running EXCEPT ![h] = @ \cup {c}] /\ inline' = inline
      BY <3>1, <3>2, <3>4
    <3> QED
      BY <1>1, <3>3, <3>4
  <2> QED
    BY <1>2, <2>1, <2>2 DEF TypeOK, CallPipes
<1>5. CountIsExact' /\ PhaseInv'
  BY <1>2, CallsStay
<1>6. SentInv(S)'
  BY <1>0, <1>2, <1>3 DEF Moved, Tracked, SentInv
<1>7. ResultInv(S)'
  BY <1>0, <1>2, <1>3 DEF Moved, Tracked, ResultInv
<1>8. NodeInv(S)'
  <2>1. ASSUME NEW d \in Call, NEW g \in Host, d \in running'[g] \/ inline'[g] = d
        PROVE  (d = c /\ g = h) \/ d \in running[g] \/ inline[g] = d
    BY <1>1, <2>1 DEF TypeOK
  <2> QED
    BY <1>0, <1>3, <2>1 DEF Moved, Tracked, NodeInv
<1>9. HandlerInv(S)'
  BY <1>0, <1>2, <1>3 DEF Moved, Tracked, HandlerInv, Answer
<1>10. CallsAt(queue', S, 1) /\ CallsAt(wire', S, 2)
  BY <1>0, <1>2, <1>3, PipeTypes, ReceiveCall, OtherCall
<1>11. AnswersAt(response_queue', S, result', 4) /\ AnswersAt(back', S, result', 5)
  <2>1. AnswersAt(response_queue, stage, result, 4) /\ AnswersAt(back, stage, result, 5)
    BY DEF Tracked
  <2> QED
    BY <2>1, <1>0, <1>2, <1>3, PipeTypes, OtherAnswer
<1> QED
  BY <1>0, <1>4, <1>5, <1>6, <1>7, <1>8, <1>9, <1>10, <1>11, Assemble DEF Moved

LEMMA TaskExecHolds ==
  ASSUME NEW stage \in StageFn, Holds(stage), NEW h \in Host, NEW c \in Call, TaskExec(h, c)
  PROVE  IInv'
<1> USE DEF Holds
<1>1. PICK s \in Status :
        /\ result' = [result EXCEPT ![c][h] = s]
        /\ Appended(response_queue, response_queue', h, [call |-> c, status |-> s])
  BY DEF TaskExec, Appended
<1>2. /\ c \in running[h] \/ inline[h] = c
      /\ running' = [running EXCEPT ![h] = @ \ {c}]
      /\ inline' = [inline EXCEPT ![h] = IF @ = c THEN None ELSE @]
      /\ UNCHANGED <<callVars, queue, ctxVars, ssh_messages_mutex, connVars, wire, back>>
  BY DEF TaskExec
<1> USE DEF callVars, ctxVars, connVars
<1>3. stage[c][h] = 3 /\ result[c][h] = None
  <2>1. stage[c][h] = 3
    BY <1>2 DEF Tracked, NodeInv
  <2> QED
    BY <2>1 DEF Tracked, ResultInv
<1>0. PICK S : Moved(stage, S, c, h, 4)
  BY Move
<1>4. PICK a \in Answer : a.call = c /\ a.status = s
                          /\ Appended(response_queue, response_queue', h, a)
  BY <1>1 DEF Answer
<1>5. /\ result' \in ResultFn /\ result'[c][h] = s /\ s # None
      /\ \A d \in Call, g \in Host : ~(d = c /\ g = h) => result'[d][g] = result[d][g]
  BY <1>1, PipeTypes, NoneAssumption, KnobAssumption DEF ResultFn
<1>6. TypeOK'
  <2>1. response_queue' \in AnswerPipes
    BY <1>4, PipeTypes, AppendAnswerType, TailAnswerType
  <2>2. running' \in [Host -> SUBSET Call] /\ inline' \in [Host -> Call \cup {None}]
    BY <1>2 DEF TypeOK
  <2> QED
    BY <1>2, <1>5, <2>1, <2>2 DEF TypeOK, AnswerPipes, ResultFn
<1>7. CountIsExact' /\ PhaseInv'
  BY <1>2, CallsStay
<1>8. SentInv(S)'
  BY <1>0, <1>2, <1>3 DEF Moved, Tracked, SentInv
<1>9. ResultInv(S)'
  <2>1. ASSUME NEW d \in Call, NEW g \in Host
        PROVE  /\ result'[d][g] # None <=> S[d][g] >= 4
               /\ response_dicts'[d][g] # None <=> S[d][g] = 7
               /\ S[d][g] = 7 => response_dicts'[d][g] = result'[d][g]
    BY <1>0, <1>2, <1>3, <1>5 DEF Moved, Tracked, ResultInv
  <2> QED
    BY <2>1 DEF ResultInv
<1>10. NodeInv(S)'
  <2>1. ASSUME NEW d \in Call, NEW g \in Host, d \in running'[g] \/ inline'[g] = d
        PROVE  ~(d = c /\ g = h) /\ (d \in running[g] \/ inline[g] = d)
    BY <1>2, <2>1, NoneAssumption DEF TypeOK
  <2> QED
    BY <1>0, <2>1 DEF Moved, Tracked, NodeInv
<1>11. HandlerInv(S)'
  <2>1. ASSUME NEW g \in Host, handler[g] = "apply"
        PROVE  /\ real_msg[g] \in Answer /\ real_msg[g].call \in Call
               /\ stage[real_msg[g].call][g] = 6
               /\ real_msg[g].status = result[real_msg[g].call][g]
               /\ real_msg[g].call \in ssh_messages
    BY <2>1 DEF Tracked, HandlerInv, Answer
  <2> QED
    BY <1>0, <1>2, <1>3, <1>5, <2>1 DEF Moved, HandlerInv
<1>12. CallsAt(queue', S, 1) /\ CallsAt(wire', S, 2)
  <2>1. CallsAt(queue, stage, 1) /\ CallsAt(wire, stage, 2)
    BY DEF Tracked
  <2> QED
    BY <2>1, <1>0, <1>2, <1>3, PipeTypes, OtherCall
<1>13. AnswersAt(response_queue', S, result', 4) /\ AnswersAt(back', S, result', 5)
  <2>1. AnswersAt(response_queue, stage, result, 4) /\ AnswersAt(back, stage, result, 5)
    BY DEF Tracked
  <2>2. AnswersAt(response_queue, stage, result', 4)
    <3>1. ASSUME NEW g \in Host, NEW i \in DOMAIN response_queue[g]
          PROVE  result'[response_queue[g][i].call][g] = result[response_queue[g][i].call][g]
      <4>1. /\ response_queue[g][i].call \in Call
            /\ stage[response_queue[g][i].call][g] = 4
        BY <2>1, PipeTypes, AnswerAt DEF AnswersAt, AnswerPipes
      <4> QED
        BY <4>1, <1>3, <1>5
    <3> QED
      BY <2>1, <3>1 DEF AnswersAt
  <2>3. AnswersAt(response_queue', S, result', 4)
    BY <2>2, <1>0, <1>3, <1>4, <1>5, PipeTypes, SendAnswer
  <2>4. AnswersAt(back', S, result', 5)
    BY <2>1, <1>0, <1>2, <1>3, <1>5, PipeTypes, OtherAnswer
  <2> QED
    BY <2>3, <2>4
<1> QED
  BY <1>0, <1>6, <1>7, <1>8, <1>9, <1>10, <1>11, <1>12, <1>13, Assemble DEF Moved

LEMMA AnswerHandlerHolds ==
  ASSUME NEW stage \in StageFn, Holds(stage), NEW h \in Host, AnswerHandler(h)
  PROVE  IInv'
<1> USE DEF Holds
<1>1. PICK a :
      /\ Received(response_queue, response_queue', h, a)
      /\ back' = back \/ Appended(back, back', h, a)
  <2>1. back = [back EXCEPT ![h] = back[h]]
    BY DEF TypeOK
  <2> QED
    BY <2>1 DEF AnswerHandler, Received, Appended
<1>2. UNCHANGED <<callVars, queue, ctxVars, ssh_messages_mutex, connVars, wire,
                  inline, running, result>>
  BY DEF AnswerHandler
<1> USE DEF callVars, ctxVars, connVars
<1>3. /\ AnswersAt(response_queue, stage, result, 4) /\ AnswersAt(back, stage, result, 5)
      /\ a \in Answer /\ stage[a.call][h] = 4 /\ a.status = result[a.call][h]
  <2>1. AnswersAt(response_queue, stage, result, 4) /\ AnswersAt(back, stage, result, 5)
    BY DEF Tracked
  <2> QED
    BY <2>1, <1>1, PipeTypes, HeadAnswer
<1>4. a.call \in Call
  BY <1>3 DEF Answer
<1>0. PICK S : Moved(stage, S, a.call, h, 5)
  BY <1>4, Move
<1>5. TypeOK'
  <2>1. response_queue' \in AnswerPipes
    BY <1>1, PipeTypes, TailAnswerType
  <2>2. back' \in AnswerPipes
    BY <1>1, <1>3, PipeTypes, AppendAnswerType
  <2> QED
    BY <1>2, <2>1, <2>2 DEF TypeOK, AnswerPipes
<1>6. CountIsExact' /\ PhaseInv'
  BY <1>2, CallsStay
<1>7. SentInv(S)'
  BY <1>0, <1>2, <1>3, <1>4 DEF Moved, Tracked, SentInv
<1>8. ResultInv(S)' /\ NodeInv(S)'
  BY <1>0, <1>2, <1>3, <1>4 DEF Moved, Tracked, ResultInv, NodeInv
<1>9. HandlerInv(S)'
  <2>1. ASSUME NEW g \in Host, handler[g] = "apply"
        PROVE  S[real_msg[g].call][g] = 6
    <3>1. real_msg[g].call \in Call /\ stage[real_msg[g].call][g] = 6
      BY <2>1 DEF Tracked, HandlerInv, Answer
    <3> QED
      BY <3>1, <1>0, <1>3 DEF Moved
  <2> QED
    BY <1>2, <2>1 DEF Tracked, HandlerInv
<1>10. CallsAt(queue', S, 1) /\ CallsAt(wire', S, 2)
  <2>1. CallsAt(queue, stage, 1) /\ CallsAt(wire, stage, 2)
    BY DEF Tracked
  <2> QED
    BY <2>1, <1>0, <1>2, <1>3, <1>4, PipeTypes, OtherCall
<1>11. AnswersAt(response_queue', S, result', 4)
  BY <1>0, <1>1, <1>2, <1>3, PipeTypes, ReceiveAnswer
<1>12. AnswersAt(back', S, result', 5)
  <2>1. CASE back' = back
    BY <2>1, <1>0, <1>2, <1>3, <1>4, PipeTypes, OtherAnswer
  <2>2. CASE Appended(back, back', h, a)
    BY <2>2, <1>0, <1>2, <1>3, PipeTypes, SendAnswer
  <2> QED
    BY <1>1, <2>1, <2>2
<1> QED
  BY <1>0, <1>5, <1>6, <1>7, <1>8, <1>9, <1>10, <1>11, <1>12, Assemble DEF Moved

LEMMA HandlerLookupHolds ==
  ASSUME NEW stage \in StageFn, Holds(stage), NEW h \in Host, HandlerLookup(h)
  PROVE  IInv'
<1> USE DEF Holds
<1>1. PICK a :
      /\ Received(back, back', h, a)
      /\ \/ /\ a.call \in ssh_messages
            /\ handler' = [handler EXCEPT ![h] = "apply"]
            /\ real_msg' = [real_msg EXCEPT ![h] = a]
            /\ ssh_messages_mutex' = ssh_messages_mutex
         \/ /\ handler' = [handler EXCEPT ![h] = "dead"]
            /\ ssh_messages_mutex' = h
            /\ real_msg' = real_msg
  BY DEF HandlerLookup, Received
<1>2. /\ Received(back, back', h, a)
      /\ UNCHANGED <<callVars, queue, ctxVars, sender, connected, wire, nodeVars>>
  BY <1>1 DEF HandlerLookup
<1> USE DEF callVars, ctxVars, nodeVars
<1>3. /\ AnswersAt(response_queue, stage, result, 4) /\ AnswersAt(back, stage, result, 5)
      /\ a \in Answer /\ stage[a.call][h] = 5 /\ a.status = result[a.call][h]
  <2>1. AnswersAt(response_queue, stage, result, 4) /\ AnswersAt(back, stage, result, 5)
    BY DEF Tracked
  <2> QED
    BY <2>1, <1>2, PipeTypes, HeadAnswer
<1>4. a.call \in Call
  BY <1>3 DEF Answer
<1>0. PICK S : Moved(stage, S, a.call, h, 6)
  BY <1>4, Move
<1>5. TypeOK'
  <2>1. back' \in AnswerPipes
    BY <1>2, PipeTypes, TailAnswerType
  <2>2. /\ handler' \in [Host -> {"read", "apply", "dead"}]
        /\ real_msg' \in [Host -> Answer \cup {None}]
        /\ ssh_messages_mutex' \in Host \cup {None}
    <3>1. /\ handler \in [Host -> {"read", "apply", "dead"}]
          /\ real_msg \in [Host -> Answer \cup {None}]
          /\ ssh_messages_mutex \in Host \cup {None}
      BY DEF TypeOK
    <3> QED
      BY <1>1, <1>3, <3>1
  <2> QED
    BY <1>2, <2>1, <2>2 DEF TypeOK, AnswerPipes
<1>6. CountIsExact' /\ PhaseInv'
  BY <1>2, CallsStay
<1>7. SentInv(S)'
  BY <1>0, <1>2, <1>3, <1>4 DEF Moved, Tracked, SentInv
<1>8. ResultInv(S)' /\ NodeInv(S)'
  BY <1>0, <1>2, <1>3, <1>4 DEF Moved, Tracked, ResultInv, NodeInv
<1>9. HandlerInv(S)'
  <2>1. ASSUME NEW g \in Host, handler'[g] = "apply"
        PROVE  /\ real_msg'[g] \in Answer
               /\ S[real_msg'[g].call][g] = 6
               /\ real_msg'[g].status = result[real_msg'[g].call][g]
               /\ real_msg'[g].call \in ssh_messages
    <3>1. CASE g = h
      <4>1. real_msg'[g] = a /\ a.call \in ssh_messages
        BY <1>1, <2>1, <3>1 DEF TypeOK
      <4> QED
        BY <4>1, <3>1, <1>0, <1>3 DEF Moved
    <3>2. CASE g # h
      <4>1. /\ real_msg'[g] = real_msg[g] /\ handler[g] = "apply"
        BY <1>1, <2>1, <3>2 DEF TypeOK
      <4>2. /\ real_msg[g] \in Answer /\ real_msg[g].call \in Call
            /\ stage[real_msg[g].call][g] = 6
            /\ real_msg[g].status = result[real_msg[g].call][g]
            /\ real_msg[g].call \in ssh_messages
        BY <4>1 DEF Tracked, HandlerInv, Answer
      <4> QED
        BY <4>1, <4>2, <3>2, <1>0 DEF Moved
    <3> QED
      BY <3>1, <3>2
  <2> QED
    BY <1>2, <2>1 DEF HandlerInv
<1>10. CallsAt(queue', S, 1) /\ CallsAt(wire', S, 2)
  <2>1. CallsAt(queue, stage, 1) /\ CallsAt(wire, stage, 2)
    BY DEF Tracked
  <2> QED
    BY <2>1, <1>0, <1>2, <1>3, <1>4, PipeTypes, OtherCall
<1>11. AnswersAt(response_queue', S, result', 4)
  BY <1>0, <1>2, <1>3, <1>4, PipeTypes, OtherAnswer
<1>12. AnswersAt(back', S, result', 5)
  BY <1>0, <1>2, <1>3, PipeTypes, ReceiveAnswer
<1> QED
  BY <1>0, <1>5, <1>6, <1>7, <1>8, <1>9, <1>10, <1>11, <1>12, Assemble DEF Moved

LEMMA HandlerApplyHolds ==
  ASSUME NEW stage \in StageFn, Holds(stage), NEW h \in Host, HandlerApply(h)
  PROVE  IInv'
<1> USE DEF Holds
<1>1. PICK c : c = real_msg[h].call
  OBVIOUS
<1>2. /\ response_dicts' = [response_dicts EXCEPT ![c][h] = real_msg[h].status]
      /\ to_process' = [to_process EXCEPT ![c] = @ - 1]
      /\ finalize' = [finalize EXCEPT ![c] = @ /\ to_process[c] # 1]
  BY <1>1 DEF HandlerApply, LastAnswer
<1>3. /\ handler[h] = "apply"
      /\ handler' = [handler EXCEPT ![h] = "read"]
      /\ real_msg' = [real_msg EXCEPT ![h] = None]
      /\ UNCHANGED <<callVars, queue, ssh_messages, ssh_messages_mutex, sender,
                     connected, wire, nodeVars, back>>
  BY DEF HandlerApply
<1> USE DEF callVars, nodeVars
<1>4. /\ c \in Call /\ c \in ssh_messages
      /\ stage[c][h] = 6
      /\ real_msg[h].status = result[c][h] /\ real_msg[h].status \in Status
      /\ result[c][h] # None
  <2>1. /\ real_msg[h] \in Answer /\ c \in ssh_messages /\ stage[c][h] = 6
        /\ real_msg[h].status = result[c][h]
    BY <1>1, <1>3 DEF Tracked, HandlerInv
  <2>2. c \in Call /\ real_msg[h].status \in Status
    BY <1>1, <2>1 DEF Answer
  <2> QED
    BY <2>1, <2>2 DEF Tracked, ResultInv
<1>5. h \in targets[c] /\ response_dicts[c][h] = None
  BY <1>4 DEF Tracked, SentInv, ResultInv
<1>0. PICK S : Moved(stage, S, c, h, 7)
  BY <1>4, Move
<1>6. /\ response_dicts' \in ResultFn
      /\ response_dicts'[c][h] = result[c][h]
      /\ \A d \in Call, g \in Host :
           ~(d = c /\ g = h) => response_dicts'[d][g] = response_dicts[d][g]
  BY <1>2, <1>4 DEF TypeOK, ResultFn
<1>7. /\ Missing(c)' = Missing(c) \ {h} /\ h \in Missing(c)
      /\ \A d \in Call : d # c => Missing(d)' = Missing(d)
  <2>1. targets \in [Call -> SUBSET Host]
    BY DEF TypeOK
  <2> QED
    BY <1>3, <1>4, <1>5, <1>6, <2>1 DEF Missing
<1>8. /\ IsFiniteSet(Missing(c))
      /\ Cardinality(Missing(c)) \in Nat
      /\ Cardinality(Missing(c)) >= 1
      /\ Cardinality(Missing(c) \ {h}) = Cardinality(Missing(c)) - 1
      /\ Cardinality(Missing(c)) = 1 => Missing(c) \ {h} = {}
  <2>1. Missing(c) \in SUBSET Host
    BY <1>4 DEF Missing, TypeOK
  <2>2. IsFiniteSet(Missing(c))
    BY <2>1, HostAssumption, FS_Subset
  <2>3. Cardinality(Missing(c)) \in Nat
    BY <2>2, FS_CardinalityType
  <2>4. Cardinality(Missing(c) \ {h}) = Cardinality(Missing(c)) - 1
    BY <1>7, <2>2, FS_RemoveElement
  <2>5. IsFiniteSet(Missing(c) \ {h}) /\ Cardinality(Missing(c) \ {h}) \in Nat
    BY <2>2, FS_Subset, FS_CardinalityType
  <2>6. Cardinality(Missing(c) \ {h}) = 0 => Missing(c) \ {h} = {}
    BY <2>5, FS_EmptySet
  <2> QED
    BY <2>2, <2>3, <2>4, <2>5, <2>6
<1>9. to_process[c] = Cardinality(Missing(c))
  BY <1>4 DEF CountIsExact
<1>10. TypeOK'
  <2>1. to_process \in [Call -> Nat] /\ finalize \in [Call -> BOOLEAN]
        /\ handler \in [Host -> {"read", "apply", "dead"}]
        /\ real_msg \in [Host -> Answer \cup {None}]
    BY DEF TypeOK
  <2>2. to_process' \in [Call -> Nat]
    BY <1>2, <1>4, <1>8, <1>9, <2>1
  <2>3. finalize' \in [Call -> BOOLEAN]
    BY <1>2, <2>1
  <2>4. handler' \in [Host -> {"read", "apply", "dead"}] /\ real_msg' \in [Host -> Answer \cup {None}]
    BY <1>3, <2>1
  <2> QED
    BY <1>3, <1>6, <2>2, <2>3, <2>4 DEF TypeOK, ResultFn
<1>11. CountIsExact'
  <2>1. ASSUME NEW d \in ssh_messages
        PROVE  /\ to_process'[d] = Cardinality(Missing(d)')
               /\ ~finalize'[d] => Missing(d)' = {}
    <3>1. CASE d = c
      <4>1. to_process'[c] = Cardinality(Missing(c)) - 1
        BY <1>2, <1>4, <1>9 DEF TypeOK
      <4>2. ~finalize'[c] => ~finalize[c] \/ to_process[c] = 1
        BY <1>2, <1>4 DEF TypeOK
      <4>3. ~finalize[c] => Missing(c) = {}
        BY <1>4 DEF CountIsExact
      <4> QED
        BY <3>1, <4>1, <4>2, <4>3, <1>7, <1>8, <1>9
    <3>2. CASE d # c
      <4>1. d \in Call /\ to_process'[d] = to_process[d] /\ finalize'[d] = finalize[d]
        BY <1>2, <3>2 DEF TypeOK
      <4> QED
        BY <4>1, <3>2, <1>7 DEF CountIsExact
    <3> QED
      BY <3>1, <3>2
  <2> QED
    BY <1>3, <2>1 DEF CountIsExact
<1>12. PhaseInv'
  <2>1. \A d \in Call : Missing(d) = {} => Missing(d)' = {}
    BY <1>7
  <2>2. pc[c] \notin {"idle", "put"}
    BY <1>4 DEF PhaseInv
  <2>3. ASSUME NEW d \in Call
        PROVE  /\ pc[d] \in {"idle", "put"} =>
                    /\ d \notin ssh_messages
                    /\ \A g \in Host : response_dicts'[d][g] = None
               /\ pc[d] = "idle" => unsent[d] = {} /\ targets[d] = {}
               /\ pc[d] \in {"local", "wait", "finalize", "delete"} => d \in ssh_messages
               /\ Gathered(d) => Missing(d)' = {}
    BY <1>6, <2>1, <2>2 DEF PhaseInv
  <2> QED
    BY <1>3, <2>3 DEF PhaseInv, Gathered
<1>13. SentInv(S)'
  BY <1>0, <1>3, <1>4, <1>5 DEF Moved, Tracked, SentInv, PhaseInv
<1>14. ResultInv(S)'
  <2>1. ASSUME NEW d \in Call, NEW g \in Host
        PROVE  /\ result'[d][g] # None <=> S[d][g] >= 4
               /\ response_dicts'[d][g] # None <=> S[d][g] = 7
               /\ S[d][g] = 7 => response_dicts'[d][g] = result'[d][g]
    BY <1>0, <1>3, <1>4, <1>6 DEF Moved, Tracked, ResultInv
  <2> QED
    BY <2>1 DEF ResultInv
<1>15. NodeInv(S)'
  BY <1>0, <1>3, <1>4 DEF Moved, Tracked, NodeInv
<1>16. HandlerInv(S)'
  <2>1. ASSUME NEW g \in Host, handler'[g] = "apply"
        PROVE  /\ real_msg'[g] \in Answer
               /\ S[real_msg'[g].call][g] = 6
               /\ real_msg'[g].status = result[real_msg'[g].call][g]
               /\ real_msg'[g].call \in ssh_messages
    <3>1. g # h /\ handler[g] = "apply" /\ real_msg'[g] = real_msg[g]
      BY <1>3, <2>1 DEF TypeOK
    <3>2. /\ real_msg[g] \in Answer /\ real_msg[g].call \in Call
          /\ stage[real_msg[g].call][g] = 6
          /\ real_msg[g].status = result[real_msg[g].call][g]
          /\ real_msg[g].call \in ssh_messages
      BY <3>1 DEF Tracked, HandlerInv, Answer
    <3> QED
      BY <3>1, <3>2, <1>0 DEF Moved
  <2> QED
    BY <1>3, <2>1 DEF HandlerInv
<1>17. CallsAt(queue', S, 1) /\ CallsAt(wire', S, 2)
  <2>1. CallsAt(queue, stage, 1) /\ CallsAt(wire, stage, 2)
    BY DEF Tracked
  <2> QED
    BY <2>1, <1>0, <1>3, <1>4, PipeTypes, OtherCall
<1>18. AnswersAt(response_queue', S, result', 4) /\ AnswersAt(back', S, result', 5)
  <2>1. AnswersAt(response_queue, stage, result, 4) /\ AnswersAt(back, stage, result, 5)
    BY DEF Tracked
  <2> QED
    BY <2>1, <1>0, <1>3, <1>4, PipeTypes, OtherAnswer
<1> QED
  BY <1>0, <1>10, <1>11, <1>12, <1>13, <1>14, <1>15, <1>16, <1>17, <1>18, Assemble DEF Moved

LEMMA HandlerEndHolds ==
  ASSUME NEW stage \in StageFn, Holds(stage), NEW h \in Host, HandlerEnd(h)
  PROVE  IInv'
<1> USE DEF Holds
<1>1. /\ handler' = [handler EXCEPT ![h] = "dead"]
      /\ UNCHANGED <<callVars, queue, ctxVars, ssh_messages_mutex, real_msg, sender,
                     connected, wire, nodeVars, back>>
  BY DEF HandlerEnd
<1> USE DEF callVars, ctxVars, nodeVars
<1>2. TypeOK'
  BY <1>1 DEF TypeOK
<1>3. CountIsExact' /\ PhaseInv'
  BY <1>1, CallsStay
<1>4. SentInv(stage)' /\ ResultInv(stage)' /\ NodeInv(stage)'
  BY <1>1 DEF Tracked, SentInv, ResultInv, NodeInv
<1>5. HandlerInv(stage)'
  BY <1>1 DEF Tracked, HandlerInv, TypeOK
<1>6. /\ CallsAt(queue', stage, 1) /\ CallsAt(wire', stage, 2)
      /\ AnswersAt(response_queue', stage, result', 4) /\ AnswersAt(back', stage, result', 5)
  BY <1>1 DEF Tracked
<1> QED
  BY <1>2, <1>3, <1>4, <1>5, <1>6, Assemble

LEMMA CutCalls ==
  ASSUME NEW pipe \in CallPipes, NEW stage, NEW n, NEW h \in Host,
         NEW m \in 0 .. Len(pipe[h]), CallsAt(pipe, stage, n)
  PROVE  /\ [pipe EXCEPT ![h] = SubSeq(@, 1, m)] \in CallPipes
         /\ CallsAt([pipe EXCEPT ![h] = SubSeq(@, 1, m)], stage, n)
<1> USE DEF CallPipes
<1> DEFINE P == [pipe EXCEPT ![h] = SubSeq(@, 1, m)]
<1>1. /\ SubSeq(pipe[h], 1, m) \in Seq(Call)
      /\ DOMAIN P[h] = 1 .. m /\ DOMAIN pipe[h] = 1 .. Len(pipe[h])
      /\ Len(pipe[h]) \in Nat /\ m \in Nat /\ m <= Len(pipe[h])
      /\ \A j \in 1 .. m : P[h][j] = pipe[h][j]
  OBVIOUS
<1>2. P \in [Host -> Seq(Call)]
  BY <1>1
<1>3. ASSUME NEW g \in Host, NEW i \in DOMAIN P[g]
      PROVE  /\ i \in DOMAIN pipe[g] /\ P[g][i] = pipe[g][i]
             /\ \A j \in DOMAIN P[g] : j \in DOMAIN pipe[g] /\ P[g][j] = pipe[g][j]
  BY <1>1, <1>3
<1> QED
  BY <1>2, <1>3 DEF CallsAt

LEMMA CutAnswers ==
  ASSUME NEW pipe \in AnswerPipes, NEW stage, NEW n, NEW h \in Host, NEW res,
         NEW m \in 0 .. Len(pipe[h]), AnswersAt(pipe, stage, res, n)
  PROVE  /\ [pipe EXCEPT ![h] = SubSeq(@, 1, m)] \in AnswerPipes
         /\ AnswersAt([pipe EXCEPT ![h] = SubSeq(@, 1, m)], stage, res, n)
<1> USE DEF AnswerPipes
<1> DEFINE P == [pipe EXCEPT ![h] = SubSeq(@, 1, m)]
<1>1. /\ SubSeq(pipe[h], 1, m) \in Seq(Answer)
      /\ DOMAIN P[h] = 1 .. m /\ DOMAIN pipe[h] = 1 .. Len(pipe[h])
      /\ Len(pipe[h]) \in Nat /\ m \in Nat /\ m <= Len(pipe[h])
      /\ \A j \in 1 .. m : P[h][j] = pipe[h][j]
  OBVIOUS
<1>2. P \in [Host -> Seq(Answer)]
  BY <1>1
<1>3. ASSUME NEW g \in Host, NEW i \in DOMAIN P[g]
      PROVE  /\ i \in DOMAIN pipe[g] /\ P[g][i] = pipe[g][i]
             /\ \A j \in DOMAIN P[g] : j \in DOMAIN pipe[g] /\ P[g][j] = pipe[g][j]
  BY <1>1, <1>3
<1> QED
  BY <1>2, <1>3 DEF AnswersAt

LEMMA DisconnectHolds ==
  ASSUME NEW stage \in StageFn, Holds(stage), NEW h \in Host, Disconnect(h)
  PROVE  IInv'
<1> USE DEF Holds
<1>1. /\ connected' = [connected EXCEPT ![h] = FALSE]
      /\ UNCHANGED <<callVars, queue, ctxVars, ssh_messages_mutex, handler,
                     real_msg, sender, nodeVars>>
  BY DEF Disconnect
<1>2. PICK m \in 0 .. Len(wire[h]) : wire' = [wire EXCEPT ![h] = SubSeq(@, 1, m)]
  BY DEF Disconnect
<1>3. PICK k \in 0 .. Len(back[h]) : back' = [back EXCEPT ![h] = SubSeq(@, 1, k)]
  BY DEF Disconnect
<1> USE DEF callVars, ctxVars, nodeVars
<1>4. /\ CallsAt(queue, stage, 1) /\ CallsAt(wire, stage, 2)
      /\ AnswersAt(response_queue, stage, result, 4) /\ AnswersAt(back, stage, result, 5)
  BY DEF Tracked
<1>5. wire' \in CallPipes /\ CallsAt(wire', stage, 2)
  BY <1>2, <1>4, PipeTypes, CutCalls
<1>6. back' \in AnswerPipes /\ AnswersAt(back', stage, result, 5)
  BY <1>3, <1>4, PipeTypes, CutAnswers
<1>7. TypeOK'
  BY <1>1, <1>5, <1>6 DEF TypeOK, CallPipes, AnswerPipes
<1>8. CountIsExact' /\ PhaseInv'
  BY <1>1, CallsStay
<1>9. SentInv(stage)' /\ ResultInv(stage)' /\ NodeInv(stage)' /\ HandlerInv(stage)'
  BY <1>1 DEF Tracked, SentInv, ResultInv, NodeInv, HandlerInv
<1>10. /\ CallsAt(queue', stage, 1) /\ CallsAt(wire', stage, 2)
       /\ AnswersAt(response_queue', stage, result', 4) /\ AnswersAt(back', stage, result', 5)
  BY <1>1, <1>4, <1>5, <1>6
<1> QED
  BY <1>7, <1>8, <1>9, <1>10, Assemble

LEMMA HoldsPrime ==
  ASSUME NEW stage \in StageFn, Holds(stage)'
  PROVE  IInv'
<1>1. Tracked(stage)'
  BY DEF Holds
<1>2. \E s \in StageFn : Tracked(s)'
  BY <1>1
<1> QED
  BY <1>2 DEF Holds, IInv, StageFn

LEMMA NextIInv == IInv /\ [Next]_vars => IInv'
<1> SUFFICES ASSUME IInv, [Next]_vars PROVE IInv'
  OBVIOUS
<1>0. PICK stage \in StageFn : Holds(stage)
  BY HoldsIsIInv
<1>1. ASSUME NEW c \in Call, Issue(c) PROVE IInv'
  BY <1>0, <1>1, IssueHolds, HoldsPrime
<1>2. ASSUME NEW c \in Call, Proceed(c) PROVE IInv'
  <2>1. ASSUME NEW h \in Host, Put(c, h) PROVE IInv'
    BY <1>0, <2>1, PutHolds
  <2>2. CASE Register(c)
    BY <1>0, <2>2, RegisterHolds, HoldsPrime
  <2>3. CASE RunLocally(c)
    BY <1>0, <2>3, RunLocallyHolds, HoldsPrime
  <2>4. CASE WaitLookup(c)
    BY <1>0, <2>4, WaitLookupHolds, HoldsPrime
  <2>5. CASE WaitFinalize(c)
    BY <1>0, <2>5, WaitFinalizeHolds, HoldsPrime
  <2>6. CASE WaitDelete(c)
    BY <1>0, <2>6, WaitDeleteHolds, HoldsPrime
  <2>7. CASE CheckResponse(c)
    BY <1>0, <2>7, CheckResponseHolds, HoldsPrime
  <2>8. CASE PutOwn(c)
    BY <1>0, <2>8, PutOwnHolds, HoldsPrime
  <2> QED
    BY <1>2, <2>1, <2>2, <2>3, <2>4, <2>5, <2>6, <2>7, <2>8 DEF Proceed
<1>3. ASSUME NEW h \in Host, SenderSend(h) \/ InputHandler(h) PROVE IInv'
  BY <1>0, <1>3, SenderSendHolds, HandlerLookupHolds, HandlerApplyHolds,
     HandlerEndHolds DEF InputHandler
<1>4. ASSUME NEW h \in Host, NodeRead(h) \/ Execute(h) \/ AnswerHandler(h) PROVE IInv'
  BY <1>0, <1>4, NodeReadHolds, TaskExecHolds, AnswerHandlerHolds DEF Execute
<1>5. ASSUME NEW h \in Host, Disconnect(h) PROVE IInv'
  BY <1>0, <1>5, DisconnectHolds
<1>6. CASE UNCHANGED vars
  <2> USE DEF vars, callVars, ctxVars, connVars, nodeVars
  <2>1. TypeOK'
    BY <1>0, <1>6 DEF Holds, TypeOK
  <2>2. CountIsExact' /\ PhaseInv'
    BY <1>0, <1>6, CallsStay DEF Holds
  <2>3. SentInv(stage)' /\ HandlerInv(stage)'
    BY <1>0, <1>6 DEF Holds, Tracked, SentInv, HandlerInv
  <2>4. Holds(stage)'
    BY <1>0, <1>6, <2>1, <2>2, <2>3, NothingMoves DEF Holds
  <2> QED
    BY <2>4, HoldsPrime
<1> QED
  BY <1>1, <1>2, <1>3, <1>4, <1>5, <1>6 DEF Next, Gone

-----------------------------------------------------------------------------
(* The theorems.                                                           *)

(***************************************************************************)
(* IInv holds in every state of every execution.                           *)
(***************************************************************************)
THEOREM Invariance == SafeSpec => []IInv
BY InitIInv, NextIInv, PTL DEF SafeSpec

(***************************************************************************)
(* Type correctness of the remote calls.                                   *)
(***************************************************************************)
THEOREM TypeCorrect == SafeSpec => []TypeOK
BY Invariance, PTL DEF IInv

(***************************************************************************)
(* to_process is the number of missing answers, and finalize is free only  *)
(* when none is missing.                                                   *)
(***************************************************************************)
THEOREM CountExact == SafeSpec => []CountIsExact
BY Invariance, PTL DEF IInv

LEMMA IInvIsComplete == IInv => GatheredIsComplete
<1> SUFFICES ASSUME IInv, NEW c \in Call, Gathered(c), NEW h \in targets[c]
             PROVE  result[c][h] # None /\ response_dicts[c][h] = result[c][h]
  BY DEF GatheredIsComplete
<1>1. PICK stage \in StageFn : Holds(stage)
  BY HoldsIsIInv
<1>2. h \in Host
  BY DEF IInv, TypeOK
<1>3. response_dicts[c][h] # None
  BY DEF IInv, PhaseInv, Missing
<1>4. stage[c][h] = 7 /\ response_dicts[c][h] = result[c][h]
  BY <1>1, <1>2, <1>3 DEF Holds, Tracked, ResultInv
<1> QED
  BY <1>3, <1>4

(***************************************************************************)
(* A caller that went past the wait has every target's own answer.         *)
(***************************************************************************)
THEOREM GatheredComplete == SafeSpec => []GatheredIsComplete
BY Invariance, IInvIsComplete, PTL

-----------------------------------------------------------------------------
(* What the steps do to the results, the answers and the verdicts.         *)

LEMMA ExecFirst ==
  ASSUME IInv, NEW h \in Host, NEW c \in Call, TaskExec(h, c)
  PROVE  /\ h \in targets[c]
         /\ result[c][h] = None
         /\ \E s \in {"ok", "error"} : result' = [result EXCEPT ![c][h] = s]
         /\ UNCHANGED <<pc, targets, response_dicts>>
<1>1. PICK stage \in StageFn : Holds(stage)
  BY HoldsIsIInv
<1>2. c \in running[h] \/ inline[h] = c
  BY DEF TaskExec
<1>3. stage[c][h] = 3
  BY <1>1, <1>2 DEF Holds, Tracked, NodeInv
<1>4. h \in targets[c] /\ result[c][h] = None
  BY <1>1, <1>3 DEF Holds, Tracked, SentInv, ResultInv
<1> QED
  BY <1>4, KnobAssumption DEF TaskExec, callVars, ctxVars

LEMMA ApplyFirst ==
  ASSUME IInv, NEW h \in Host, HandlerApply(h)
  PROVE  \E d \in Call, s \in Status :
           /\ response_dicts[d][h] = None
           /\ response_dicts' = [response_dicts EXCEPT ![d][h] = s]
<1>1. PICK stage \in StageFn : Holds(stage)
  BY HoldsIsIInv
<1>2. real_msg[h] \in Answer /\ stage[real_msg[h].call][h] = 6
  BY <1>1 DEF Holds, Tracked, HandlerInv, HandlerApply
<1>3. real_msg[h].call \in Call /\ real_msg[h].status \in Status
  BY <1>2 DEF Answer
<1>4. response_dicts[real_msg[h].call][h] = None
  BY <1>1, <1>2, <1>3 DEF Holds, Tracked, ResultInv
<1>5. response_dicts' = [response_dicts EXCEPT ![real_msg[h].call][h] = real_msg[h].status]
  BY DEF HandlerApply
<1> QED
  BY <1>3, <1>4, <1>5

\* Everything but HandlerApply leaves the answers, everything but TaskExec
\* leaves the results alone.
LEMMA Untouched ==
  ASSUME [Next]_vars
  PROVE  /\ \/ UNCHANGED response_dicts
            \/ \E h \in Host : HandlerApply(h)
         /\ \/ UNCHANGED result
            \/ \E h \in Host, c \in Call : TaskExec(h, c)
<1> USE DEF callVars, ctxVars, nodeVars, connVars
<1>1. ASSUME NEW c \in Call, Issue(c) \/ Proceed(c)
      PROVE  UNCHANGED <<response_dicts, result>>
  BY <1>1 DEF Issue, Proceed, Put, PutOwn, Register, RunLocally, WaitLookup,
              WaitFinalize, WaitDelete, CheckResponse
<1>2. ASSUME NEW h \in Host,
             \/ SenderSend(h) \/ HandlerLookup(h) \/ HandlerEnd(h)
             \/ NodeRead(h) \/ AnswerHandler(h) \/ Disconnect(h)
      PROVE  UNCHANGED <<response_dicts, result>>
  BY <1>2 DEF SenderSend, HandlerLookup, HandlerEnd, NodeRead, AnswerHandler,
              Disconnect
<1>3. ASSUME NEW h \in Host, HandlerApply(h) PROVE UNCHANGED result
  BY <1>3 DEF HandlerApply
<1>4. ASSUME NEW h \in Host, NEW c \in Call, TaskExec(h, c)
      PROVE  UNCHANGED response_dicts
  BY <1>4 DEF TaskExec
<1>5. CASE UNCHANGED vars
  BY <1>5 DEF vars
<1> QED
  BY <1>1, <1>2, <1>3, <1>4, <1>5 DEF Next, InputHandler, Execute, Gone

LEMMA StepOnce ==
  IInv /\ [Next]_vars =>
    [\A c \in Call, h \in Host :
       /\ result[c][h] # None => result'[c][h] = result[c][h]
       /\ response_dicts[c][h] # None => response_dicts'[c][h] = response_dicts[c][h]]_vars
<1> SUFFICES ASSUME IInv, [Next]_vars, NEW c \in Call, NEW h \in Host
             PROVE /\ result[c][h] # None => result'[c][h] = result[c][h]
                   /\ response_dicts[c][h] # None =>
                        response_dicts'[c][h] = response_dicts[c][h]
  OBVIOUS
<1>0. /\ response_dicts \in [Call -> [Host -> Status \cup {None}]]
      /\ result \in [Call -> [Host -> Status \cup {None}]]
  BY DEF IInv, TypeOK
<1>1. ASSUME NEW g \in Host, NEW d \in Call, TaskExec(g, d)
      PROVE  result[c][h] # None => result'[c][h] = result[c][h]
  <2>1. PICK s \in {"ok", "error"} :
          result[d][g] = None /\ result' = [result EXCEPT ![d][g] = s]
    BY <1>1, ExecFirst
  <2> QED
    BY <1>0, <2>1
<1>2. ASSUME NEW g \in Host, HandlerApply(g)
      PROVE  response_dicts[c][h] # None =>
               response_dicts'[c][h] = response_dicts[c][h]
  <2>1. PICK d \in Call, s \in Status :
          /\ response_dicts[d][g] = None
          /\ response_dicts' = [response_dicts EXCEPT ![d][g] = s]
    BY <1>2, ApplyFirst
  <2> QED
    BY <1>0, <2>1
<1> QED
  BY <1>1, <1>2, Untouched

(***************************************************************************)
(* A node runs a call at most once, and an answer once filed stays.        *)
(***************************************************************************)
THEOREM RunsOnce == SafeSpec => OncePerNode
BY Invariance, StepOnce, PTL DEF SafeSpec, OncePerNode

-----------------------------------------------------------------------------
(* Refinement: what each step is in ScatterGather.                         *)

Ongoing == Phase \ {"idle", "returned", "raised"}

LEMMA VerdictIs ==
  ASSUME NEW c \in Call
  PROVE  /\ pc[c] = "returned" => Verdict[c] = "ok"
         /\ pc[c] = "raised" => Verdict[c] = "error"
         /\ pc[c] \notin {"returned", "raised"} => Verdict[c] = None
BY DEF Verdict

\* A call that neither ends nor begins changes nothing for the abstraction.
LEMMA GoesOn ==
  ASSUME TypeOK, NEW c \in Call, NEW phase \in Ongoing, pc[c] \in Ongoing,
         Goto(c, phase), UNCHANGED <<targets, result>>
  PROVE  UNCHANGED Gather!vars
<1>1. pc' = [pc EXCEPT ![c] = phase] /\ pc \in [Call -> Phase]
  BY DEF Goto, TypeOK
<1>2. {d \in Call : pc[d] # "idle"}' = {d \in Call : pc[d] # "idle"}
  BY <1>1 DEF Ongoing
<1>3. ASSUME NEW d \in Call
      PROVE  (CASE pc'[d] = "returned" -> "ok" [] pc'[d] = "raised" -> "error" [] OTHER -> None)
             = (CASE pc[d] = "returned" -> "ok" [] pc[d] = "raised" -> "error" [] OTHER -> None)
  BY <1>1 DEF Ongoing
<1>4. Verdict' = Verdict
  BY <1>3 DEF Verdict
<1> QED
  BY <1>2, <1>4 DEF Gather!vars

LEMMA NothingChanges ==
  ASSUME UNCHANGED <<pc, targets, result>>
  PROVE  UNCHANGED Gather!vars
BY DEF Gather!vars, Verdict

\* The ways a call ends.
LEMMA Ends ==
  ASSUME TypeOK, NEW c \in Call, pc[c] \in Ongoing,
         NEW phase \in {"returned", "raised"}, Goto(c, phase),
         UNCHANGED <<targets, result>>,
         phase = "returned" => \A h \in targets[c] : result[c][h] = "ok"
  PROVE  Gather!EndWell(c) \/ Gather!EndBadly(c)
<1> DEFINE end == IF phase = "returned" THEN "ok" ELSE "error"
<1>1. pc' = [pc EXCEPT ![c] = phase] /\ pc \in [Call -> Phase]
  BY DEF Goto, TypeOK
<1>2. {d \in Call : pc[d] # "idle"}' = {d \in Call : pc[d] # "idle"}
      /\ c \in {d \in Call : pc[d] # "idle"}
  BY <1>1 DEF Ongoing
<1>3. Verdict[c] = None
  BY VerdictIs DEF Ongoing
<1>4. ASSUME NEW d \in Call
      PROVE  (CASE pc'[d] = "returned" -> "ok" [] pc'[d] = "raised" -> "error" [] OTHER -> None)
             = IF d = c THEN end
               ELSE (CASE pc[d] = "returned" -> "ok" [] pc[d] = "raised" -> "error" [] OTHER -> None)
  BY <1>1
<1>5. Verdict' = [d \in Call |-> IF d = c THEN end ELSE Verdict[d]]
  BY <1>4 DEF Verdict
<1>6. Verdict' = [Verdict EXCEPT ![c] = end]
  BY <1>5 DEF Verdict
<1> QED
  BY <1>2, <1>3, <1>6 DEF Gather!EndWell, Gather!EndBadly

LEMMA CallerRefines ==
  ASSUME IInv, NEW c \in Call, Proceed(c)
  PROVE  Gather!EndWell(c) \/ Gather!EndBadly(c) \/ UNCHANGED Gather!vars
<1> USE DEF callVars, ctxVars, connVars, nodeVars
<1>0. TypeOK
  BY DEF IInv
<1>1. ASSUME NEW h \in Host, Put(c, h) PROVE UNCHANGED Gather!vars
  BY <1>1, NothingChanges DEF Put
<1>2. CASE Register(c)
  BY <1>0, <1>2, GoesOn DEF Register, Ongoing, Phase
<1>3. CASE RunLocally(c)
  <2>1. pc[c] \in Ongoing /\ UNCHANGED <<targets, result>>
    BY <1>3 DEF RunLocally, Ongoing, Phase
  <2>2. Goto(c, "wait") \/ Goto(c, "raised")
    BY <1>3 DEF RunLocally
  <2>3. CASE Goto(c, "wait")
    BY <1>0, <2>1, <2>3, GoesOn DEF Ongoing, Phase
  <2>4. CASE Goto(c, "raised")
    BY <1>0, <2>1, <2>4, Ends
  <2> QED
    BY <2>2, <2>3, <2>4
<1>4. CASE WaitLookup(c)
  BY <1>0, <1>4, GoesOn DEF WaitLookup, Ongoing, Phase
<1>5. CASE WaitFinalize(c)
  BY <1>0, <1>5, GoesOn DEF WaitFinalize, Ongoing, Phase
<1>6. CASE WaitDelete(c)
  BY <1>0, <1>6, GoesOn DEF WaitDelete, Ongoing, Phase
<1>7. CASE CheckResponse(c)
  <2>1. /\ pc[c] = "check" /\ UNCHANGED <<targets, result>>
        /\ Goto(c, IF AllWell(c) THEN "returned" ELSE "raised")
    BY <1>7 DEF CheckResponse
  <2>2. AllWell(c) => \A h \in targets[c] : result[c][h] = "ok"
    BY <2>1, IInvIsComplete DEF GatheredIsComplete, Gathered, AllWell
  <2>3. pc[c] \in Ongoing
    BY <2>1 DEF Ongoing, Phase
  <2>4. CASE AllWell(c)
    BY <1>0, <2>1, <2>2, <2>3, <2>4, Ends
  <2>5. CASE ~AllWell(c)
    BY <1>0, <2>1, <2>3, <2>5, Ends
  <2> QED
    BY <2>4, <2>5
<1>8. CASE PutOwn(c)
  <2>1. pc[c] \in Ongoing /\ UNCHANGED <<targets, result>> /\ Goto(c, "raised")
    BY <1>8 DEF PutOwn, Ongoing, Phase
  <2> QED
    BY <1>0, <2>1, Ends
<1> QED
  BY <1>1, <1>2, <1>3, <1>4, <1>5, <1>6, <1>7, <1>8 DEF Proceed

LEMMA IssueRefines ==
  ASSUME IInv, NEW c \in Call, Issue(c)
  PROVE  Gather!Issue(c)
<1>1. PICK T \in SUBSET Host : targets' = [targets EXCEPT ![c] = T]
  BY DEF Issue
<1>2. pc[c] = "idle" /\ pc' = [pc EXCEPT ![c] = "put"] /\ UNCHANGED result
  BY DEF Issue, Goto, nodeVars
<1>3. pc \in [Call -> Phase]
  BY DEF IInv, TypeOK
<1>4. {d \in Call : pc[d] # "idle"}' = {d \in Call : pc[d] # "idle"} \cup {c}
      /\ c \notin {d \in Call : pc[d] # "idle"}
  BY <1>2, <1>3
<1>5. ASSUME NEW d \in Call
      PROVE  (CASE pc'[d] = "returned" -> "ok" [] pc'[d] = "raised" -> "error" [] OTHER -> None)
             = (CASE pc[d] = "returned" -> "ok" [] pc[d] = "raised" -> "error" [] OTHER -> None)
  BY <1>2, <1>3
<1>6. Verdict' = Verdict
  BY <1>5 DEF Verdict
<1> QED
  BY <1>1, <1>2, <1>4, <1>6 DEF Gather!Issue

LEMMA NodeRefines ==
  ASSUME IInv, NEW h \in Host, NEW c \in Call, TaskExec(h, c)
  PROVE  Gather!Run(c, h)
<1>1. /\ h \in targets[c] /\ result[c][h] = None
      /\ \E s \in {"ok", "error"} : result' = [result EXCEPT ![c][h] = s]
      /\ UNCHANGED <<pc, targets>>
  BY ExecFirst
<1>2. UNCHANGED <<{d \in Call : pc[d] # "idle"}, targets, Verdict>>
  BY <1>1 DEF Verdict
<1> QED
  BY <1>1, <1>2 DEF Gather!Run

LEMMA StepRefines == IInv /\ [Next]_vars => [Gather!Next]_Gather!vars
<1> SUFFICES ASSUME IInv, [Next]_vars PROVE Gather!Next \/ UNCHANGED Gather!vars
  OBVIOUS
<1> USE DEF callVars, ctxVars, connVars, nodeVars
<1>1. ASSUME NEW c \in Call, Issue(c) PROVE Gather!Next
  BY <1>1, IssueRefines DEF Gather!Next
<1>2. ASSUME NEW c \in Call, Proceed(c) PROVE Gather!Next \/ UNCHANGED Gather!vars
  BY <1>2, CallerRefines DEF Gather!Next
<1>3. ASSUME NEW h \in Host, Execute(h) PROVE Gather!Next
  BY <1>3, NodeRefines DEF Execute, Gather!Next
<1>4. ASSUME NEW h \in Host,
             \/ SenderSend(h) \/ InputHandler(h) \/ NodeRead(h)
             \/ AnswerHandler(h) \/ Disconnect(h)
      PROVE  UNCHANGED Gather!vars
  <2>1. UNCHANGED <<pc, targets, result>>
    BY <1>4 DEF SenderSend, InputHandler, HandlerLookup, HandlerApply,
                HandlerEnd, NodeRead, AnswerHandler, Disconnect
  <2> QED
    BY <2>1, NothingChanges
<1>5. CASE UNCHANGED vars
  BY <1>5, NothingChanges DEF vars
<1> QED
  BY <1>1, <1>2, <1>3, <1>4, <1>5 DEF Next, Gone

LEMMA InitRefines == Init => Gather!Init
<1> SUFFICES ASSUME Init PROVE Gather!Init
  OBVIOUS
<1>1. {c \in Call : pc[c] # "idle"} = {}
  BY DEF Init
<1>2. Verdict = [c \in Call |-> None]
  <2>1. ASSUME NEW d \in Call
        PROVE  (CASE pc[d] = "returned" -> "ok" [] pc[d] = "raised" -> "error" [] OTHER -> None)
               = None
    BY DEF Init
  <2> QED
    BY <2>1 DEF Verdict
<1> QED
  BY <1>1, <1>2 DEF Init, Gather!Init

(***************************************************************************)
(* Remote calls implement ScatterGather: a function runs at most once on a *)
(* target, and a call ends well only after it ended well on all of them.   *)
(***************************************************************************)
THEOREM Implements == SafeSpec => ImplementsGather
BY InitRefines, StepRefines, Invariance, PTL DEF SafeSpec, ImplementsGather, Gather!Spec

=============================================================================
