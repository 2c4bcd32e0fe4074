--------------------------- MODULE LifecycleProofs ---------------------------
(***************************************************************************)
(* Lifecycle for any number of HTTP handlers and requests.                 *)
(***************************************************************************)
EXTENDS Lifecycle, TLAPS

-----------------------------------------------------------------------------
(* Types.                                                                  *)

LEMMA TypesInit == Init => TypeOK
<1>. SUFFICES ASSUME Init PROVE TypeOK
  OBVIOUS
<1>1. at \in [Runners -> Places]
  BY DEF Init, Places
<1>2. /\ input \in [Runners -> {"none", "connecting", "streaming", "failed"}]
      /\ forwarder \in [Runners -> {"none", "running", "ended"}]
      /\ request \in [Handlers -> Requests \union {"none"}]
      /\ answer \in [Handlers -> {"none", "ok", "error"}]
  BY DEF Init
<1>. QED BY <1>1, <1>2 DEF Init, TypeOK

\* What the steps of main() and of the HTTP handlers leave behind has its type.
LEMMA TypesMain ==
  ASSUME TypeOK, Bind \/ MainReturns \/ CtrlC
  PROVE  TypeOK'
<1>1. CASE Bind
  BY <1>1 DEF Bind, Goes, TypeOK, Runners, Places, tasks, web
<1>2. CASE MainReturns
  BY <1>2 DEF MainReturns, TypeOK, tasks, web
<1>3. CASE CtrlC
  BY <1>3 DEF CtrlC, TypeOK, tasks, web
<1>. QED BY <1>1, <1>2, <1>3

LEMMA TypesHandler ==
  ASSUME TypeOK, NEW h \in Handlers,
         \/ \E q \in Requests : Receive(h, q)
         \/ HandlerStep(h) \/ ClientGone(h)
  PROVE  TypeOK'
<1>1. ASSUME NEW q \in Requests, Receive(h, q) PROVE TypeOK'
  <2>1. at' \in [Runners -> Places]
    BY <1>1 DEF Receive, Goes, TypeOK, Places
  <2>2. request' \in [Handlers -> Requests \union {"none"}]
    BY <1>1 DEF Receive, TypeOK
  <2>3. answer' \in [Handlers -> {"none", "ok", "error"}] /\ served' \in Nat
    BY <1>1 DEF Receive, TypeOK
  <2>. QED BY <1>1, <2>1, <2>2, <2>3 DEF Receive, TypeOK, tasks
<1>2. CASE Cancel(h)
  BY <1>2 DEF Cancel, Goes, TypeOK, Places, tasks, web
<1>3. CASE Store(h)
  BY <1>3 DEF Store, Goes, TypeOK, Places, tasks
<1>4. CASE Answer(h)
  BY <1>4 DEF Answer, Goes, TypeOK, Places, tasks
<1>5. CASE ClientGone(h)
  BY <1>5 DEF ClientGone, Goes, TypeOK, Places, tasks
<1>. QED BY <1>1, <1>2, <1>3, <1>4, <1>5 DEF HandlerStep

LEMMA TypesRun ==
  ASSUME TypeOK, NEW r \in Runners, RunStep(r)
  PROVE  TypeOK'
<1>1. CASE RunCheck(r)
  <2>1. answer' \in [Handlers -> {"none", "ok", "error"}]
    BY <1>1 DEF RunCheck, TypeOK
  <2>. QED BY <1>1, <2>1 DEF RunCheck, Goes, Back, TypeOK, Places, tasks
<1>2. CASE RunEnter(r)
  BY <1>2 DEF RunEnter, Goes, TypeOK, Places, tasks, web
<1>3. CASE LeaderStart(r)
  BY <1>3 DEF LeaderStart, Goes, TypeOK, Places, web
<1>4. CASE LeaderBegin(r)
  BY <1>4 DEF LeaderBegin, Goes, TypeOK, Places, tasks, web
<1>5. CASE PsyncWait(r)
  BY <1>5 DEF PsyncWait, Goes, TypeOK, Places, tasks, web
<1>6. CASE Spawn(r)
  BY <1>6 DEF Spawn, Goes, TypeOK, Places, web
<1>7. CASE SelectEnds(r)
  <2>1. answer' \in [Handlers -> {"none", "ok", "error"}]
    BY <1>7 DEF SelectEnds, TypeOK
  <2>. QED BY <1>7, <2>1 DEF SelectEnds, Goes, TypeOK, Places
<1>8. CASE RunEnd(r)
  BY <1>8 DEF RunEnd, Goes, Back, TypeOK, Places, tasks, web
<1>. QED BY <1>1, <1>2, <1>3, <1>4, <1>5, <1>6, <1>7, <1>8 DEF RunStep

LEMMA TypesTasks ==
  ASSUME TypeOK, NEW r \in Runners,
         InputStreams(r) \/ InputFails(r) \/ ForwarderCancelled(r)
  PROVE  TypeOK'
  BY DEF InputStreams, InputFails, ForwarderCancelled, TypeOK, web

LEMMA TypesNext == TypeOK /\ [Next]_vars => TypeOK'
<1>1. ASSUME TypeOK, UNCHANGED vars PROVE TypeOK'
  BY <1>1 DEF vars, TypeOK
<1>2. ASSUME TypeOK, Next PROVE TypeOK'
  BY <1>2, TypesMain, TypesHandler, TypesRun, TypesTasks DEF Next
<1>. QED BY <1>1, <1>2

\* Every variable keeps its type.
THEOREM LifecycleTypeCorrect == Spec => []TypeOK
  BY TypesInit, TypesNext, PTL DEF Spec

-----------------------------------------------------------------------------
(* The CheckpointManager changes hands once.                               *)

\* While it is in its Option, nobody has it.
SaverInv == OneSaver /\ (cm => saver = {})

LEMMA SaverInit == Init => SaverInv
  BY DEF Init, SaverInv, OneSaver

LEMMA SaverNext == SaverInv /\ [Next]_vars => SaverInv'
<1>. SUFFICES ASSUME SaverInv, [Next]_vars PROVE SaverInv'
  OBVIOUS
<1>1. ASSUME NEW r \in Runners, Spawn(r) PROVE SaverInv'
  <2>1. CASE cm
    <3>1. saver' = {r} /\ cm' = FALSE
      BY <1>1, <2>1 DEF Spawn, SaverInv
    <3>. QED BY <3>1 DEF SaverInv, OneSaver
  <2>2. CASE ~cm
    BY <1>1, <2>2 DEF Spawn, SaverInv, OneSaver
  <2>. QED BY <2>1, <2>2
<1>2. CASE UNCHANGED <<cm, saver>>
  BY <1>2 DEF SaverInv, OneSaver
<1>3. ASSUME Bind \/ MainReturns \/ CtrlC PROVE UNCHANGED <<cm, saver>>
  BY <1>3 DEF Bind, MainReturns, CtrlC, tasks
<1>4. ASSUME NEW h \in Handlers,
             (\E q \in Requests : Receive(h, q)) \/ HandlerStep(h) \/ ClientGone(h)
      PROVE  UNCHANGED <<cm, saver>>
  BY <1>4 DEF Receive, HandlerStep, Cancel, Store, Answer, ClientGone, tasks
<1>5. ASSUME NEW r \in Runners,
             \/ RunCheck(r) \/ RunEnter(r) \/ LeaderStart(r) \/ LeaderBegin(r) \/ PsyncWait(r)
             \/ SelectEnds(r) \/ RunEnd(r)
             \/ InputStreams(r) \/ InputFails(r) \/ ForwarderCancelled(r)
      PROVE  UNCHANGED <<cm, saver>>
  BY <1>5 DEF RunCheck, RunEnter, LeaderStart, LeaderBegin, PsyncWait, SelectEnds, RunEnd,
              InputStreams, InputFails, ForwarderCancelled, tasks
<1>6. CASE UNCHANGED vars
  BY <1>2, <1>6 DEF vars
<1>7. CASE Next
  BY <1>1, <1>2, <1>3, <1>4, <1>5, <1>7 DEF Next, RunStep
<1>. QED BY <1>6, <1>7

\* However many leaders run at the same time, at most one forwarder saves checkpoints.
THEOREM AtMostOneSaver == Spec => []OneSaver
<1>1. SaverInv => OneSaver
  BY DEF SaverInv
<1>. QED BY <1>1, SaverInit, SaverNext, PTL DEF Spec
=============================================================================
