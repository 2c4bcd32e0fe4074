--------------------------- MODULE ElectionProofs ---------------------------
(* Proofs about Election for any set of nodes and any Ttl.                   *)
EXTENDS Election, TLAPS

(* What a call is about, and that who resigns has no lease. *)
Shape ==
    \A n \in Nodes :
        /\ call[n].cmd = "SET" => call[n].op = "campaign"
        /\ call[n].cmd = "EXPIRE" => call[n].op = "renew"
        /\ call[n].cmd = "DEL" => call[n].op = "resign"
        /\ call[n].op \in {"none", "hung"} => call[n].cmd = "none"
        /\ call[n].op = "resign" => lease[n] = 0

Holds(n, t) == t > 0 => key.holder = n /\ key.ttl >= t

(* Redis has given or prolonged the key, and the answer is on its way. *)
Won(n) == call[n].cmd = "SET" /\ call[n].got = n

Prolonged(n) == call[n].cmd = "EXPIRE" /\ call[n].got # Pending

Leases ==
    ~ misfired => \A n \in Nodes :
        /\ Holds(n, lease[n])
        /\ Won(n) \/ Prolonged(n) => Holds(n, since[n])

Removed ==
    \A n \in Nodes :
        /\ call[n].op = "hung" => ~ isLeader[n] /\ key.holder # n
        /\ call[n].cmd = "DEL" /\ call[n].got # Pending => key.holder # n

Inv == TypeOK /\ Shape /\ Leases /\ Removed

-----------------------------------------------------------------------------
LEMMA InitInv == Init => Inv
  <1> SUFFICES ASSUME Init PROVE Inv OBVIOUS
  <1>1. Ttl \in Nat /\ Ttl > 0 BY TtlAssumption
  <1>2. NoCall \in Calls BY DEF NoCall, Calls
  <1>3. TypeOK
    <2>1. key \in [holder : Nodes, ttl : 1 .. Ttl] \cup {Free} BY DEF Init
    <2>2. /\ registered \in Nodes \cup {NoNode}
          /\ leaderValue \in [Nodes -> BOOLEAN] /\ isLeader \in [Nodes -> BOOLEAN]
          /\ renewing \in [Nodes -> BOOLEAN] /\ misfired \in BOOLEAN
      BY DEF Init
    <2>3. call \in [Nodes -> Calls] BY <1>2 DEF Init
    <2>4. since \in [Nodes -> 0 .. Ttl] /\ lease \in [Nodes -> 0 .. Ttl] BY <1>1 DEF Init
    <2> QED BY <2>1, <2>2, <2>3, <2>4 DEF TypeOK
  <1>4. ASSUME NEW n \in Nodes
        PROVE  /\ call[n].op = "none" /\ call[n].cmd = "none"
               /\ lease[n] = 0 /\ since[n] = 0
    BY DEF Init, NoCall
  <1>5. Shape BY <1>4 DEF Shape
  <1>6. Leases
    <2> SUFFICES ASSUME NEW n \in Nodes PROVE Holds(n, lease[n]) /\ Holds(n, since[n])
      BY DEF Leases
    <2> QED BY <1>4 DEF Holds
  <1>7. Removed BY <1>4 DEF Removed
  <1> QED BY <1>3, <1>5, <1>6, <1>7 DEF Inv

LEMMA TypeOKNext == TypeOK /\ Next => TypeOK'
  <1> SUFFICES ASSUME TypeOK, Next PROVE TypeOK' OBVIOUS
  <1>0. Ttl \in Nat /\ Ttl > 0 /\ NoNode \notin Nodes /\ Pending \notin Nodes /\ Pending # NoNode
    BY TtlAssumption, NodesAssumption
  <1>1. CASE Tick BY <1>0, <1>1 DEF Tick, TypeOK, Free, Left, object
  <1>2. ASSUME NEW n \in Nodes,
               Server(n) \/ Answer(n) \/ Caller(n) \/ RenewTask(n) \/ Dropped(n) \/ Crash(n)
        PROVE  TypeOK'
    <2>1. ASSUME SetNx(n) PROVE TypeOK' BY <1>0, <2>1 DEF SetNx, TypeOK, Calls, NoCall, Free, Granted, Sent, Replies, Sends, Returns, Answered, object, clocks
    <2>2. ASSUME Get(n) PROVE TypeOK' BY <1>0, <2>2 DEF Get, TypeOK, Calls, NoCall, Free, Granted, Sent, Replies, Sends, Returns, Answered, object, clocks
    <2>3. ASSUME Expire(n) PROVE TypeOK' BY <1>0, <2>3 DEF Expire, TypeOK, Calls, NoCall, Free, Granted, Sent, Replies, Sends, Returns, Answered, object, clocks
    <2>4. ASSUME Del(n) PROVE TypeOK' BY <1>0, <2>4 DEF Del, TypeOK, Calls, NoCall, Free, Granted, Sent, Replies, Sends, Returns, Answered, object, clocks
    <2>5. ASSUME Campaign(n) PROVE TypeOK' BY <1>0, <2>5 DEF Campaign, TypeOK, Calls, NoCall, Free, Granted, Sent, Replies, Sends, Returns, Answered, object, clocks
    <2>6. ASSUME CampaignWon(n) PROVE TypeOK' BY <1>0, <2>6 DEF CampaignWon, TypeOK, Calls, NoCall, Free, Granted, Sent, Replies, Sends, Returns, Answered, object, clocks
    <2>7. ASSUME CampaignLost(n) PROVE TypeOK' BY <1>0, <2>7 DEF CampaignLost, TypeOK, Calls, NoCall, Free, Granted, Sent, Replies, Sends, Returns, Answered, object, clocks
    <2>8. ASSUME RenewTask(n) PROVE TypeOK' BY <1>0, <2>8 DEF RenewTask, TypeOK, Calls, NoCall, Free, Granted, Sent, Replies, Sends, Returns, Answered, object, clocks
    <2>9. ASSUME Renew(n) PROVE TypeOK' BY <1>0, <2>9 DEF Renew, TypeOK, Calls, NoCall, Free, Granted, Sent, Replies, Sends, Returns, Answered, object, clocks
    <2>10. ASSUME RenewOwn(n) PROVE TypeOK' BY <1>0, <2>10 DEF RenewOwn, TypeOK, Calls, NoCall, Free, Granted, Sent, Replies, Sends, Returns, Answered, object, clocks
    <2>11. ASSUME RenewLost(n) PROVE TypeOK' BY <1>0, <2>11 DEF RenewLost, TypeOK, Calls, NoCall, Free, Granted, Sent, Replies, Sends, Returns, Answered, object, clocks
    <2>12. ASSUME Renewed(n) PROVE TypeOK' BY <1>0, <2>12 DEF Renewed, TypeOK, Calls, NoCall, Free, Granted, Sent, Replies, Sends, Returns, Answered, object, clocks
    <2>13. ASSUME Resign(n) PROVE TypeOK' BY <1>0, <2>13 DEF Resign, TypeOK, Calls, NoCall, Free, Granted, Sent, Replies, Sends, Returns, Answered, object, clocks
    <2>14. ASSUME ResignOwn(n) PROVE TypeOK' BY <1>0, <2>14 DEF ResignOwn, TypeOK, Calls, NoCall, Free, Granted, Sent, Replies, Sends, Returns, Answered, object, clocks
    <2>15. ASSUME ResignFails(n) PROVE TypeOK' BY <1>0, <2>15 DEF ResignFails, TypeOK, Calls, NoCall, Free, Granted, Sent, Replies, Sends, Returns, Answered, object, clocks
    <2>16. ASSUME Resigned(n) PROVE TypeOK' BY <1>0, <2>16 DEF Resigned, TypeOK, Calls, NoCall, Free, Granted, Sent, Replies, Sends, Returns, Answered, object, clocks
    <2>17. ASSUME Dropped(n) PROVE TypeOK' BY <1>0, <2>17 DEF Dropped, TypeOK, Calls, NoCall, Free, Granted, Sent, Replies, Sends, Returns, Answered, object, clocks
    <2>18. ASSUME Crash(n) PROVE TypeOK' BY <1>0, <2>18 DEF Crash, TypeOK, Calls, NoCall, Free, Granted, Sent, Replies, Sends, Returns, Answered, object, clocks
    <2>19. ASSUME Register(n) PROVE TypeOK' BY <1>0, <2>19 DEF Register, TypeOK, Calls, NoCall, Free, Granted, Sent, Replies, Sends, Returns, Answered, object, clocks
    <2> QED BY <1>2, <2>1, <2>2, <2>3, <2>4, <2>5, <2>6, <2>7, <2>8, <2>9, <2>10, <2>11, <2>12, <2>13, <2>14, <2>15, <2>16, <2>17, <2>18, <2>19 DEF Server, Answer, Caller
  <1> QED BY <1>1, <1>2 DEF Next

LEMMA ShapeNext == Inv /\ Next => Shape'
  <1> SUFFICES ASSUME Inv, Next PROVE Shape' OBVIOUS
  <1>0. Ttl \in Nat /\ Ttl > 0 /\ NoNode \notin Nodes /\ Pending \notin Nodes /\ Pending # NoNode
    BY TtlAssumption, NodesAssumption
  <1>1. CASE Tick BY <1>0, <1>1 DEF Tick, Inv, TypeOK, Shape, Left, object
  <1>2. ASSUME NEW n \in Nodes,
               Server(n) \/ Answer(n) \/ Caller(n) \/ RenewTask(n) \/ Dropped(n) \/ Crash(n)
        PROVE  Shape'
    <2>1. ASSUME SetNx(n) PROVE Shape' BY <1>0, <2>1 DEF SetNx, Inv, TypeOK, Shape, Calls, NoCall, Sent, Replies, Sends, Returns, Answered, object, clocks
    <2>2. ASSUME Get(n) PROVE Shape' BY <1>0, <2>2 DEF Get, Inv, TypeOK, Shape, Calls, NoCall, Sent, Replies, Sends, Returns, Answered, object, clocks
    <2>3. ASSUME Expire(n) PROVE Shape' BY <1>0, <2>3 DEF Expire, Inv, TypeOK, Shape, Calls, NoCall, Sent, Replies, Sends, Returns, Answered, object, clocks
    <2>4. ASSUME Del(n) PROVE Shape' BY <1>0, <2>4 DEF Del, Inv, TypeOK, Shape, Calls, NoCall, Sent, Replies, Sends, Returns, Answered, object, clocks
    <2>5. ASSUME Campaign(n) PROVE Shape' BY <1>0, <2>5 DEF Campaign, Inv, TypeOK, Shape, Calls, NoCall, Sent, Replies, Sends, Returns, Answered, object, clocks
    <2>6. ASSUME CampaignWon(n) PROVE Shape' BY <1>0, <2>6 DEF CampaignWon, Inv, TypeOK, Shape, Calls, NoCall, Sent, Replies, Sends, Returns, Answered, object, clocks
    <2>7. ASSUME CampaignLost(n) PROVE Shape' BY <1>0, <2>7 DEF CampaignLost, Inv, TypeOK, Shape, Calls, NoCall, Sent, Replies, Sends, Returns, Answered, object, clocks
    <2>8. ASSUME RenewTask(n) PROVE Shape' BY <1>0, <2>8 DEF RenewTask, Inv, TypeOK, Shape, Calls, NoCall, Sent, Replies, Sends, Returns, Answered, object, clocks
    <2>9. ASSUME Renew(n) PROVE Shape' BY <1>0, <2>9 DEF Renew, Inv, TypeOK, Shape, Calls, NoCall, Sent, Replies, Sends, Returns, Answered, object, clocks
    <2>10. ASSUME RenewOwn(n) PROVE Shape' BY <1>0, <2>10 DEF RenewOwn, Inv, TypeOK, Shape, Calls, NoCall, Sent, Replies, Sends, Returns, Answered, object, clocks
    <2>11. ASSUME RenewLost(n) PROVE Shape' BY <1>0, <2>11 DEF RenewLost, Inv, TypeOK, Shape, Calls, NoCall, Sent, Replies, Sends, Returns, Answered, object, clocks
    <2>12. ASSUME Renewed(n) PROVE Shape' BY <1>0, <2>12 DEF Renewed, Inv, TypeOK, Shape, Calls, NoCall, Sent, Replies, Sends, Returns, Answered, object, clocks
    <2>13. ASSUME Resign(n) PROVE Shape' BY <1>0, <2>13 DEF Resign, Inv, TypeOK, Shape, Calls, NoCall, Sent, Replies, Sends, Returns, Answered, object, clocks
    <2>14. ASSUME ResignOwn(n) PROVE Shape' BY <1>0, <2>14 DEF ResignOwn, Inv, TypeOK, Shape, Calls, NoCall, Sent, Replies, Sends, Returns, Answered, object, clocks
    <2>15. ASSUME ResignFails(n) PROVE Shape' BY <1>0, <2>15 DEF ResignFails, Inv, TypeOK, Shape, Calls, NoCall, Sent, Replies, Sends, Returns, Answered, object, clocks
    <2>16. ASSUME Resigned(n) PROVE Shape' BY <1>0, <2>16 DEF Resigned, Inv, TypeOK, Shape, Calls, NoCall, Sent, Replies, Sends, Returns, Answered, object, clocks
    <2>17. ASSUME Dropped(n) PROVE Shape' BY <1>0, <2>17 DEF Dropped, Inv, TypeOK, Shape, Calls, NoCall, Sent, Replies, Sends, Returns, Answered, object, clocks
    <2>18. ASSUME Crash(n) PROVE Shape' BY <1>0, <2>18 DEF Crash, Inv, TypeOK, Shape, Calls, NoCall, Sent, Replies, Sends, Returns, Answered, object, clocks
    <2>19. ASSUME Register(n) PROVE Shape' BY <1>0, <2>19 DEF Register, Inv, TypeOK, Shape, Calls, NoCall, Sent, Replies, Sends, Returns, Answered, object, clocks
    <2> QED BY <1>2, <2>1, <2>2, <2>3, <2>4, <2>5, <2>6, <2>7, <2>8, <2>9, <2>10, <2>11, <2>12, <2>13, <2>14, <2>15, <2>16, <2>17, <2>18, <2>19 DEF Server, Answer, Caller
  <1> QED BY <1>1, <1>2 DEF Next

LEMMA LeasesNext == Inv /\ Next => Leases'
  <1> SUFFICES ASSUME Inv, Next PROVE Leases' OBVIOUS
  <1>0. Ttl \in Nat /\ Ttl > 0 /\ NoNode \notin Nodes /\ Pending \notin Nodes /\ Pending # NoNode
    BY TtlAssumption, NodesAssumption
  <1>1. CASE Tick BY <1>0, <1>1 DEF Tick, Inv, TypeOK, Leases, Holds, Won, Prolonged, Left, Free, object
  <1>2. ASSUME NEW n \in Nodes,
               Server(n) \/ Answer(n) \/ Caller(n) \/ RenewTask(n) \/ Dropped(n) \/ Crash(n)
        PROVE  Leases'
    <2>1. ASSUME SetNx(n) PROVE Leases' BY <1>0, <2>1 DEF SetNx, Inv, TypeOK, Shape, Leases, Holds, Won, Prolonged, Calls, NoCall, Free, Granted, Sent, Replies, Sends, Returns, Answered, object, clocks
    <2>2. ASSUME Get(n) PROVE Leases' BY <1>0, <2>2 DEF Get, Inv, TypeOK, Shape, Leases, Holds, Won, Prolonged, Calls, NoCall, Free, Granted, Sent, Replies, Sends, Returns, Answered, object, clocks
    <2>3. ASSUME Expire(n) PROVE Leases'
      <3> SUFFICES ASSUME ~ misfired', NEW m \in Nodes
                   PROVE  /\ Holds(m, lease[m])'
                          /\ Won(m)' \/ Prolonged(m)' => Holds(m, since[m])'
        BY DEF Leases
      <3>1. /\ ~ misfired /\ key.holder = n /\ lease' = lease /\ since' = since
            /\ call[n].cmd = "EXPIRE" /\ call[n].got = Pending
            /\ call' = [call EXCEPT ![n].got = NoNode]
        BY <2>3 DEF Expire, Sent, Replies
      <3>2. /\ lease[m] \in 0 .. Ttl /\ since[m] \in 0 .. Ttl
            /\ call[m] \in Calls /\ call[n] \in Calls
        BY DEF Inv, TypeOK
      <3>3. lease[m] > 0 => m = n BY <3>1 DEF Inv, Leases, Holds
      <3>4. key' = [holder |-> n, ttl |-> Ttl] BY <1>0, <3>1, <2>3 DEF Expire, Granted
      <3>5. Holds(m, lease[m])' BY <1>0, <3>1, <3>2, <3>3, <3>4 DEF Holds
      <3>6. ASSUME Won(m)' \/ Prolonged(m)' PROVE Holds(m, since[m])'
        <4>1. CASE m = n BY <1>0, <3>1, <3>2, <3>4, <4>1 DEF Holds
        <4>2. CASE m # n
          <5>1. call'[m] = call[m] BY <3>1, <4>2 DEF Inv, TypeOK
          <5>2. Won(m) \/ Prolonged(m) BY <3>6, <5>1 DEF Won, Prolonged
          <5>3. Holds(m, since[m]) BY <3>1, <5>2 DEF Inv, Leases
          <5> QED BY <3>1, <3>2, <4>2, <5>3 DEF Holds
        <4> QED BY <4>1, <4>2
      <3> QED BY <3>5, <3>6
    <2>4. ASSUME Del(n) PROVE Leases'
      <3> SUFFICES ASSUME ~ misfired', NEW m \in Nodes
                   PROVE  /\ Holds(m, lease[m])'
                          /\ Won(m)' \/ Prolonged(m)' => Holds(m, since[m])'
        BY DEF Leases
      <3>1. /\ ~ misfired /\ key.holder = n /\ lease' = lease /\ since' = since
            /\ call[n].cmd = "DEL" /\ call[n].got = Pending
            /\ call' = [call EXCEPT ![n].got = NoNode]
        BY <2>4 DEF Del, Sent, Replies
      <3>2. /\ lease[m] \in 0 .. Ttl /\ since[m] \in 0 .. Ttl
            /\ call[m] \in Calls /\ call[n] \in Calls
        BY DEF Inv, TypeOK
      <3>3. lease[m] > 0 => m = n BY <3>1 DEF Inv, Leases, Holds
      <3>4. lease[n] = 0 BY <3>1 DEF Inv, Shape
      <3>5. Holds(m, lease[m])' BY <3>1, <3>2, <3>3, <3>4 DEF Holds
      <3>6. ASSUME Won(m)' \/ Prolonged(m)' PROVE Holds(m, since[m])'
        <4>1. m # n
          <5>1. call'[n].cmd = "DEL" BY <3>1, <3>2 DEF Inv, TypeOK, Calls
          <5> QED BY <3>6, <5>1 DEF Won, Prolonged
        <4>2. call'[m] = call[m] BY <3>1, <4>1 DEF Inv, TypeOK
        <4>3. Won(m) \/ Prolonged(m) BY <3>6, <4>2 DEF Won, Prolonged
        <4>4. Holds(m, since[m]) BY <3>1, <4>3 DEF Inv, Leases
        <4> QED BY <3>1, <3>2, <4>1, <4>4 DEF Holds
      <3> QED BY <3>5, <3>6
    <2>5. ASSUME Campaign(n) PROVE Leases' BY <1>0, <2>5 DEF Campaign, Inv, TypeOK, Shape, Leases, Holds, Won, Prolonged, Calls, NoCall, Free, Granted, Sent, Replies, Sends, Returns, Answered, object, clocks
    <2>6. ASSUME CampaignWon(n) PROVE Leases' BY <1>0, <2>6 DEF CampaignWon, Inv, TypeOK, Shape, Leases, Holds, Won, Prolonged, Calls, NoCall, Free, Granted, Sent, Replies, Sends, Returns, Answered, object, clocks
    <2>7. ASSUME CampaignLost(n) PROVE Leases' BY <1>0, <2>7 DEF CampaignLost, Inv, TypeOK, Shape, Leases, Holds, Won, Prolonged, Calls, NoCall, Free, Granted, Sent, Replies, Sends, Returns, Answered, object, clocks
    <2>8. ASSUME RenewTask(n) PROVE Leases' BY <1>0, <2>8 DEF RenewTask, Inv, TypeOK, Shape, Leases, Holds, Won, Prolonged, Calls, NoCall, Free, Granted, Sent, Replies, Sends, Returns, Answered, object, clocks
    <2>9. ASSUME Renew(n) PROVE Leases' BY <1>0, <2>9 DEF Renew, Inv, TypeOK, Shape, Leases, Holds, Won, Prolonged, Calls, NoCall, Free, Granted, Sent, Replies, Sends, Returns, Answered, object, clocks
    <2>10. ASSUME RenewOwn(n) PROVE Leases' BY <1>0, <2>10 DEF RenewOwn, Inv, TypeOK, Shape, Leases, Holds, Won, Prolonged, Calls, NoCall, Free, Granted, Sent, Replies, Sends, Returns, Answered, object, clocks
    <2>11. ASSUME RenewLost(n) PROVE Leases' BY <1>0, <2>11 DEF RenewLost, Inv, TypeOK, Shape, Leases, Holds, Won, Prolonged, Calls, NoCall, Free, Granted, Sent, Replies, Sends, Returns, Answered, object, clocks
    <2>12. ASSUME Renewed(n) PROVE Leases' BY <1>0, <2>12 DEF Renewed, Inv, TypeOK, Shape, Leases, Holds, Won, Prolonged, Calls, NoCall, Free, Granted, Sent, Replies, Sends, Returns, Answered, object, clocks
    <2>13. ASSUME Resign(n) PROVE Leases' BY <1>0, <2>13 DEF Resign, Inv, TypeOK, Shape, Leases, Holds, Won, Prolonged, Calls, NoCall, Free, Granted, Sent, Replies, Sends, Returns, Answered, object, clocks
    <2>14. ASSUME ResignOwn(n) PROVE Leases' BY <1>0, <2>14 DEF ResignOwn, Inv, TypeOK, Shape, Leases, Holds, Won, Prolonged, Calls, NoCall, Free, Granted, Sent, Replies, Sends, Returns, Answered, object, clocks
    <2>15. ASSUME ResignFails(n) PROVE Leases' BY <1>0, <2>15 DEF ResignFails, Inv, TypeOK, Shape, Leases, Holds, Won, Prolonged, Calls, NoCall, Free, Granted, Sent, Replies, Sends, Returns, Answered, object, clocks
    <2>16. ASSUME Resigned(n) PROVE Leases' BY <1>0, <2>16 DEF Resigned, Inv, TypeOK, Shape, Leases, Holds, Won, Prolonged, Calls, NoCall, Free, Granted, Sent, Replies, Sends, Returns, Answered, object, clocks
    <2>17. ASSUME Dropped(n) PROVE Leases' BY <1>0, <2>17 DEF Dropped, Inv, TypeOK, Shape, Leases, Holds, Won, Prolonged, Calls, NoCall, Free, Granted, Sent, Replies, Sends, Returns, Answered, object, clocks
    <2>18. ASSUME Crash(n) PROVE Leases' BY <1>0, <2>18 DEF Crash, Inv, TypeOK, Shape, Leases, Holds, Won, Prolonged, Calls, NoCall, Free, Granted, Sent, Replies, Sends, Returns, Answered, object, clocks
    <2>19. ASSUME Register(n) PROVE Leases' BY <1>0, <2>19 DEF Register, Inv, TypeOK, Shape, Leases, Holds, Won, Prolonged, Calls, NoCall, Free, Granted, Sent, Replies, Sends, Returns, Answered, object, clocks
    <2> QED BY <1>2, <2>1, <2>2, <2>3, <2>4, <2>5, <2>6, <2>7, <2>8, <2>9, <2>10, <2>11, <2>12, <2>13, <2>14, <2>15, <2>16, <2>17, <2>18, <2>19 DEF Server, Answer, Caller
  <1> QED BY <1>1, <1>2 DEF Next

LEMMA RemovedNext == Inv /\ Next => Removed'
  <1> SUFFICES ASSUME Inv, Next PROVE Removed' OBVIOUS
  <1>0. Ttl \in Nat /\ Ttl > 0 /\ NoNode \notin Nodes /\ Pending \notin Nodes /\ Pending # NoNode
    BY TtlAssumption, NodesAssumption
  <1>1. CASE Tick BY <1>0, <1>1 DEF Tick, Inv, TypeOK, Removed, Free, object
  <1>2. ASSUME NEW n \in Nodes,
               Server(n) \/ Answer(n) \/ Caller(n) \/ RenewTask(n) \/ Dropped(n) \/ Crash(n)
        PROVE  Removed'
    <2>1. ASSUME SetNx(n) PROVE Removed' BY <1>0, <2>1 DEF SetNx, Inv, TypeOK, Shape, Removed, Calls, NoCall, Free, Granted, Sent, Replies, Sends, Returns, Answered, object, clocks
    <2>2. ASSUME Get(n) PROVE Removed' BY <1>0, <2>2 DEF Get, Inv, TypeOK, Shape, Removed, Calls, NoCall, Free, Granted, Sent, Replies, Sends, Returns, Answered, object, clocks
    <2>3. ASSUME Expire(n) PROVE Removed' BY <1>0, <2>3 DEF Expire, Inv, TypeOK, Shape, Removed, Calls, NoCall, Free, Granted, Sent, Replies, Sends, Returns, Answered, object, clocks
    <2>4. ASSUME Del(n) PROVE Removed' BY <1>0, <2>4 DEF Del, Inv, TypeOK, Shape, Removed, Calls, NoCall, Free, Granted, Sent, Replies, Sends, Returns, Answered, object, clocks
    <2>5. ASSUME Campaign(n) PROVE Removed' BY <1>0, <2>5 DEF Campaign, Inv, TypeOK, Shape, Removed, Calls, NoCall, Free, Granted, Sent, Replies, Sends, Returns, Answered, object, clocks
    <2>6. ASSUME CampaignWon(n) PROVE Removed' BY <1>0, <2>6 DEF CampaignWon, Inv, TypeOK, Shape, Removed, Calls, NoCall, Free, Granted, Sent, Replies, Sends, Returns, Answered, object, clocks
    <2>7. ASSUME CampaignLost(n) PROVE Removed' BY <1>0, <2>7 DEF CampaignLost, Inv, TypeOK, Shape, Removed, Calls, NoCall, Free, Granted, Sent, Replies, Sends, Returns, Answered, object, clocks
    <2>8. ASSUME RenewTask(n) PROVE Removed' BY <1>0, <2>8 DEF RenewTask, Inv, TypeOK, Shape, Removed, Calls, NoCall, Free, Granted, Sent, Replies, Sends, Returns, Answered, object, clocks
    <2>9. ASSUME Renew(n) PROVE Removed' BY <1>0, <2>9 DEF Renew, Inv, TypeOK, Shape, Removed, Calls, NoCall, Free, Granted, Sent, Replies, Sends, Returns, Answered, object, clocks
    <2>10. ASSUME RenewOwn(n) PROVE Removed' BY <1>0, <2>10 DEF RenewOwn, Inv, TypeOK, Shape, Removed, Calls, NoCall, Free, Granted, Sent, Replies, Sends, Returns, Answered, object, clocks
    <2>11. ASSUME RenewLost(n) PROVE Removed' BY <1>0, <2>11 DEF RenewLost, Inv, TypeOK, Shape, Removed, Calls, NoCall, Free, Granted, Sent, Replies, Sends, Returns, Answered, object, clocks
    <2>12. ASSUME Renewed(n) PROVE Removed' BY <1>0, <2>12 DEF Renewed, Inv, TypeOK, Shape, Removed, Calls, NoCall, Free, Granted, Sent, Replies, Sends, Returns, Answered, object, clocks
    <2>13. ASSUME Resign(n) PROVE Removed' BY <1>0, <2>13 DEF Resign, Inv, TypeOK, Shape, Removed, Calls, NoCall, Free, Granted, Sent, Replies, Sends, Returns, Answered, object, clocks
    <2>14. ASSUME ResignOwn(n) PROVE Removed' BY <1>0, <2>14 DEF ResignOwn, Inv, TypeOK, Shape, Removed, Calls, NoCall, Free, Granted, Sent, Replies, Sends, Returns, Answered, object, clocks
    <2>15. ASSUME ResignFails(n) PROVE Removed' BY <1>0, <2>15 DEF ResignFails, Inv, TypeOK, Shape, Removed, Calls, NoCall, Free, Granted, Sent, Replies, Sends, Returns, Answered, object, clocks
    <2>16. ASSUME Resigned(n) PROVE Removed' BY <1>0, <2>16 DEF Resigned, Inv, TypeOK, Shape, Removed, Calls, NoCall, Free, Granted, Sent, Replies, Sends, Returns, Answered, object, clocks
    <2>17. ASSUME Dropped(n) PROVE Removed' BY <1>0, <2>17 DEF Dropped, Inv, TypeOK, Shape, Removed, Calls, NoCall, Free, Granted, Sent, Replies, Sends, Returns, Answered, object, clocks
    <2>18. ASSUME Crash(n) PROVE Removed' BY <1>0, <2>18 DEF Crash, Inv, TypeOK, Shape, Removed, Calls, NoCall, Free, Granted, Sent, Replies, Sends, Returns, Answered, object, clocks
    <2>19. ASSUME Register(n) PROVE Removed' BY <1>0, <2>19 DEF Register, Inv, TypeOK, Shape, Removed, Calls, NoCall, Free, Granted, Sent, Replies, Sends, Returns, Answered, object, clocks
    <2> QED BY <1>2, <2>1, <2>2, <2>3, <2>4, <2>5, <2>6, <2>7, <2>8, <2>9, <2>10, <2>11, <2>12, <2>13, <2>14, <2>15, <2>16, <2>17, <2>18, <2>19 DEF Server, Answer, Caller
  <1> QED BY <1>1, <1>2 DEF Next

LEMMA Stutter == Inv /\ UNCHANGED vars => Inv'
  BY DEF Inv, TypeOK, Shape, Leases, Holds, Won, Prolonged, Removed, vars

(* The inductive invariant holds in every reachable state. *)
THEOREM Invariance == Spec => []Inv
  <1>1. Inv /\ [Next]_vars => Inv'
    <2> SUFFICES ASSUME Inv, [Next]_vars PROVE Inv' OBVIOUS
    <2>1. CASE Next BY <2>1, TypeOKNext, ShapeNext, LeasesNext, RemovedNext DEF Inv
    <2>2. CASE UNCHANGED vars BY <2>2, Stutter
    <2> QED BY <2>1, <2>2
  <1> QED BY <1>1, InitInv, PTL DEF Spec

(* Every variable keeps its type: above all, a key that is held expires. *)
THEOREM TypeCorrect == Spec => []TypeOK
  <1>1. Inv => TypeOK BY DEF Inv
  <1> QED BY <1>1, Invariance, PTL

(* A node within the lease it was told of has the key for that long, for any *)
(* number of nodes and any Ttl, as long as no late EXPIRE or DEL has met     *)
(* another's key (renew, resign).                                            *)
THEOREM LeasesAreKept == Spec => []LeaseIsKept
  <1>1. Inv => LeaseIsKept BY DEF Inv, Leases, Holds, LeaseIsKept
  <1> QED BY <1>1, Invariance, PTL

(* A resign that hangs has given the key and the leadership back. *)
THEOREM HungHaveResigned == Spec => []HungHasResigned
  <1>1. Inv => HungHasResigned BY DEF Inv, Removed, HungHasResigned
  <1> QED BY <1>1, Invariance, PTL

=============================================================================
